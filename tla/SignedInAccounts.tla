------------------------- MODULE SignedInAccounts --------------------------
(***************************************************************************)
(* Which Steam accounts the app is signed in to (src/src): the session     *)
(* store and its copy in localStorage, the resume of every stored account  *)
(* at startup (useSessionBootstrap), signing in, the account switcher with *)
(* sign-out, and the cap a subscription sets on the agent accounts.        *)
(* JavaScript runs one callback at a time, so every step below ends at an  *)
(* await; the backend, the timers and the user act in between.             *)
(***************************************************************************)
EXTENDS Naturals, KeyOrder

CONSTANTS
  Account,  \* keys agent:<username> and local:<steamId>
  Agent,    \* those signed in through a daemon
  Caps,     \* how many agent accounts the subscription tiers admit
  FreeCap,  \* what no subscription admits
  MaxKnown, \* a bound: accounts listed, persisted or being resumed
  None

ASSUME AccountsAssumption ==
  /\ Agent \subseteq Account
  /\ None \notin Account
  /\ MaxKnown \in Nat
  /\ FreeCap \in Caps /\ Caps \subseteq Nat \ {0}

Local == Account \ Agent

VARIABLES
  stored,   \* localStorage: the persisted accounts and the active one
  accounts, \* sessionStore.accounts
  active,   \* sessionStore.activeAccountKey
  boot,     \* where useSessionBootstrap stands
  outcome,  \* outcome[k]: what the resume of k came to
  tier,     \* the subscription: its cap, whether it is known, the cached one
  route,    \* the sign-in page or the dashboard
  checking, \* local accounts whose switch waits for is_steam_running
  leaving,  \* accounts that are being signed out
  wiping    \* the last account left; kill_all is under way

storeVars == <<stored, accounts, active>>
bootVars == <<boot, outcome>>
exitVars == <<checking, leaving, wiping>>
vars == <<storeVars, bootVars, tier, route, exitVars>>

(* waiting: resumes not yet looked at; resumed: what the first pass will   *)
(* hydrate.                                                                *)
Boot == [pc : {"start", "racing", "grace", "idle"}, preferred : Account \cup {None},
         waiting : Listing(Account), resumed : Listing(Account)]

TypeOK ==
  /\ stored \in [accounts : Listing(Account), active : Account \cup {None}]
  /\ accounts \in Listing(Account)
  /\ active \in Account \cup {None}
  /\ boot \in Boot
  /\ outcome \in [Account -> {"none", "pending", "resumed", "failed", "gone"}]
  /\ tier \in [cap : Caps, known : BOOLEAN, cached : Caps \cup {None}]
  /\ route \in {"signIn", "dashboard"}
  /\ checking \subseteq Local
  /\ leaving \subseteq Account
  /\ wiping \in BOOLEAN

Unbooted == [pc |-> "start", preferred |-> None, waiting |-> Empty, resumed |-> Empty]

Nothing == [k \in Account |-> "none"]

Init ==
  /\ accounts = Empty /\ active = None
  /\ boot = Unbooted /\ outcome = Nothing
  /\ route = "signIn"
  /\ checking = {} /\ leaving = {} /\ wiping = FALSE
  /\ stored = [accounts |-> Empty, active |-> None]
  /\ tier = [cap |-> FreeCap, known |-> FALSE, cached |-> None]

(* The app is closed, or crashes, and starts: localStorage is what it finds. *)
Restart ==
  /\ accounts' = Empty /\ active' = None
  /\ boot' = Unbooted /\ outcome' = Nothing
  /\ route' = "signIn"
  /\ checking' = {} /\ leaving' = {} /\ wiping' = FALSE
  /\ tier' = [tier EXCEPT !.cap = FreeCap, !.known = FALSE]
  /\ UNCHANGED stored

Ready == boot.pc = "idle"
Shell == Ready /\ route = "dashboard"

-----------------------------------------------------------------------------
(* computeAllowedAccountKeys: local accounts, and agent accounts in the    *)
(* order in which they were added up to the cap.                           *)
Allowed(o, cap) ==
  {k \in o.keys : k \in Agent => Cardinality({j \in Agent \cap o.keys : <<j, k>> \in o.older}) < cap}

(* clearPersistedAccount, for each key in S. *)
Forget(S) ==
  LET rest == Drop(stored.accounts, S)
  IN  stored' = [accounts |-> rest,
                 active   |-> IF stored.active \in S THEN First(rest, None) ELSE stored.active]

SetAccount(k) ==
  /\ stored' = [accounts |-> Put(stored.accounts, k), active |-> k]
  /\ accounts' = Put(accounts, k)
  /\ active' = k

ClearAccount(k) ==
  /\ Forget({k})
  /\ accounts' = Drop(accounts, {k})
  /\ active' = IF active = k THEN First(accounts', None) ELSE active

SwitchAccount(k) ==
  /\ IF k \in accounts.keys
       THEN stored' = [stored EXCEPT !.active = k] /\ active' = k
       ELSE UNCHANGED <<stored, active>>
  /\ UNCHANGED accounts

(* hydrateAccounts; it persists nothing. *)
Hydrate(new) ==
  /\ accounts' = Merge(accounts, new)
  /\ active' = IF boot.preferred \in accounts'.keys THEN boot.preferred
                ELSE IF active # None THEN active ELSE First(accounts', None)

(* router.push('/dashboard'); DashboardShell reads the cached subscription *)
(* as it mounts.                                                           *)
ToDashboard ==
  /\ route' = "dashboard"
  /\ tier' = IF route = "signIn" /\ tier.cached # None
                THEN [tier EXCEPT !.cap = tier.cached, !.known = TRUE] ELSE tier

-----------------------------------------------------------------------------
(* useSessionBootstrap reads what is persisted and resumes every account   *)
(* the cached tier admits; the others are listed without a session.        *)
BootStart ==
  LET order   == stored.accounts
      allowed == Allowed(order, IF tier.cached = None THEN FreeCap ELSE tier.cached)
  IN  /\ boot.pc = "start"
      /\ IF order = Empty
           THEN boot' = [boot EXCEPT !.pc = "idle"] /\ UNCHANGED outcome
           ELSE /\ boot' = [boot EXCEPT !.pc = "racing", !.preferred = stored.active,
                              !.waiting = Select(order, allowed), !.resumed = Drop(order, allowed)]
                /\ outcome' = [k \in Account |-> IF k \in allowed THEN "pending" ELSE "none"]
      /\ UNCHANGED <<storeVars, tier, route, exitVars>>

(* resumeAccount comes back: the account is on, the failure is transient,  *)
(* or there is nothing left to resume with.                                *)
ResumeAnswers(k, result) ==
  /\ outcome[k] = "pending"
  /\ outcome' = [outcome EXCEPT ![k] = result]
  /\ UNCHANGED <<storeVars, boot, tier, route, exitVars>>

Waiting(result) == {k \in boot.waiting.keys : outcome[k] = result}

(* What has been looked at matters no more, but for the failures. *)
Seen == outcome' = [k \in Account |-> IF outcome[k] \in {"resumed", "gone"} THEN "none" ELSE outcome[k]]

(* Mutant: what has not answered by now is dropped. *)
MutSettle(resumed, waiting) ==
  /\ boot' = [Unbooted EXCEPT !.pc = "idle"]
  /\ IF resumed = Empty
       THEN UNCHANGED <<accounts, active, tier, route>>
       ELSE Hydrate(resumed) /\ ToDashboard

(* The first pass is over: hydrate and go to the dashboard. *)
Settle(resumed, waiting) ==
  /\ boot' = [boot EXCEPT !.pc = "idle", !.waiting = waiting, !.resumed = Empty,
                !.preferred = IF waiting = Empty THEN None ELSE boot.preferred]
  /\ IF resumed = Empty
       THEN UNCHANGED <<accounts, active, tier, route>>
       ELSE Hydrate(resumed) /\ ToDashboard

(* Mutant: any failure clears the persisted account. *)
MutRaceEndsForgetsFailures ==
  LET resumed == Merge(boot.resumed, Select(boot.waiting, Waiting("resumed")))
      waiting == Select(boot.waiting, Waiting("pending"))
  IN  /\ boot.pc = "racing"
      /\ Forget(Waiting("gone") \cup Waiting("failed"))
      /\ IF resumed = Empty /\ waiting # Empty
           THEN /\ boot' = [boot EXCEPT !.pc = "grace", !.waiting = waiting]
                /\ UNCHANGED <<accounts, active, tier, route>>
           ELSE Settle(resumed, waiting)
      /\ Seen /\ UNCHANGED exitVars

(* Every resume has answered, or four seconds are over.  If nothing at all *)
(* came back and something may, the splash stays a little longer.          *)
RaceEnds ==
  LET resumed == Merge(boot.resumed, Select(boot.waiting, Waiting("resumed")))
      waiting == Select(boot.waiting, Waiting("pending"))
  IN  /\ boot.pc = "racing"
      /\ Forget(Waiting("gone"))
      /\ IF resumed = Empty /\ waiting # Empty
           THEN /\ boot' = [boot EXCEPT !.pc = "grace", !.waiting = waiting]
                /\ UNCHANGED <<accounts, active, tier, route>>
           ELSE Settle(resumed, waiting)
      /\ Seen /\ UNCHANGED exitVars

GraceEnds ==
  /\ boot.pc = "grace"
  /\ Forget(Waiting("gone"))
  /\ Settle(Select(boot.waiting, Waiting("resumed")), Select(boot.waiting, Waiting("pending")))
  /\ Seen /\ UNCHANGED exitVars

(* Mutant: one straggler that fails rejects them all. *)
MutLateEnds ==
  LET resumed == boot.waiting
  IN  /\ Ready /\ resumed # Empty /\ Waiting("resumed") = resumed.keys
      /\ boot' = [boot EXCEPT !.waiting = Empty, !.preferred = None]
      /\ Hydrate(resumed)
      /\ ToDashboard
      /\ Seen /\ UNCHANGED <<stored, exitVars>>

(* All stragglers have answered. *)
LateEnds ==
  LET resumed == Select(boot.waiting, Waiting("resumed"))
  IN  /\ Ready /\ boot.waiting # Empty /\ Waiting("pending") = {}
      /\ Forget(Waiting("gone"))
      /\ boot' = [boot EXCEPT !.waiting = Empty, !.preferred = None]
      /\ IF resumed = Empty THEN UNCHANGED <<accounts, active>> ELSE Hydrate(resumed)
      /\ IF resumed = Empty \/ route = "dashboard"
           THEN UNCHANGED <<tier, route>>
           ELSE ToDashboard
      /\ Seen /\ UNCHANGED exitVars

-----------------------------------------------------------------------------
(* A sign-in comes through: agent_login or the code it asked for, a        *)
(* scanned QR code, or Steam runs with the local account.  The answer      *)
(* reaches the store even when the form that asked has been left; only     *)
(* an open form goes on to the dashboard.                                  *)
SignsIn(k, open) ==
  /\ Ready
  /\ Cardinality(accounts.keys \cup stored.accounts.keys \cup boot.waiting.keys \cup {k}) <= MaxKnown
  /\ SetAccount(k)
  /\ IF open THEN ToDashboard ELSE UNCHANGED <<route, tier>>
  /\ UNCHANGED <<bootVars, exitVars>>

-----------------------------------------------------------------------------
(* AccountSwitcher: a row switches unless its account is active or over    *)
(* the cap; a local account asks for Steam first.                          *)
RequestSwitch(k) ==
  /\ Shell /\ active # None
  /\ k \in Allowed(accounts, tier.cap) \ (checking \cup {active})
  /\ IF k \in Agent THEN SwitchAccount(k) /\ UNCHANGED checking
                    ELSE checking' = checking \cup {k} /\ UNCHANGED storeVars
  /\ UNCHANGED <<bootVars, tier, route, leaving, wiping>>

SwitchChecked(k, running) ==
  /\ k \in checking
  /\ checking' = checking \ {k}
  /\ IF running THEN SwitchAccount(k) ELSE UNCHANGED storeVars
  /\ UNCHANGED <<bootVars, tier, route, leaving, wiping>>

RequestSignOut(k) ==
  /\ Shell /\ active # None
  /\ k \in accounts.keys \ leaving
  /\ leaving' = leaving \cup {k}
  /\ UNCHANGED <<storeVars, bootVars, tier, route, checking, wiping>>

(* signOutAccount after its commands, which may have failed: the entry     *)
(* goes in any case.  With nobody left the whole backend is swept.         *)
SignOutEnds(k) ==
  LET last == accounts'.keys = {}
  IN  /\ k \in leaving
      /\ leaving' = leaving \ {k}
      /\ ClearAccount(k)
      /\ wiping' = (wiping \/ last)
      /\ tier' = IF last THEN [tier EXCEPT !.cap = FreeCap, !.known = FALSE] ELSE tier
      /\ UNCHANGED <<bootVars, route, checking>>

(* A dashboard page without an account goes back to the sign-in page. *)
LeaveDashboard ==
  /\ Shell /\ active = None
  /\ route' = "signIn"
  /\ UNCHANGED <<storeVars, bootVars, tier, exitVars>>

(* kill_all_steam_utility_processes has answered, the resumes under way    *)
(* with it; the switcher then routes to '/'.                               *)
Wipe ==
  /\ wiping /\ wiping' = FALSE
  /\ outcome' = [k \in Account |-> IF k \in Agent /\ outcome[k] = "pending" THEN "failed" ELSE outcome[k]]
  /\ route' = "signIn"
  /\ UNCHANGED <<storeVars, boot, tier, checking, leaving>>

-----------------------------------------------------------------------------
(* useCheckSubscription; a check that fails answers with the free tier.    *)
TierChecked(c) ==
  /\ Shell /\ active # None
  /\ tier' = [cap |-> c, known |-> TRUE, cached |-> c]
  /\ UNCHANGED <<storeVars, bootVars, route, exitVars>>

(* Mutant: the fallback is whichever account was added last. *)
MutEnforceLast ==
  /\ Shell /\ tier.known /\ active # None
  /\ active \notin Allowed(accounts, tier.cap)
  /\ \E k \in accounts.keys : /\ \A j \in accounts.keys \ {k} : <<j, k>> \in accounts.older
                              /\ SwitchAccount(k)
  /\ UNCHANGED <<bootVars, tier, route, exitVars>>

(* useAgentAccountCapEnforcement *)
Enforce ==
  /\ Shell /\ tier.known /\ active # None
  /\ active \notin Allowed(accounts, tier.cap)
  /\ SwitchAccount(First(accounts, None))
  /\ UNCHANGED <<bootVars, tier, route, exitVars>>

-----------------------------------------------------------------------------
Bootstrap == BootStart \/ RaceEnds \/ GraceEnds \/ LateEnds

Switcher(k) ==
  \/ RequestSwitch(k) \/ RequestSignOut(k) \/ SignOutEnds(k)
  \/ \E running \in BOOLEAN : SwitchChecked(k, running)

Next ==
  \/ Restart \/ Bootstrap
  \/ \E k \in Account : \/ \E result \in {"resumed", "failed", "gone"} : ResumeAnswers(k, result)
                        \/ \E open \in BOOLEAN : SignsIn(k, open)
                        \/ Switcher(k)
  \/ LeaveDashboard \/ Wipe \/ Enforce
  \/ \E c \in Caps : TierChecked(c)

(* The timers and effects of the page run; that a resume answers is not    *)
(* assumed.                                                                *)
Spec == Init /\ [][Next]_vars /\ WF_vars(Bootstrap) /\ WF_vars(Enforce)

-----------------------------------------------------------------------------
(* Once the splash is gone, every persisted account is in the switcher,    *)
(* still being resumed, or could not be resumed this time.                 *)
StoredListed ==
  Ready => \A k \in stored.accounts.keys :
             k \in accounts.keys \cup boot.waiting.keys \/ outcome[k] = "failed"

(* There is an active account exactly when any is listed, whichever way    *)
(* resumes, switches and sign-outs interleave.                             *)
ActiveListed == IF accounts.keys = {} THEN active = None ELSE active \in accounts.keys

(* So the switcher offers every account there is, and the pages show one   *)
(* that it offers.                                                         *)
AccountsListed == StoredListed /\ ActiveListed

(* What is decided about a resume the splash did not wait for is decided   *)
(* from its answer alone, whatever the user has done since: an account     *)
(* signed in to meanwhile is struck off for its late failure, and one that *)
(* was signed out of again is listed for its late success.                 *)
LateFailure(k) == Ready /\ k \in boot.waiting.keys \cap accounts.keys /\ outcome[k] = "gone"
LateReturn(k) ==
  Ready /\ k \in boot.waiting.keys \ (accounts.keys \cup stored.accounts.keys) /\ outcome[k] = "resumed"

(* But for these two, a persisted account goes only with its sign-out, or  *)
(* when nobody has signed in to it and its resume has shown that there is  *)
(* nothing to resume with; and every account the app lists is persisted,   *)
(* as hydrateAccounts assumes, so that a restart finds it again.           *)
ForgottenRightly ==
  \A k \in stored.accounts.keys \ stored'.accounts.keys :
    \/ k \in leaving \ leaving' \/ LateFailure(k)
    \/ outcome[k] = "gone" /\ k \in boot.waiting.keys \ accounts.keys
Unpersisted == accounts.keys \ stored.accounts.keys
ListedRightly == \A k \in Unpersisted' \ Unpersisted : LateFailure(k) \/ LateReturn(k)
AccountsKept == [][ForgottenRightly /\ ListedRightly]_vars

(* The splash ends although a resume may never answer, and the resumes     *)
(* that came too late for it are taken up all the same once the last of    *)
(* them has answered.                                                      *)
StartupEnds ==
  /\ []<>(boot.pc \notin {"racing", "grace"})
  /\ []<>(Ready /\ boot.waiting # Empty => Waiting("pending") # {})

(* With the tier known, the dashboard does not stay with an account above  *)
(* the cap: the fallback is itself within it.                              *)
CapSettles ==
  []<>(Shell /\ tier.known /\ active # None => active \in Allowed(accounts, tier.cap))
=============================================================================
