---------------------------- MODULE AccountViews ----------------------------
(***************************************************************************)
(* What the dashboard shows of each account's idling, card farming and     *)
(* achievement unlocker (src/src): a store with an entry per account and a *)
(* copy of the active one, kept current by events, by reads when an        *)
(* account becomes active and by the answers of some commands.  The three  *)
(* stores do not touch each other, so a behaviour follows one of them.     *)
(***************************************************************************)
EXTENDS Naturals, Sequences, FiniteSets

CONSTANTS
  Account,   \* account keys
  MaxCycle,  \* a bound: sessions started, over all accounts
  MaxSets,   \* a bound: how many sets of games idling's owners claim
  MaxCalls,  \* a bound: commands in flight; the page asks for another only
             \* while three more could be
  MaxEvents, \* a bound: events on their way to the page
  None

ASSUME ViewsAssumption ==
  /\ None \notin Account
  /\ MaxCycle \in Nat /\ MaxSets \in 0..MaxCycle /\ MaxCalls \in Nat /\ MaxEvents \in Nat

Feature == {"idling", "farming", "unlocker"}

(* What the backend reports: nothing, a running session or what one that   *)
(* ended has completed; cycle tells one session from the next, and in      *)
(* idling one set of games from another.  A session that is being stopped  *)
(* is off the list already but has its last event to send.                 *)
Session == [cycle : 0..MaxCycle, phase : {"none", "running", "stopping", "finished"}]
Report == {s \in Session : s.phase # "stopping"}
Nothing == [cycle |-> 0, phase |-> "none"]

(* owners: idling's claims by owner, read apart from what idles. *)
Entry == [state : Report, owners : Report]
Blank == [state |-> Nothing, owners |-> Nothing]

VARIABLES
  feature,   \* which of the stores
  signed,    \* sessionStore.accounts
  active,    \* sessionStore.activeAccountKey
  session,   \* session[k]: what the backend runs for k; in idling the
             \* processes, or what the daemon has last reported
  claimed,   \* idling's claims registry
  started,   \* history: sessions started so far
  entries,   \* the store's entries
  view,      \* its accountKey and the copies of that account's values
  dismissed, \* accounts whose finished summary the user has dismissed
  routed,    \* steamIdToAccountKey
  listening, \* the event listener is registered
  events,    \* events on their way
  calls,     \* commands in flight
  calm       \* history: since it became active, the account saw no change

store == <<entries, view, dismissed>>
backend == <<session, claimed, started>>
page == <<signed, active, routed, listening>>
vars == <<feature, backend, store, page, events, calls, calm>>

(* "route" and "read" belong to an effect and are cancelled with it.       *)
Call == [of : Account, what : {"route", "read", "claims", "command", "start", "refresh"},
         answer : Report \cup {None}]
Guarded(c) == c.what \in {"route", "read"}

TypeOK ==
  /\ feature \in Feature
  /\ signed \subseteq Account
  /\ active \in signed \cup {None}
  /\ session \in [Account -> Session]
  /\ claimed \in [Account -> Report] /\ started \in 0..MaxCycle
  /\ DOMAIN entries \subseteq Account /\ \A k \in DOMAIN entries : entries[k] \in Entry
  /\ view \in [key : Account \cup {None}, entry : Entry, dismissed : BOOLEAN]
  /\ dismissed \subseteq Account
  /\ routed \subseteq Account
  /\ listening \in BOOLEAN
  /\ events \in Seq([of : Account, state : Report]) /\ Len(events) <= MaxEvents
  /\ calls \subseteq Call
  /\ calm \in BOOLEAN

Init ==
  /\ feature \in Feature
  /\ signed = {} /\ active = None
  /\ session = [k \in Account |-> Nothing]
  /\ claimed = [k \in Account |-> Nothing] /\ started = 0
  /\ entries = [k \in {} |-> Blank]
  /\ view = [key |-> None, entry |-> Blank, dismissed |-> FALSE]
  /\ dismissed = {} /\ routed = {} /\ listening = FALSE
  /\ events = <<>> /\ calls = {} /\ calm = FALSE

-----------------------------------------------------------------------------
Has(k) == k \in DOMAIN entries
Of(k) == IF Has(k) THEN entries[k] ELSE Blank
Put(k, e) == [j \in DOMAIN entries \cup {k} |-> IF j = k THEN e ELSE entries[j]]
Without(k) == [j \in DOMAIN entries \ {k} |-> entries[j]]

(* set({ entries: ..., ...(accountKey === key ? entry : {}) }) *)
Store(k, e, d) ==
  /\ entries' = Put(k, e)
  /\ dismissed' = d
  /\ view' = IF view.key = k THEN [view EXCEPT !.entry = e, !.dismissed = k \in d] ELSE view

(* idlingStore: setAppIds, setClaimsByOwner *)
SetAppIds(k, s) == Store(k, [Of(k) EXCEPT !.state = s], dismissed)
SetClaimsByOwner(k, s) == Store(k, [Of(k) EXCEPT !.owners = s], dismissed)

(* Mutant: an earlier dismissal stays. *)
MutUpdateFarming(k, s) == Store(k, [Blank EXCEPT !.state = s], dismissed)

(* cardFarmingStore: a running session re-arms the summary. *)
UpdateFarming(k, s) ==
  Store(k, [Blank EXCEPT !.state = s], IF s.phase = "running" THEN dismissed \ {k} ELSE dismissed)

(* achievementUnlockerStore *)
UpdateUnlocker(k, s) ==
  Store(k, [Blank EXCEPT !.state = s], IF s.phase = "running" THEN dismissed \ {k} ELSE dismissed)

Update(k, s) ==
  CASE feature = "idling"   -> SetAppIds(k, s)
    [] feature = "farming"  -> UpdateFarming(k, s)
    [] feature = "unlocker" -> UpdateUnlocker(k, s)

-----------------------------------------------------------------------------
(* The backend.  Tauri sends an event only to a listener it knows.         *)
Reported(k) == IF session[k].phase \in {"none", "stopping"} THEN Nothing ELSE session[k]

Becomes(k, s) ==
  /\ session' = [session EXCEPT ![k] = s]
  /\ calm' = (calm /\ k # active)

Emit(k, s) ==
  IF listening THEN Len(events) < MaxEvents /\ events' = Append(events, [of |-> k, state |-> s])
               ELSE UNCHANGED events

Running(n) == [cycle |-> n, phase |-> "running"]

(* A session of the farming or the unlocker, which its progress announces. *)
Begin(k) ==
  /\ session[k].phase = "none"
  /\ started < MaxCycle /\ started' = started + 1
  /\ Becomes(k, Running(started'))
  /\ UNCHANGED <<claimed, events>>

(* An owner changes its claim in the registry, or gives it up. *)
Claim(k) ==
  /\ \E s \in {Nothing} \cup {Running(n) : n \in 1..MaxSets} :
       s # claimed[k] /\ claimed' = [claimed EXCEPT ![k] = s]
  /\ calm' = (calm /\ k # active)
  /\ UNCHANGED started

(* The backend takes what is claimed.  That announcements overtake each    *)
(* other is IdleClaims' subject.                                           *)
Announce(k) == Becomes(k, claimed'[k]) /\ Emit(k, claimed'[k])

Reclaims(k) ==
  /\ feature = "idling" /\ Claim(k)
  /\ UNCHANGED <<feature, session, store, page, events, calls>>

Idles(k) ==
  /\ feature = "idling" /\ session[k] # claimed[k]
  /\ UNCHANGED <<claimed, started>> /\ Announce(k)
  /\ UNCHANGED <<feature, store, page, calls>>

(* A process dies and is polled, or does not start at all, or the daemon   *)
(* loses Steam: what idles ends, the claims stay.                          *)
Exits(k) ==
  /\ feature = "idling" /\ session[k] # Nothing
  /\ Becomes(k, Nothing) /\ Emit(k, Nothing)
  /\ UNCHANGED <<feature, claimed, started, store, page, calls>>

Begins(k) == feature # "idling" /\ Begin(k) /\ UNCHANGED <<feature, store, page, calls>>

(* A session that ends by itself sends its results. *)
Ends(k) ==
  /\ feature # "idling" /\ session[k].phase = "running"
  /\ Becomes(k, [session[k] EXCEPT !.phase = "finished"]) /\ Emit(k, session'[k])
  /\ UNCHANGED <<feature, claimed, started, store, page, calls>>

Progresses(k) ==
  /\ feature # "idling" /\ session[k].phase = "running"
  /\ Emit(k, session[k])
  /\ UNCHANGED <<feature, backend, store, page, calls, calm>>

(* stop takes the session off the list and waits for it. *)
Stops(k) ==
  /\ feature # "idling" /\ session[k].phase = "running"
  /\ Becomes(k, [session[k] EXCEPT !.phase = "stopping"])
  /\ UNCHANGED <<feature, claimed, started, store, page, events, calls>>

(* The session that was stopped sends its results. *)
StopEnds(k) ==
  /\ session[k].phase = "stopping"
  /\ Becomes(k, Nothing)
  /\ Emit(k, [session[k] EXCEPT !.phase = "finished"])
  /\ UNCHANGED <<feature, claimed, started, store, page, calls>>

(* The session that ended by itself leaves the list. *)
Removed(k) ==
  /\ session[k].phase = "finished"
  /\ Becomes(k, Nothing)
  /\ UNCHANGED <<feature, claimed, started, store, page, events, calls>>

-----------------------------------------------------------------------------
Ask(k, what) == [of |-> k, what |-> what, answer |-> None]

(* get_idle_claims follows every change of idlingStore. *)
Follow(k) == IF feature = "idling" THEN {Ask(k, "claims")} ELSE {}

Pending(cs) == Cardinality(cs) <= MaxCalls

Answered(c, s) == (calls \ {c}) \cup {[c EXCEPT !.answer = s]}

(* get_idle_claims looks into the registry, the other reads do not. *)
ServeRead(c) ==
  /\ c \in calls /\ c.answer = None /\ c.what \in {"read", "claims", "refresh"}
  /\ calls' = Answered(c, IF c.what = "claims" THEN claimed[c.of] ELSE Reported(c.of))
  /\ UNCHANGED <<feature, backend, store, page, events, calm>>

(* toggle_manual_idle, whose answer makes the page read again, which       *)
(* nothing cancels; a daemon confirms it later, with an event.             *)
ServeToggle(c) ==
  /\ c \in calls /\ c.answer = None /\ c.what = "command"
  /\ \/ Claim(c.of) /\ (Announce(c.of) \/ UNCHANGED <<session, events>>)
     \/ UNCHANGED <<backend, events, calm>>
  /\ calls' = (calls \ {c}) \cup {Ask(c.of, "refresh")}
  /\ UNCHANGED <<feature, store, page>>

(* start_farming starts if nothing runs and answers with what runs then.   *)
(* That a start overtakes a stop is FarmingSession's subject.              *)
ServeStart(c) ==
  /\ c \in calls /\ c.answer = None /\ c.what = "start" /\ feature # "idling"
  /\ IF session[c.of].phase = "none" THEN Begin(c.of)
       ELSE session[c.of].phase # "stopping" /\ UNCHANGED <<backend, events, calm>>
  /\ calls' = Answered(c, session'[c.of])
  /\ UNCHANGED <<feature, store, page>>

(* start_auto_idle_games claims anew or as before, and answers with what   *)
(* idles.  An agent account's echoes what it asked for: the daemon may not *)
(* have done it yet, or never do it.                                       *)
ServeAutoIdle(c) ==
  /\ c \in calls /\ c.answer = None /\ c.what = "start" /\ feature = "idling"
  /\ Claim(c.of) \/ UNCHANGED <<claimed, started>>
  /\ claimed'[c.of] # Nothing
  /\ calm' = (calm /\ c.of # active)
  /\ \/ Announce(c.of) /\ calls' = Answered(c, session'[c.of])
     \/ calls' = Answered(c, claimed'[c.of]) /\ UNCHANGED <<session, events>>
  /\ UNCHANGED <<feature, store, page>>

(* The answer reaches the page: reads and the echo of a start are stored.  *)
Return(c) ==
  /\ c \in calls /\ c.answer # None
  /\ IF c.what = "claims" THEN SetClaimsByOwner(c.of, c.answer) /\ calls' = calls \ {c}
                          ELSE Update(c.of, c.answer) /\ calls' = (calls \ {c}) \cup Follow(c.of)
  /\ UNCHANGED <<feature, backend, page, events, calm>>

(* resolve_account_steam_id *)
Resolve(c) ==
  /\ c \in calls /\ c.what = "route"
  /\ calls' = calls \ {c}
  /\ routed' = routed \cup {c.of}
  /\ UNCHANGED <<feature, backend, store, signed, active, listening, events, calm>>

Fail(c) ==
  /\ c \in calls /\ c.answer = None
  /\ calls' = calls \ {c}
  /\ calm' = (calm /\ (c.of = active => c.what \notin {"read", "claims"}))
  /\ UNCHANGED <<feature, backend, store, page, events>>

(* Mutant: whom an idling event is for is not looked up. *)
MutRouted(k) == feature = "idling" \/ k \in routed

(* The listener is global: idling events name an account, which must be    *)
(* signed in, the others a Steam id that must have been resolved.          *)
Routed(k) == k \in IF feature = "idling" THEN signed ELSE routed

Deliver ==
  /\ listening /\ events # <<>>
  /\ events' = Tail(events)
  /\ LET e == Head(events)
     IN  IF Routed(e.of)
           THEN Update(e.of, e.state) /\ calls' = calls \cup Follow(e.of) /\ Pending(calls')
           ELSE UNCHANGED <<store, calls>>
  /\ UNCHANGED <<feature, backend, page, calm>>

Listen ==
  /\ active # None /\ ~listening /\ listening' = TRUE
  /\ UNCHANGED <<feature, backend, store, signed, active, routed, events, calls, calm>>

-----------------------------------------------------------------------------
(* The effects of useIdlingSync, useCardFarmingSync and                    *)
(* useAchievementUnlockerSync for an account that becomes active, over the *)
(* entries es and dismissals d: the old effect's reads are cancelled and   *)
(* its listener goes; the new listener takes a round trip to be known.     *)
SetActiveAccount(k, es, d) ==
  LET e == IF k \in DOMAIN es THEN es[k] ELSE Blank
  IN  /\ entries' = [j \in DOMAIN es \cup {k} |-> IF j = k THEN e ELSE es[j]]
      /\ dismissed' = d
      /\ view' = [key |-> k, entry |-> e, dismissed |-> k \in d]

Resync(new) ==
  /\ calls' = {c \in calls : ~Guarded(c)} \cup new /\ Pending(calls')
  /\ listening' = FALSE /\ events' = <<>>

IdlingSync(k) == Resync({Ask(k, "read")})

(* Mutant: what is cached is not read again. *)
MutFarmingSync(k) == Resync({Ask(k, "route")} \cup IF Has(k) THEN {} ELSE {Ask(k, "read")})

FarmingSync(k) == Resync({Ask(k, "route"), Ask(k, "read")})
UnlockerSync(k) == Resync({Ask(k, "route"), Ask(k, "read")})

Activate(k, es, d) ==
  /\ active' = k
  /\ SetActiveAccount(k, es, d)
  /\ CASE feature = "idling" -> IdlingSync(k)
       [] feature = "farming" -> FarmingSync(k)
       [] feature = "unlocker" -> UnlockerSync(k)
  /\ calm' = ~\E c \in calls : c.of = k /\ ~Guarded(c)

(* setAccount stores a new object, so the effects run for a known key too. *)
SignIn(k) ==
  /\ signed' = signed \cup {k}
  /\ Activate(k, entries, dismissed)
  /\ UNCHANGED <<feature, backend, routed>>

Switch(k) ==
  /\ k \in signed \ {active}
  /\ Activate(k, entries, dismissed)
  /\ UNCHANGED <<feature, backend, signed, routed>>

(* Mutant: the active account is not handed on. *)
MutSignOutEnds(k) ==
  /\ k \in signed /\ signed' = signed \ {k}
  /\ entries' = Without(k) /\ dismissed' = dismissed \ {k}
  /\ UNCHANGED <<feature, backend, routed, active, view, listening, events, calls, calm>>

(* clearEntry and clearAccount, after the commands of the sign-out. *)
SignOutEnds(k) ==
  /\ k \in signed /\ signed' = signed \ {k}
  /\ IF k # active
       THEN /\ entries' = Without(k) /\ dismissed' = dismissed \ {k}
            /\ UNCHANGED <<active, view, listening, events, calls, calm>>
       ELSE IF signed' # {}
       THEN \E j \in signed' : Activate(j, Without(k), dismissed \ {k})
       ELSE /\ entries' = Without(k) /\ dismissed' = dismissed \ {k}
            /\ active' = None /\ calm' = FALSE
            /\ view' = [key |-> None, entry |-> Blank, dismissed |-> FALSE]
            /\ Resync({})
  /\ UNCHANGED <<feature, backend, routed>>

(* The page's buttons, and the automations that start what does not run:   *)
(* useIdling, useAutoIdleStartup and useAutoFarmCards.                     *)
Asks(what) ==
  /\ active # None
  /\ Cardinality(calls) + 2 < MaxCalls
  /\ calls' = calls \cup {Ask(active, what)}
  /\ UNCHANGED <<feature, backend, store, page, events, calm>>

ToggleIdle == feature = "idling" /\ Asks("command")
AutoIdle == feature = "idling" /\ Asks("start")
AutoFarm == feature = "farming" /\ view.entry.state.phase # "running" /\ Asks("start")

(* The "Done" button of a summary. *)
DismissFinished ==
  /\ feature # "idling" /\ active # None
  /\ view.entry.state.phase = "finished" /\ ~view.dismissed
  /\ dismissed' = dismissed \cup {active}
  /\ view' = [view EXCEPT !.dismissed = TRUE]
  /\ UNCHANGED <<feature, backend, entries, page, events, calls, calm>>

-----------------------------------------------------------------------------
Backend(k) ==
  \/ Reclaims(k) \/ Idles(k) \/ Exits(k)
  \/ Begins(k) \/ Ends(k) \/ Progresses(k) \/ Stops(k) \/ StopEnds(k) \/ Removed(k)

Next ==
  \/ \E k \in Account : Backend(k) \/ SignIn(k) \/ Switch(k) \/ SignOutEnds(k)
  \/ \E c \in calls : ServeRead(c) \/ ServeToggle(c) \/ ServeStart(c) \/ ServeAutoIdle(c)
                     \/ Return(c) \/ Resolve(c) \/ Fail(c)
  \/ Deliver \/ Listen
  \/ ToggleIdle \/ AutoIdle \/ AutoFarm \/ DismissFinished

Spec == Init /\ [][Next]_vars

-----------------------------------------------------------------------------
(* What the pages read is the active account's entry and no other's.       *)
ShownIsEntry ==
  /\ view.key = active
  /\ active # None => /\ Has(active) /\ view.entry = entries[active]
                      /\ view.dismissed = (active \in dismissed)

(* Whatever events were lost and whatever answers came too late before: an *)
(* account that becomes active is shown as the backend has it, once what   *)
(* the effect asked for is back and unless something has changed, or has   *)
(* been echoed unconfirmed, since.  In idling the games are those that     *)
(* run and the owners those that claim: the two need not agree.            *)
ActivationHeals ==
  calm /\ (\A c \in calls : c.of = active => c.what \notin {"read", "claims"})
    => view.entry = [state |-> Reported(active), owners |-> claimed[active]]

(* A signed-out account comes back to a store only through an answer that  *)
(* no sign-out cancels, or, where events are routed by Steam id, through a *)
(* last event.                                                             *)
NoResurrection ==
  [][\A k \in DOMAIN entries' \ DOMAIN entries :
       \/ k \in signed'
       \/ \E c \in calls \ calls' : c.of = k /\ ~Guarded(c)
       \/ feature # "idling" /\ k \in routed]_vars

(* A session that is shown as running has its summary armed: whichever way *)
(* its reports come in, the dismissal of an earlier session does not hide  *)
(* its results.  One that no report shows as running is not armed.         *)
RunningIsArmed == \A k \in dismissed : Has(k) => entries[k].state.phase # "running"
=============================================================================
