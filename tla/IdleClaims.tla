----------------------------- MODULE IdleClaims -----------------------------
(***************************************************************************)
(* The idle-claims registry (src-tauri/src/idling/claims.rs): every owner  *)
(* of idling - the manual toggle, auto-idle, the achievement unlocker and  *)
(* the card farmer - claims a set of games per account, and what is        *)
(* announced to the backend is the union of all claims of the account.     *)
(*                                                                         *)
(* Each public call of the registry runs in two atomic parts separated by  *)
(* an await: under the lock it changes the claims and computes the union;  *)
(* then it DROPS the lock and announces.  The calls of several tasks       *)
(* interleave at that point, so an announcement may be computed early and  *)
(* land late.                                                              *)
(*                                                                         *)
(* The backend of an account is the daemon of a signed-in agent account    *)
(* (all-or-nothing idle_set), or the child processes of the one CLI-mode   *)
(* account (single games may fail to start, and may die).                  *)
(***************************************************************************)
EXTENDS ClaimSets

CONSTANTS
  Account,       \* resolved SteamID64s
  LocalAccount,  \* those of CLI mode; the others have a daemon
  Call,          \* the tasks that call the registry
  Free           \* "this task is not inside a call"

PendingCall == [account : Account, targets : SUBSET App]

ASSUME ClaimsAssumption == LocalAccount \subseteq Account /\ Free \notin PendingCall

VARIABLES
  claims,    \* claims[a][o]: the games owner o claims for account a
  call,      \* call[t]: Free, or the union task t has yet to announce
  playing,   \* playing[a]: the games the backend of a idles
  updating,  \* kill_all_steam_utility_processes is between its two passes
  blame      \* history: why playing[a] may differ from the union of claims[a]

vars == <<claims, call, playing, updating, blame>>

Blame == {"none", "stale", "failed", "lost", "wiped"}

TypeOK ==
  /\ claims \in [Account -> OwnerClaims]
  /\ call \in [Call -> PendingCall \cup {Free}]
  /\ playing \in [Account -> SUBSET App]
  /\ updating \in BOOLEAN
  /\ blame \in [Account -> Blame]

-----------------------------------------------------------------------------
InCall(t, a) == call[t] # Free /\ call[t].account = a

(* Task t still carries the union of the claims as they are now. *)
Fresh(t) == call[t].targets \in Announceable(Union(claims[call[t].account]))

(* The backend idles what the owners claim. *)
Agrees(a) == playing[a] \in Announceable(Union(claims[a]))

-----------------------------------------------------------------------------
Init ==
  /\ claims = [a \in Account |-> Nobody]
  /\ call = [t \in Call |-> Free]
  /\ playing = [a \in Account |-> {}]
  /\ updating = FALSE
  /\ blame = [a \in Account |-> "none"]

(* The locked part of a call: the new claims of a, and the union of them.  *)
Claim(t, a, oc) ==
  /\ call[t] = Free
  /\ claims' = [claims EXCEPT ![a] = oc]
  /\ \E targets \in Announceable(Union(oc)) :
       call' = [call EXCEPT ![t] = [account |-> a, targets |-> targets]]
  /\ UNCHANGED <<playing, updating, blame>>

(* Mutant: an owner announces its own games only (the defect the registry  *)
(* exists to prevent).                                                     *)
MutReplaceOwnGamesOnly(t, a, o, games) ==
  /\ call[t] = Free
  /\ claims' = [claims EXCEPT ![a] = WithOwner(claims[a], o, games)]
  /\ \E targets \in Announceable(games) :
       call' = [call EXCEPT ![t] = [account |-> a, targets |-> targets]]
  /\ UNCHANGED <<playing, updating, blame>>

ReplaceOwnerClaim(t, a, o, games) == Claim(t, a, WithOwner(claims[a], o, games))

ReleaseAppId(t, a, g) == Claim(t, a, WithoutApp(claims[a], g))

ReleaseAppIdFromOwner(t, a, o, g) == Claim(t, a, WithoutAppOf(claims[a], o, g))

ClearOwner(t, a, o) == Claim(t, a, WithoutOwner(claims[a], o))

(* clear_all announces an empty set, which is the union of no claims. *)
ClearAll(t, a) == Claim(t, a, Nobody)

-----------------------------------------------------------------------------
(* The announcement, after the lock was dropped.  The backend takes the    *)
(* union the call computed, whatever the claims have become.  A request    *)
(* that timed out but reaches the daemon later is an Announce that is      *)
(* merely late: the registry keeps no state about it.                      *)
Announce(t) ==
  /\ call[t] # Free
  /\ playing' = [playing EXCEPT ![call[t].account] = call[t].targets]
  /\ blame' = [blame EXCEPT ![call[t].account] =
                               IF Fresh(t) THEN "none" ELSE "stale"]
  /\ call' = [call EXCEPT ![t] = Free]
  /\ UNCHANGED <<claims, updating>>

(* Agent mode: the request fails, the daemon keeps its previous set; the   *)
(* claim is not rolled back.                                               *)
AnnounceFails(t) ==
  /\ call[t] # Free
  /\ call[t].account \notin LocalAccount
  /\ blame' = [blame EXCEPT ![call[t].account] = "failed"]
  /\ call' = [call EXCEPT ![t] = Free]
  /\ UNCHANGED <<claims, playing, updating>>

(* CLI mode: set_games kills what is no longer wanted and starts the rest; *)
(* games that fail to start are reported and not tracked.                  *)
AnnouncePartly(t) ==
  /\ call[t] # Free
  /\ call[t].account \in LocalAccount
  /\ \E failed \in (SUBSET (call[t].targets \ playing[call[t].account])) \ {{}} :
       playing' = [playing EXCEPT ![call[t].account] = call[t].targets \ failed]
  /\ blame' = [blame EXCEPT ![call[t].account] = "failed"]
  /\ call' = [call EXCEPT ![t] = Free]
  /\ UNCHANGED <<claims, updating>>

(* An idle process exits and the poller drops it; or the daemon exits, is  *)
(* killed or logs out, and everything it idled ends.  No claim is dropped. *)
LoseGames(a) ==
  /\ \E lost \in (SUBSET playing[a]) \ {{}} :
       /\ a \notin LocalAccount => lost = playing[a]
       /\ playing' = [playing EXCEPT ![a] = @ \ lost]
  /\ blame' = [blame EXCEPT ![a] = "lost"]
  /\ UNCHANGED <<claims, call, updating>>

(* updater::kill_all_steam_utility_processes: the two managers kill what   *)
(* they own, and then the registry forgets every claim of every account.   *)
KillAll ==
  /\ ~updating
  /\ updating' = TRUE
  /\ playing' = [a \in Account |-> {}]
  /\ blame' = [a \in Account |-> "lost"]
  /\ UNCHANGED <<claims, call>>

(* Mutant: the account entries go away with the claims, although readers   *)
(* still index them.                                                       *)
MutClearDropsEntries ==
  /\ updating
  /\ updating' = FALSE
  /\ claims' = [a \in {} |-> Nobody]
  /\ blame' = [a \in Account |-> "wiped"]
  /\ UNCHANGED <<call, playing>>

Clear ==
  /\ updating
  /\ updating' = FALSE
  /\ claims' = [a \in Account |-> Nobody]
  /\ blame' = [a \in Account |-> "wiped"]
  /\ UNCHANGED <<call, playing>>

-----------------------------------------------------------------------------
StartCall(t) ==
  \E a \in Account :
    \/ \E o \in Owner, games \in SUBSET App : ReplaceOwnerClaim(t, a, o, games)
    \/ \E g \in App : ReleaseAppId(t, a, g)
    \/ \E o \in Owner, g \in App : ReleaseAppIdFromOwner(t, a, o, g)
    \/ \E o \in Owner : ClearOwner(t, a, o)
    \/ ClearAll(t, a)

EndCall(t) == Announce(t) \/ AnnounceFails(t) \/ AnnouncePartly(t)

Next ==
  \/ \E t \in Call : StartCall(t) \/ EndCall(t)
  \/ \E a \in Account : LoseGames(a)
  \/ KillAll
  \/ Clear

Spec == Init /\ [][Next]_vars

-----------------------------------------------------------------------------
(* While nothing has gone wrong - no announcement overtaken by a later     *)
(* change, none failed, no process lost, no wipe - the backend idles the   *)
(* union of the claims or a task is about to make it so.  Overlapping      *)
(* calls, however many, cost the agreement only through an overtaken       *)
(* announcement that lands last (claims.rs: every mutator).                *)
DriftExplained ==
  \A a \in Account :
    blame[a] = "none" => Agrees(a) \/ \E t \in Call : InCall(t, a) /\ Fresh(t)

(* However many owners claim however many games, and whatever fails or is  *)
(* overtaken, the backend of an account never idles more than              *)
(* MAX_CONCURRENT_GAMES (union_targets, set_games).                        *)
WithinCap == \A a \in Account : Cardinality(playing[a]) <= Cap

(* Seen from outside, a call in flight is no more than the union it        *)
(* carries, and the owners are no more than the union of their claims.     *)
wanted == [a \in Account |-> Union(claims[a])]
offers == [a \in Account |-> {call[t].targets : t \in {u \in Call : InCall(u, a)}}]

Board == INSTANCE IdleBoard WITH Capped <- Announceable

(* However calls overlap, fail and overtake each other, and whatever dies  *)
(* or is wiped meanwhile: a backend only ever takes the union of every     *)
(* owner's claims, as some call still in flight computed it, and a game    *)
(* that idles and stays wanted is not interrupted (claims.rs:1-7,          *)
(* apply_idle_targets, set_games).                                         *)
ImplementsBoard == Board!Spec

(* The documented contract (claims.rs:68-71): "two owners changing their   *)
(* claims at nearly the same time can't interleave and announce a stale    *)
(* union".  Stated for the lasting case only: once the account is quiet,   *)
(* the set it idles is not the work of an overtaken announcement.          *)
NoLastingStaleUnion ==
  \A a \in Account : (\A t \in Call : ~InCall(t, a)) => blame[a] # "stale"
=============================================================================
