--------------------------- MODULE FarmingSession ---------------------------
(***************************************************************************)
(* The card farmer of one account (src-tauri/src/card_farming/manager.rs): *)
(* the registry of sessions with its start and stop, the background task   *)
(* run_cycle each start spawns, and the per-game stop of the Idling page   *)
(* (remove_active_game, then release_app_id).                              *)
(*                                                                         *)
(* A cycle repeats: resolve the eligible games, idle its targets together, *)
(* stop, pause, idle them one by one.  Each wait ends early when the       *)
(* session was stopped, or was woken because a game left it.  Every step   *)
(* below ends at an await, where tasks interleave.                         *)
(***************************************************************************)
EXTENDS FiniteSets

CONSTANTS
  Session,  \* the start calls, and the cycle each of them may spawn
  App,
  Click,    \* the tasks that stop one game
  Nothing   \* no session, no game

ASSUME FarmingAssumption == Nothing \notin Session /\ Nothing \notin App

VARIABLES
  entry,     \* sessions[steam_id]: a session, or Nothing
  inserting, \* sessions whose cycle is spawned and not yet in the registry
  cycle,     \* cycle[s]: where the task of session s stands
  stopped,   \* sessions whose stop flag is set
  wake,      \* sessions whose Notify holds a permit
  excluded,  \* excluded[s]: the games barred from session s
  tracked,   \* tracked[s]: the games in the state's active and queue lists
  claim,     \* the card farmer's claim in the idle-claims registry
  click,     \* click[k]: where the task that stops a game stands
  leaked,    \* history: the claim outlived a release that failed
  barred,    \* barred[s]: history, games whose stop is through
  crossed    \* history: a start met the start or the stop before it half
             \* done, and some cycle has been running ever since

farmingVars == <<entry, inserting, cycle, stopped, wake, excluded, tracked,
                 claim, click, leaked, barred, crossed>>

PC == {"unborn", "top", "resolving", "announce", "idling", "pausing", "sweep",
       "alone", "cleanup", "clear", "remove", "ended"}

(* snapshot: the exclusions this pass read; targets: what it farms; left:  *)
(* what the sweep has yet to idle; held: what it announced last.           *)
Cycle == [pc : PC, snapshot : SUBSET App, targets : SUBSET App,
          left : SUBSET App, held : SUBSET App]

At(pc) == [pc |-> pc, snapshot |-> {}, targets |-> {}, left |-> {}, held |-> {}]

Stopping == [pc : {"new", "exclude", "untrack", "release", "done"},
             app : App \cup {Nothing}, session : Session \cup {Nothing}]

FarmingTypeOK ==
  /\ entry \in Session \cup {Nothing}
  /\ inserting \subseteq Session
  /\ cycle \in [Session -> Cycle]
  /\ stopped \subseteq Session
  /\ wake \subseteq Session
  /\ excluded \in [Session -> SUBSET App]
  /\ tracked \in [Session -> SUBSET App]
  /\ claim \subseteq App
  /\ click \in [Click -> Stopping]
  /\ leaked \in BOOLEAN
  /\ barred \in [Session -> SUBSET App]
  /\ crossed \in BOOLEAN

Running(s) == cycle[s].pc \notin {"unborn", "ended"}

Goto(s, pc) == cycle' = [cycle EXCEPT ![s] = At(pc)]

FarmingInit ==
  /\ entry = Nothing
  /\ inserting = {}
  /\ cycle = [s \in Session |-> At("unborn")]
  /\ stopped = {}
  /\ wake = {}
  /\ excluded = [s \in Session |-> {}]
  /\ tracked = [s \in Session |-> {}]
  /\ claim = {}
  /\ click = [k \in Click |-> [pc |-> "new", app |-> Nothing, session |-> Nothing]]
  /\ leaked = FALSE
  /\ barred = [s \in Session |-> {}]
  /\ crossed = FALSE

-----------------------------------------------------------------------------
(* A start has yet to insert its session, or a stop waits for a task.      *)
UnderWay == inserting # {} \/ \E t \in stopped : Running(t)

AllEnded == inserting = {} /\ \A s \in Session : ~Running(s)

(* Mutant: start does not look at the registry. *)
MutStartUnchecked(s) ==
  /\ cycle[s].pc = "unborn"
  /\ Goto(s, "top")
  /\ inserting' = inserting \cup {s}
  /\ crossed' = (crossed \/ UnderWay)
  /\ UNCHANGED <<entry, stopped, wake, excluded, tracked, claim, click, leaked, barred>>

(* start: a session in the registry makes it a no-op.  The lock is dropped *)
(* between the check and the insertion, and the cycle runs in between.     *)
Start(s) ==
  /\ cycle[s].pc = "unborn"
  /\ entry = Nothing
  /\ Goto(s, "top")
  /\ inserting' = inserting \cup {s}
  /\ crossed' = (crossed \/ UnderWay)
  /\ UNCHANGED <<entry, stopped, wake, excluded, tracked, claim, click, leaked, barred>>

Insert(s) ==
  /\ s \in inserting
  /\ inserting' = inserting \ {s}
  /\ entry' = s
  /\ UNCHANGED <<cycle, stopped, wake, excluded, tracked, claim, click, leaked, barred>>
  /\ crossed' = (crossed /\ ~AllEnded')

(* Mutant: no early return when nothing is tracked. *)
MutStopUnguarded ==
  /\ stopped' = stopped \cup {entry}
  /\ entry' = Nothing
  /\ UNCHANGED <<inserting, cycle, wake, excluded, tracked, claim, click, leaked, barred, crossed>>

(* stop: the session leaves the registry, then its flag is set; the caller *)
(* waits for the task to end.                                              *)
Stop ==
  /\ entry # Nothing
  /\ stopped' = stopped \cup {entry}
  /\ entry' = Nothing
  /\ UNCHANGED <<inserting, cycle, wake, excluded, tracked, claim, click, leaked, barred, crossed>>

-----------------------------------------------------------------------------
(* announce_idle_set: replace_owner_claim for the card farmer.  It changes *)
(* nothing when the account cannot be resolved (its daemon is gone); the   *)
(* cycle ignores that, so a release that fails leaves the claim behind.    *)
Claim(games) == claim' = games /\ leaked' = FALSE

Unclaim ==
  \/ Claim({})
  \/ UNCHANGED claim /\ leaked' = (claim # {})

(* Mutant: a pass does not look at the exclusions. *)
MutTopIgnoresExcluded(s) ==
  /\ cycle[s].pc = "top"
  /\ Goto(s, IF s \in stopped THEN "cleanup" ELSE "resolving")
  /\ UNCHANGED <<entry, inserting, stopped, wake, excluded, tracked, claim, click,
                 leaked, barred, crossed>>

(* The head of the loop: the stop flag, then a copy of the exclusions. *)
Top(s) ==
  /\ cycle[s].pc = "top"
  /\ IF s \in stopped
       THEN Goto(s, "cleanup")
       ELSE cycle' = [cycle EXCEPT ![s] = [At("resolving") EXCEPT !.snapshot = excluded[s]]]
  /\ UNCHANGED <<entry, inserting, stopped, wake, excluded, tracked, claim, click,
                 leaked, barred, crossed>>

(* The scrape fails, or nothing is eligible: the cycle ends. *)
GiveUp(s) ==
  /\ cycle[s].pc = "resolving"
  /\ Goto(s, "cleanup")
  /\ UNCHANGED <<entry, inserting, stopped, wake, excluded, tracked, claim, click,
                 leaked, barred, crossed>>

(* Some games outside the copied exclusions are eligible; select_phase     *)
(* picks targets among them and the rest queue.                            *)
Resolved(s, eligible, targets) ==
  /\ cycle[s].pc = "resolving"
  /\ eligible \cap cycle[s].snapshot = {}
  /\ targets # {} /\ targets \subseteq eligible
  /\ cycle' = [cycle EXCEPT ![s] = [At("announce") EXCEPT !.targets = targets]]
  /\ tracked' = [tracked EXCEPT ![s] = eligible]
  /\ UNCHANGED <<entry, inserting, stopped, wake, excluded, claim, click, leaked, barred, crossed>>

Announce(s) ==
  /\ cycle[s].pc = "announce"
  /\ cycle' = [cycle EXCEPT ![s].pc = "idling", ![s].held = cycle[s].targets]
  /\ Claim(cycle[s].targets) \/ UNCHANGED <<claim, leaked>>
  /\ UNCHANGED <<entry, inserting, stopped, wake, excluded, tracked, click, barred, crossed>>

(* race_wait: the time is up, the session was stopped, or it was woken. *)
WaitEnds(s, onTime) ==
  \/ /\ s \notin stopped
     /\ cycle' = [cycle EXCEPT ![s] = onTime]
     /\ UNCHANGED wake
  \/ /\ s \in stopped
     /\ Goto(s, "cleanup")
     /\ UNCHANGED wake
  \/ /\ s \in wake
     /\ Goto(s, "top")
     /\ wake' = wake \ {s}

IdlingEnds(s) ==
  /\ cycle[s].pc = "idling"
  /\ WaitEnds(s, [At("pausing") EXCEPT !.targets = cycle[s].targets])
  /\ Unclaim
  /\ UNCHANGED <<entry, inserting, stopped, excluded, tracked, click, barred, crossed>>

PauseEnds(s) ==
  /\ cycle[s].pc = "pausing"
  /\ WaitEnds(s, [At("sweep") EXCEPT !.left = cycle[s].targets])
  /\ UNCHANGED <<entry, inserting, stopped, excluded, tracked, claim, click, leaked, barred, crossed>>

Sweep(s, g) ==
  /\ cycle[s].pc = "sweep"
  /\ g \in cycle[s].left
  /\ cycle' = [cycle EXCEPT ![s].pc = "alone", ![s].left = @ \ {g}, ![s].held = {g}]
  /\ Claim({g}) \/ UNCHANGED <<claim, leaked>>
  /\ UNCHANGED <<entry, inserting, stopped, wake, excluded, tracked, click, barred, crossed>>

SweepEnds(s) ==
  /\ cycle[s].pc = "sweep"
  /\ cycle[s].left = {}
  /\ Goto(s, "top")
  /\ UNCHANGED <<entry, inserting, stopped, wake, excluded, tracked, claim, click,
                 leaked, barred, crossed>>

(* Mutant: an interrupted sweep goes back to the loop without a release. *)
MutAloneEndsKeepsClaim(s) ==
  /\ cycle[s].pc = "alone"
  /\ WaitEnds(s, [At("sweep") EXCEPT !.left = cycle[s].left])
  /\ UNCHANGED <<entry, inserting, stopped, excluded, tracked, claim, click, leaked, barred, crossed>>

AloneEnds(s) ==
  /\ cycle[s].pc = "alone"
  /\ WaitEnds(s, [At("sweep") EXCEPT !.left = cycle[s].left])
  /\ Unclaim
  /\ UNCHANGED <<entry, inserting, stopped, excluded, tracked, click, barred, crossed>>

(* The cleanup every end of the loop converges on. *)
Cleanup(s) ==
  /\ cycle[s].pc = "cleanup"
  /\ Goto(s, "clear")
  /\ Unclaim
  /\ UNCHANGED <<entry, inserting, stopped, wake, excluded, tracked, click, barred, crossed>>

ClearState(s) ==
  /\ cycle[s].pc = "clear"
  /\ Goto(s, "remove")
  /\ tracked' = [tracked EXCEPT ![s] = {}]
  /\ UNCHANGED <<entry, inserting, stopped, wake, excluded, claim, click, leaked, barred, crossed>>

(* Mutant: stop holds the registry's lock while it waits for the task. *)
MutRemoveLockedOut(s) ==
  /\ cycle[s].pc = "remove"
  /\ s \notin stopped
  /\ Goto(s, "ended")
  /\ entry' = Nothing
  /\ UNCHANGED <<inserting, stopped, wake, excluded, tracked, claim, click, leaked, barred>>
  /\ crossed' = (crossed /\ ~AllEnded')

(* The entry of the account is removed, whichever session it holds.  (The  *)
(* next task, if any, was started before that.)                            *)
Remove(s) ==
  /\ cycle[s].pc = "remove"
  /\ Goto(s, "ended")
  /\ entry' = Nothing
  /\ UNCHANGED <<inserting, stopped, wake, excluded, tracked, claim, click, leaked, barred>>
  /\ crossed' = (crossed /\ ~AllEnded')

-----------------------------------------------------------------------------
(* The stop button of a game some owner claims (toggle_manual_idle): the   *)
(* card farmer's session, if any, is told before the claims are released.  *)
StopGame(k, g) ==
  /\ click[k].pc = "new"
  /\ click' = [click EXCEPT ![k] =
       [pc |-> IF entry = Nothing THEN "release" ELSE "exclude", app |-> g, session |-> entry]]
  /\ UNCHANGED <<entry, inserting, cycle, stopped, wake, excluded, tracked, claim,
                 leaked, barred, crossed>>

Exclude(k) ==
  /\ click[k].pc = "exclude"
  /\ excluded' = [excluded EXCEPT ![click[k].session] = @ \cup {click[k].app}]
  /\ click' = [click EXCEPT ![k].pc = "untrack"]
  /\ UNCHANGED <<entry, inserting, cycle, stopped, wake, tracked, claim, leaked, barred, crossed>>

(* The game leaves the session's lists; only if it was on one is the cycle *)
(* woken.                                                                  *)
Untrack(k) ==
  LET s == click[k].session
      g == click[k].app
  IN  /\ click[k].pc = "untrack"
      /\ tracked' = [tracked EXCEPT ![s] = @ \ {g}]
      /\ wake' = IF g \in tracked[s] THEN wake \cup {s} ELSE wake
      /\ click' = [click EXCEPT ![k].pc = "release"]
      /\ UNCHANGED <<entry, inserting, cycle, stopped, excluded, claim, leaked, barred, crossed>>

ReleaseGame(k) ==
  LET s == click[k].session
  IN  /\ click[k].pc = "release"
      /\ claim' = claim \ {click[k].app}
      /\ click' = [click EXCEPT ![k].pc = "done"]
      /\ barred' = IF s = Nothing THEN barred
                     ELSE [barred EXCEPT ![s] = @ \cup {click[k].app}]
      /\ UNCHANGED <<entry, inserting, cycle, stopped, wake, excluded, tracked, leaked, crossed>>

(* stop_all_idling or the pre-update cleanup empties every claim. *)
ClearClaims ==
  /\ claim # {}
  /\ claim' = {}
  /\ UNCHANGED <<entry, inserting, cycle, stopped, wake, excluded, tracked, click,
                 leaked, barred, crossed>>

-----------------------------------------------------------------------------
CycleStep(s) ==
  \/ Top(s) \/ GiveUp(s)
  \/ \E eligible, targets \in SUBSET App : Resolved(s, eligible, targets)
  \/ Announce(s) \/ IdlingEnds(s) \/ PauseEnds(s)
  \/ (\E g \in App : Sweep(s, g)) \/ SweepEnds(s) \/ AloneEnds(s)
  \/ Cleanup(s) \/ ClearState(s) \/ Remove(s)

ClickStep(k) == Exclude(k) \/ Untrack(k) \/ ReleaseGame(k)

Other ==
  \/ Stop
  \/ \E s \in Session : Insert(s) \/ CycleStep(s)
  \/ \E k \in Click : ClickStep(k) \/ \E g \in App : StopGame(k, g)
  \/ ClearClaims

FarmingNext == Other \/ \E s \in Session : Start(s)

(* Tokio runs what can run; a wait ends and an HTTP request returns. *)
Fairness ==
  /\ \A s \in Session : WF_farmingVars(CycleStep(s)) /\ WF_farmingVars(Insert(s))
  /\ \A k \in Click : WF_farmingVars(ClickStep(k))

FarmingSpec == FarmingInit /\ [][FarmingNext]_farmingVars /\ Fairness

(* The start button of a page that waits for the start or the stop before. *)
SequentialSpec ==
  FarmingInit /\ [][Other \/ (~UnderWay /\ \E s \in Session : Start(s))]_farmingVars /\ Fairness

-----------------------------------------------------------------------------
Announced(s) == cycle[s].pc \in {"idling", "alone"}

(* The card farmer claims nothing but what some cycle is idling right now: *)
(* a cycle that ends for whatever reason - stopped, woken, out of games -  *)
(* takes its claim along, unless the release itself failed.  (A session is *)
(* flagged and not aborted for this: manager.rs, stop.)                    *)
NoOrphanClaim ==
  claim # {} /\ ~leaked => \E s \in Session : Announced(s) /\ claim \subseteq cycle[s].held

(* manager.rs, CardFarmingManager: "Tracks at most one farming cycle per   *)
(* account".                                                               *)
AtMostOneCycle ==
  \A s, t \in Session : Running(s) /\ Running(t) => s = t

(* A running cycle can be stopped: the registry holds it, or is about to,  *)
(* or it has been told already.                                            *)
CycleReachable ==
  \A s \in Session :
    Running(s) => \/ entry = s \/ s \in inserting \/ s \in stopped

(* One cycle runs, and never one that the registry has lost and nothing    *)
(* can stop any more, up to the start that meets another start between its *)
(* check and its insertion, or a stop still waiting for the old task.      *)
(* Nothing else breaks it: no end of a cycle, no click, no stop.  Once all *)
(* of the crossed cycles have ended it holds again.                        *)
OneReachableCycle == ~crossed => AtMostOneCycle /\ CycleReachable

(* A stopped session ends. *)
StopEnds == \A s \in Session : s \in stopped ~> ~Running(s)

(* A game whose stop is through may be idled by the pass that had already  *)
(* copied the exclusions; after that the session never idles it again.     *)
ExclusionSettles ==
  \A s \in Session, g \in App :
    g \in barred[s] ~> [](g \notin cycle[s].held)
=============================================================================
