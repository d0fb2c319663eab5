-------------------------- MODULE UnlockerSession --------------------------
(***************************************************************************)
(* The achievement unlocker of one account (src-tauri/src/                 *)
(* achievement_unlocker/manager.rs): the session in the registry, its task *)
(* run_loop with the workers of a pass, the stored queue, the idling set   *)
(* the workers share, and the stop button of one game on the Idling page.  *)
(*                                                                         *)
(* A pass scans the queue, then its workers share the games that have      *)
(* something to unlock.  A worker idles its game while it unlocks one      *)
(* achievement after the other.  Every action ends at an await.  A new     *)
(* session begins when the one before has ended, as the page sees to.      *)
(***************************************************************************)
EXTENDS Integers, FiniteSets

CONSTANTS
  App,          \* the games
  MaxWorkers,   \* MAX_CONCURRENT_GAMES
  MaxFound,     \* the most achievements a scan finds in each game
  MaxUnlocks,   \* the saved override of each game
  Click,        \* the tasks that stop one game
  MaxMishaps,   \* bound: calls that fail, and changes the user makes to the queue
  None          \* no game

ASSUME UnlockerAssumption ==
  /\ MaxWorkers \in Nat \ {0} /\ MaxFound \in [App -> Nat]
  /\ MaxUnlocks \in [App -> Nat]
  /\ MaxMishaps \in Nat
  /\ None \notin App

VARIABLES
  registered,  \* the session is in the manager's map
  stopped,     \* its stop flag
  loop,        \* where run_loop stands; width: the workers of this pass
  backlog,     \* the games this pass has yet to scan
  ready,       \* ready[g]: what the scan found, until a worker takes the game
  worker,      \* worker[w]: where a worker of the pass stands
  apps,        \* idling_apps
  excluded,    \* excluded_app_ids
  out,         \* history: excluded games that no worker was about to idle
  queue,       \* the stored queue of the account
  claim,       \* the unlocker's claim in the idle-claims registry
  click,       \* click[k]: where the task that stops a game stands
  leaked,      \* history: games whose release failed and was not made up for
  mishaps      \* the calls that failed and the changes of the queue so far

session == <<registered, stopped>>
pass == <<loop, backlog, ready>>
idling == <<apps, claim, leaked>>
exclusion == <<excluded, out>>
vars == <<session, pass, worker, idling, exclusion, queue, click, mishaps>>

Workers == 1 .. MaxWorkers

PC == {"free", "grace", "insert", "delayed", "head", "closed", "resume", "unlock",
       "pause", "finish", "dequeue", "leave", "gone"}

(* left: achievements of the game not yet tried; missed: those given up in *)
(* this pass; done: those unlocked; idles: is_idling.                      *)
Worker == [pc : PC, app : App \cup {None}, left : Nat, missed : Nat, done : Nat,
           idles : BOOLEAN]

At(pc) == [pc |-> pc, app |-> None, left |-> 0, missed |-> 0, done |-> 0, idles |-> FALSE]

Stopping == [pc : {"new"}, app : {None}] \cup [pc : {"exclude", "untrack", "release", "done"}, app : App]

TypeOK ==
  /\ registered \in BOOLEAN /\ stopped \in BOOLEAN
  /\ loop \in [pc : {"off", "top", "scanning", "unlocking", "ending", "closing"},
               width : Workers]
  /\ backlog \subseteq App
  /\ ready \in [App -> Nat]
  /\ worker \in [Workers -> Worker]
  /\ apps \subseteq App /\ excluded \subseteq App /\ out \subseteq App /\ queue \subseteq App
  /\ claim \subseteq App /\ leaked \subseteq App
  /\ click \in [Click -> Stopping]
  /\ mishaps \in Nat

Nothing == [g \in App |-> 0]
AllFree == [w \in Workers |-> At("free")]

Init ==
  /\ registered = FALSE /\ stopped = FALSE
  /\ loop = [pc |-> "off", width |-> 1]
  /\ backlog = {} /\ ready = Nothing
  /\ worker = AllFree
  /\ apps = {} /\ excluded = {} /\ out = {} /\ claim = {} /\ leaked = {}
  /\ queue \in SUBSET App
  /\ click = [k \in Click |-> [pc |-> "new", app |-> None]]
  /\ mishaps = 0

Goto(w, pc) == worker' = [worker EXCEPT ![w].pc = pc]
Leave(w, pc) == worker' = [worker EXCEPT ![w] = At(pc)]
Mishap == mishaps < MaxMishaps /\ mishaps' = mishaps + 1
Loop(pc) == loop' = [loop EXCEPT !.pc = pc]

-----------------------------------------------------------------------------
(* start: nothing to do with a session in the map or an empty queue.  The  *)
(* session's lists are new: a click that holds those of the one before has *)
(* only its release left.                                                  *)
Start ==
  /\ ~registered /\ loop.pc = "off"
  /\ queue # {}
  /\ registered' = TRUE /\ stopped' = FALSE
  /\ Loop("top")
  /\ excluded' = {} /\ out' = {}
  /\ click' = [k \in Click |-> IF click[k].pc \in {"exclude", "untrack"}
                                 THEN [click[k] EXCEPT !.pc = "release"] ELSE click[k]]
  /\ UNCHANGED <<backlog, ready, worker, idling, queue, mishaps>>

(* stop: the session leaves the map, then its flag is set. *)
Stop ==
  /\ registered
  /\ registered' = FALSE /\ stopped' = TRUE
  /\ UNCHANGED <<pass, worker, idling, exclusion, queue, click, mishaps>>

(* The user queues a game, or takes one off the queue. *)
Enqueue(g) ==
  /\ Mishap /\ g \notin queue
  /\ queue' = queue \cup {g}
  /\ UNCHANGED <<session, pass, worker, idling, exclusion, click>>

Unqueue(g) ==
  /\ Mishap /\ g \in queue
  /\ queue' = queue \ {g}
  /\ UNCHANGED <<session, pass, worker, idling, exclusion, click>>

-----------------------------------------------------------------------------
(* cache::remove; a failure is logged and leaves the game in the queue. *)
Dequeued(g) ==
  \/ queue' = queue \ {g} /\ UNCHANGED mishaps
  \/ Mishap /\ UNCHANGED queue

(* replace_owner_claim with the whole idling set; it changes nothing when  *)
(* the account cannot be resolved, which the session ignores.              *)
Announce(games) ==
  /\ apps' = games
  /\ \/ claim' = games /\ leaked' = {} /\ UNCHANGED mishaps
     \/ Mishap /\ leaked' = leaked \cup (claim \ games) /\ UNCHANGED claim

(* The head of run_loop: a stop, a queue that is empty or cannot be read   *)
(* ends the session; else a pass begins, with as many workers as the limit *)
(* set by start or by a change of the subscription says now.               *)
Top(n) ==
  /\ loop.pc = "top"
  /\ \/ /\ stopped \/ queue = {}
        /\ Loop("ending") /\ UNCHANGED <<backlog, mishaps>>
     \/ ~stopped /\ Mishap /\ Loop("ending") /\ UNCHANGED backlog
     \/ /\ ~stopped /\ queue # {}
        /\ loop' = [pc |-> "scanning", width |-> n]
        /\ backlog' = queue
        /\ UNCHANGED mishaps
  /\ UNCHANGED <<session, ready, worker, idling, exclusion, queue, click>>

(* A scanning worker: a game that is over its playtime cap, has nothing to *)
(* unlock or could not be scanned leaves the queue.                        *)
Scan(g, n) ==
  /\ loop.pc = "scanning" /\ ~stopped /\ g \in backlog
  /\ backlog' = backlog \ {g}
  /\ ready' = [ready EXCEPT ![g] = n]
  /\ IF n = 0 THEN Dequeued(g) ELSE UNCHANGED <<queue, mishaps>>
  /\ UNCHANGED <<session, loop, worker, idling, exclusion, click>>

ScanEnds ==
  /\ loop.pc = "scanning"
  /\ backlog = {} \/ stopped
  /\ Loop(IF stopped THEN "ending" ELSE IF ready = Nothing THEN "top" ELSE "unlocking")
  /\ UNCHANGED <<session, backlog, ready, worker, idling, exclusion, queue, click, mishaps>>

UnlockEnds ==
  /\ loop.pc = "unlocking"
  /\ \A w \in 1 .. loop.width : worker[w].pc = "gone"
  /\ Loop("top")
  /\ worker' = AllFree /\ ready' = Nothing
  /\ UNCHANGED <<session, backlog, idling, exclusion, queue, click, mishaps>>

(* The end of run_loop: what is left of the idling set is released, ...    *)
Ending ==
  /\ loop.pc = "ending"
  /\ Loop("closing")
  /\ IF apps # {} THEN Announce({}) ELSE UNCHANGED <<idling, mishaps>>
  /\ UNCHANGED <<session, backlog, ready, worker, exclusion, queue, click>>

(* ... the next task is started, and the session leaves the map; what it   *)
(* kept is dropped.                                                        *)
Remove ==
  /\ loop.pc = "closing"
  /\ registered' = FALSE /\ stopped' = FALSE
  /\ loop' = [pc |-> "off", width |-> 1]
  /\ backlog' = {} /\ ready' = Nothing /\ excluded' = {} /\ out' = {}
  /\ UNCHANGED <<worker, idling, queue, click, mishaps>>

-----------------------------------------------------------------------------
(* A worker takes the next game and waits its initial delay, or the gap    *)
(* between two games; a stop, or no more games, ends it.                   *)
Take(w, g) ==
  /\ loop.pc = "unlocking" /\ w <= loop.width /\ worker[w].pc = "free"
  /\ ~stopped /\ ready[g] > 0
  /\ ready' = [ready EXCEPT ![g] = 0]
  /\ worker' = [worker EXCEPT ![w] = [At("grace") EXCEPT !.app = g, !.left = ready[g]]]
  /\ UNCHANGED <<session, loop, backlog, idling, exclusion, queue, click, mishaps>>

Quit(w) ==
  /\ loop.pc = "unlocking" /\ w <= loop.width /\ worker[w].pc = "free"
  /\ stopped \/ ready = Nothing
  /\ Leave(w, "gone")
  /\ UNCHANGED <<session, pass, idling, exclusion, queue, click, mishaps>>

(* wait_ticking: it ends on time, or early when the session is stopped.    *)
Waits(w, pc, next) ==
  /\ worker[w].pc = pc
  /\ Goto(w, IF stopped THEN "leave" ELSE next)
  /\ UNCHANGED <<session, pass, idling, exclusion, queue, click, mishaps>>

GraceStopped(w) == stopped /\ Waits(w, "grace", "leave")
DelayEnds(w) == Waits(w, "delayed", "head")
ClosedEnds(w) == Waits(w, "closed", "unlock")
PauseEnds(w) == Waits(w, "pause", "head")

(* The wait is over; unlock_game: idle the game unless the settings, the   *)
(* schedule or an exclusion speak against it ...                           *)
Starting(w) ==
  /\ worker[w].pc = "grace" /\ ~stopped
  /\ \/ worker[w].app \notin excluded /\ Goto(w, "insert")
     \/ Goto(w, "delayed")
  /\ UNCHANGED <<session, pass, idling, exclusion, queue, click, mishaps>>

(* ... set_game_idling(.., true), under the lock of the idling set; the    *)
(* exclusions were read before.                                            *)
Idle(w) ==
  /\ worker[w].pc \in {"insert", "resume"}
  /\ worker' = [worker EXCEPT ![w].idles = TRUE,
                  ![w].pc = IF worker[w].pc = "insert" THEN "delayed" ELSE "unlock"]
  /\ Announce(apps \cup {worker[w].app})
  /\ UNCHANGED <<session, pass, exclusion, queue, click>>

(* Mutant: the exclusions are not read again before the idling resumes. *)
MutHead(w) ==
  /\ worker[w].pc = "head"
  /\ IF stopped \/ worker[w].left = 0
       THEN Goto(w, "leave")
       ELSE \/ Goto(w, "finish")
            \/ ~worker[w].idles /\ Goto(w, "resume")
            \/ Goto(w, "unlock")
  /\ UNCHANGED <<session, pass, idling, exclusion, queue, click, mishaps>>

(* Mutant: the end of the achievements is not seen. *)
MutHeadPastEnd(w) ==
  /\ worker[w].pc = "head"
  /\ IF stopped
       THEN Goto(w, "leave")
       ELSE \/ Goto(w, "finish")
            \/ ~worker[w].idles /\ worker[w].app \notin excluded /\ Goto(w, "resume")
            \/ Goto(w, "unlock")
  /\ UNCHANGED <<session, pass, idling, exclusion, queue, click, mishaps>>

(* The head of the loop over the achievements: over the playtime cap; idle *)
(* the game if it is not idled; or go on.                                  *)
Head(w) ==
  /\ worker[w].pc = "head"
  /\ IF stopped \/ worker[w].left = 0
       THEN Goto(w, "leave")
       ELSE \/ Goto(w, "finish")
            \/ ~worker[w].idles /\ worker[w].app \notin excluded /\ Goto(w, "resume")
            \/ Goto(w, "unlock")
  /\ UNCHANGED <<session, pass, idling, exclusion, queue, click, mishaps>>

(* set_achievement succeeded: the game is done when nothing remains or the *)
(* override is reached.                                                    *)
Unlock(w) ==
  LET v == worker[w] IN
  /\ v.pc = "unlock" /\ ~stopped
  /\ worker' = [worker EXCEPT ![w].left = v.left - 1, ![w].done = v.done + 1,
                  ![w].pc = IF v.left + v.missed = 1 \/ v.done + 1 >= MaxUnlocks[v.app]
                              THEN "finish" ELSE "pause"]
  /\ UNCHANGED <<session, pass, idling, exclusion, queue, click, mishaps>>

(* All attempts failed: the achievement is left for the next pass. *)
UnlockFails(w) ==
  /\ worker[w].pc = "unlock" /\ ~stopped /\ Mishap
  /\ worker' = [worker EXCEPT ![w].left = @ - 1, ![w].missed = @ + 1, ![w].pc = "pause"]
  /\ UNCHANGED <<session, pass, idling, exclusion, queue, click>>

(* A stop is seen before or between the attempts, or right after them.     *)
UnlockStopped(w) ==
  /\ worker[w].pc = "unlock" /\ stopped
  /\ Goto(w, "leave")
  /\ UNCHANGED <<session, pass, idling, exclusion, queue, click, mishaps>>

(* The workers about to idle their game, having read the exclusions.       *)
Committed == {worker[w].app : w \in {v \in Workers : worker[v].pc \in {"insert", "resume"}}}
Settled(g) == out' = out \cup (({g} \cap excluded) \ Committed)

LetsGo(v) ==
  CASE v.pc = "finish" -> [v EXCEPT !.pc = "dequeue", !.idles = FALSE]
    [] v.pc = "head" -> [v EXCEPT !.pc = "closed", !.idles = FALSE]
    [] v.pc = "leave" -> At("free")

(* set_game_idling(.., false): the game leaves the idling set if this      *)
(* worker had put it there.                                                *)
Release(w) ==
  /\ worker' = [worker EXCEPT ![w] = LetsGo(@)]
  /\ Settled(worker[w].app)
  /\ IF worker[w].idles THEN Announce(apps \ {worker[w].app}) ELSE UNCHANGED <<idling, mishaps>>
  /\ UNCHANGED <<session, pass, excluded, queue, click>>

(* Mutant: the way out on a stop keeps the game in the idling set. *)
MutLetGo(w) ==
  \/ worker[w].pc = "finish" /\ Release(w)
  \/ worker[w].pc = "leave" /\ Leave(w, "free")
     /\ UNCHANGED <<session, pass, idling, exclusion, queue, click, mishaps>>

(* The game is done or over its cap, or the worker leaves it undone.       *)
LetGo(w) == worker[w].pc \in {"finish", "leave"} /\ Release(w)

(* Out of schedule: the game is let go of until the schedule opens. *)
Shut(w) == worker[w].pc = "head" /\ ~stopped /\ worker[w].left > 0 /\ Release(w)

(* Mutant: a game that is done stays in the queue. *)
MutDequeue(w) ==
  /\ worker[w].pc = "dequeue" /\ Leave(w, "free")
  /\ UNCHANGED <<session, pass, idling, exclusion, queue, click, mishaps>>

Dequeue(w) ==
  /\ worker[w].pc = "dequeue"
  /\ Dequeued(worker[w].app)
  /\ Leave(w, "free")
  /\ UNCHANGED <<session, pass, idling, exclusion, click>>

-----------------------------------------------------------------------------
(* toggle_manual_idle's stop: remove_active_game - the session's lists are *)
(* taken from the map, the exclusion and the idling set have locks of      *)
(* their own - and then release_app_id.                                    *)
StopGame(k, g) ==
  /\ click[k].pc = "new"
  /\ click' = [click EXCEPT ![k] = [pc |-> IF registered THEN "exclude" ELSE "release",
                                    app |-> g]]
  /\ UNCHANGED <<session, pass, worker, idling, exclusion, queue, mishaps>>

Exclude(k) ==
  /\ click[k].pc = "exclude"
  /\ excluded' = excluded \cup {click[k].app} /\ UNCHANGED out
  /\ click' = [click EXCEPT ![k].pc = "untrack"]
  /\ UNCHANGED <<session, pass, worker, idling, queue, mishaps>>

Untrack(k) ==
  /\ click[k].pc = "untrack"
  /\ apps' = apps \ {click[k].app}
  /\ Settled(click[k].app)
  /\ click' = [click EXCEPT ![k].pc = "release"]
  /\ UNCHANGED <<session, pass, worker, claim, leaked, excluded, queue, mishaps>>

ReleaseGame(k) ==
  /\ click[k].pc = "release"
  /\ click' = [click EXCEPT ![k].pc = "done"]
  /\ \/ claim' = claim \ {click[k].app} /\ leaked' = leaked \ {click[k].app}
        /\ UNCHANGED mishaps
     \/ Mishap /\ leaked' = leaked \cup ({click[k].app} \cap claim) /\ UNCHANGED claim
  /\ UNCHANGED <<session, pass, worker, apps, exclusion, queue>>

-----------------------------------------------------------------------------
WorkerStep(w) ==
  \/ Quit(w) \/ (\E g \in App : Take(w, g))
  \/ GraceStopped(w) \/ DelayEnds(w) \/ ClosedEnds(w) \/ PauseEnds(w)
  \/ Starting(w) \/ Idle(w) \/ Head(w) \/ Shut(w)
  \/ Unlock(w) \/ UnlockFails(w) \/ UnlockStopped(w)
  \/ LetGo(w) \/ Dequeue(w)

LoopStep ==
  \/ (\E n \in Workers : Top(n)) \/ ScanEnds \/ UnlockEnds \/ Ending \/ Remove
  \/ \E g \in App : \E n \in 0 .. MaxFound[g] : Scan(g, n)

ClickStep(k) ==
  (\E g \in App : StopGame(k, g)) \/ Exclude(k) \/ Untrack(k) \/ ReleaseGame(k)

User ==
  \/ Start \/ Stop
  \/ \E g \in App : Enqueue(g) \/ Unqueue(g)

SessionStep == LoopStep \/ \E w \in Workers : WorkerStep(w)

Next ==
  \/ SessionStep \/ User
  \/ \E k \in Click : ClickStep(k)

(* The tasks of a session run on: every wait is finite, the schedule opens *)
(* again, and each call answers or times out.  That some task goes on is   *)
(* all that is assumed.                                                    *)
Spec == Init /\ [][Next]_vars /\ WF_vars(SessionStep)

-----------------------------------------------------------------------------
(* Whatever is claimed for the unlocker belongs to a worker that will let  *)
(* go of it, unless a release failed or a click is about to release it.  A *)
(* session that has ended claims nothing: the cleanup of run_loop looks at *)
(* the idling set only, and would not see a claim beyond it.               *)
Idled == {worker[w].app : w \in {v \in Workers : worker[v].idles}}
Releasing == {click[k].app : k \in {j \in Click : click[j].pc = "release"}}
ClaimOwned == claim \subseteq Idled \cup Releasing \cup leaked

(* remove_active_game: an excluded game is not idled again in the session, *)
(* whatever the workers announce.  Only a worker that had read the         *)
(* exclusions before may idle it once more, until it lets go of it.        *)
OutStaysOut == [][\A g \in out \ apps : g \notin apps']_vars

(* A pass unlocks no more of a game than its override allows, save that an *)
(* override of 0 still unlocks one.                                        *)
WithinMax ==
  \A w \in Workers : worker[w].app # None =>
    worker[w].done <= 1 \/ worker[w].done <= MaxUnlocks[worker[w].app]

(* With finitely many mishaps every session comes to its end: each game    *)
(* that is done, over its cap or without achievements leaves the queue.    *)
SessionEnds == []<>(loop.pc = "off")
=============================================================================
