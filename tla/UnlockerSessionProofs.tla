----------------------- MODULE UnlockerSessionProofs -----------------------
(***************************************************************************)
(* The achievement unlocker, for any games, workers, overrides, clicks and *)
(* number of mishaps.  Everything rests on where a worker may stand with   *)
(* its game (Sound) and on the idling set holding nothing but games that   *)
(* some worker will let go of.                                             *)
(***************************************************************************)
EXTENDS UnlockerSession, TLAPS

(* A worker's record: when it has a game, when it has put that game in the *)
(* idling set, and how far it may have got with the override.              *)
Sound(v) ==
  /\ v \in Worker
  /\ v.pc = "free" => v = At("free")
  /\ v.pc = "gone" => v = At("gone")
  /\ v.pc \notin {"free", "gone"} => v.app \in App
  /\ v.pc \in {"closed", "resume", "unlock"} => v.left > 0
  /\ v.pc \in {"grace", "insert", "closed", "resume", "dequeue"} => ~v.idles
  /\ v.app \in App =>
       \/ v.done = 0 \/ v.done < MaxUnlocks[v.app]
       \/ v.pc \in {"finish", "dequeue"} /\ (v.done <= 1 \/ v.done <= MaxUnlocks[v.app])

AllSound == \A w \in Workers : Sound(worker[w])

(* Outside of a pass, and beyond its width, the workers are free. *)
Unused == \A w \in Workers : loop.pc # "unlocking" \/ w > loop.width => worker[w] = At("free")

AppsOwned == apps \subseteq Idled
OutNotCommitted == out \subseteq excluded /\ out \cap Committed = {}

IInv == TypeOK /\ AllSound /\ Unused /\ AppsOwned /\ ClaimOwned /\ OutNotCommitted

-----------------------------------------------------------------------------
LEMMA AtSound ==
  ASSUME NEW pc \in {"free", "gone"}
  PROVE  Sound(At(pc)) /\ ~At(pc).idles /\ At(pc).app = None /\ At(pc).pc = pc
BY UnlockerAssumption DEF Sound, At, Worker, PC

(* Which games are idled and which are about to be, after a worker moved.  *)
LEMMA Moved ==
  ASSUME TypeOK, NEW w \in Workers, NEW r \in Worker, worker' = [worker EXCEPT ![w] = r]
  PROVE  /\ Idled \ {worker[w].app} \subseteq Idled'
         /\ (~worker[w].idles \/ (r.idles /\ r.app = worker[w].app)) => Idled \subseteq Idled'
         /\ r.idles => r.app \in Idled'
         /\ Committed' \subseteq Committed \cup {r.app}
         /\ r.pc \notin {"insert", "resume"} => Committed' \subseteq Committed
<1>1. /\ worker \in [Workers -> Worker] /\ worker'[w] = r
      /\ \A v \in Workers \ {w} : worker'[v] = worker[v]
  BY DEF TypeOK
<1>2. ASSUME NEW g \in Idled, g # worker[w].app PROVE g \in Idled'
  <2>1. PICK v \in Workers : worker[v].idles /\ g = worker[v].app
    BY DEF Idled
  <2> QED BY <1>1, <1>2, <2>1 DEF Idled
<1>3. ASSUME NEW g \in Idled, ~worker[w].idles \/ (r.idles /\ r.app = worker[w].app) PROVE g \in Idled'
  <2>1. PICK v \in Workers : worker[v].idles /\ g = worker[v].app
    BY DEF Idled
  <2> QED BY <1>1, <1>3, <2>1 DEF Idled
<1>4. r.idles => r.app \in Idled'
  BY <1>1 DEF Idled
<1>5. ASSUME NEW g \in Committed' PROVE g \in Committed \cup {r.app}
  BY <1>1, <1>5 DEF Committed
<1>6. ASSUME NEW g \in Committed', r.pc \notin {"insert", "resume"} PROVE g \in Committed
  BY <1>1, <1>6 DEF Committed
<1> QED BY <1>2, <1>3, <1>4, <1>5, <1>6

(* An announcement of games that are all owned leaves the claim owned. *)
LEMMA Announced ==
  ASSUME TypeOK, NEW games \in SUBSET App, Announce(games), games \subseteq Idled',
         ClaimOwned, click' = click
  PROVE  /\ AppsOwned' /\ ClaimOwned'
         /\ apps' \subseteq App /\ claim' \subseteq App /\ leaked' \subseteq App /\ mishaps' \in Nat
<1>1. apps' = games /\ Releasing' = Releasing
  BY DEF Announce, Releasing
<1>2. CASE claim' = games /\ leaked' = {} /\ UNCHANGED mishaps
  BY <1>1, <1>2 DEF AppsOwned, ClaimOwned, TypeOK
<1>3. CASE Mishap /\ leaked' = leaked \cup (claim \ games) /\ UNCHANGED claim
  BY <1>1, <1>3 DEF AppsOwned, ClaimOwned, TypeOK, Mishap
<1> QED BY <1>2, <1>3 DEF Announce

(* The moves of a worker: its new record is sound, and it is about to idle *)
(* its game only if it is not excluded.                                    *)
LEMMA Moves ==
  ASSUME IInv, NEW w \in Workers, WorkerStep(w)
  PROVE  \E r \in Worker :
           /\ Sound(r) /\ worker' = [worker EXCEPT ![w] = r]
           /\ r.pc \in {"insert", "resume"} => r.app \notin excluded
<1> DEFINE v == worker[w]
           Good(r) == /\ Sound(r) /\ worker' = [worker EXCEPT ![w] = r]
                      /\ r.pc \in {"insert", "resume"} => r.app \notin excluded
<1> SUFFICES \E r : Good(r)
  BY DEF Sound
<1>1. /\ Sound(v) /\ v \in Worker /\ worker \in [Workers -> Worker]
      /\ MaxUnlocks \in [App -> Nat] /\ None \notin App
  BY UnlockerAssumption DEF IInv, AllSound, TypeOK
<1>2. CASE Quit(w)
  BY <1>2, AtSound DEF Quit, Leave
<1>3. ASSUME NEW g \in App, Take(w, g) PROVE \E r : Good(r)
  <2> DEFINE r == [At("grace") EXCEPT !.app = g, !.left = ready[g]]
  <2>1. /\ At("grace") \in Worker /\ At("grace").pc = "grace" /\ ~At("grace").idles
        /\ At("grace").done = 0 /\ ready[g] \in Nat
    BY DEF At, Worker, PC, IInv, TypeOK
  <2>2. r \in Worker /\ r.pc = "grace" /\ r.app = g /\ ~r.idles /\ r.done = 0
    BY <2>1 DEF Worker
  <2>3. Sound(r)
    BY <1>1, <2>2 DEF Sound
  <2>4. worker' = [worker EXCEPT ![w] = r]
    BY <1>3 DEF Take
  <2> QED BY <2>2, <2>3, <2>4
<1>4. ASSUME NEW pc \in {"leave", "head", "unlock", "finish", "insert", "resume", "delayed"}, Goto(w, pc),
             v.pc \in {"grace", "delayed", "closed", "pause", "head", "unlock"},
             pc = "insert" => v.app \notin excluded /\ v.pc = "grace",
             pc = "resume" => v.app \notin excluded /\ v.pc = "head" /\ ~v.idles /\ v.left > 0,
             pc = "unlock" => v.left > 0
      PROVE  \E r : Good(r)
  <2> DEFINE r == [v EXCEPT !.pc = pc]
  <2>1. worker' = [worker EXCEPT ![w] = r]
    BY <1>1, <1>4 DEF Goto
  <2>2. r \in Worker /\ r.pc = pc /\ r.app = v.app /\ r.left = v.left /\ r.done = v.done /\ r.idles = v.idles
    BY <1>1, <1>4 DEF Worker, PC
  <2>3. v.app \in App
    BY <1>1, <1>4 DEF Sound
  <2> HIDE DEF r
  <2>4. v.done = 0 \/ v.done < MaxUnlocks[v.app]
    BY <1>1, <1>4, <2>3 DEF Sound
  <2>5. Sound(r)
    BY <1>1, <1>4, <2>2, <2>3, <2>4 DEF Sound
  <2> QED BY <1>4, <2>1, <2>2, <2>5
<1>5. CASE GraceStopped(w)
  BY <1>4, <1>5 DEF GraceStopped, Waits
<1>6. CASE DelayEnds(w)
  BY <1>4, <1>6 DEF DelayEnds, Waits
<1>7. CASE ClosedEnds(w)
  <2>1. v.left > 0
    BY <1>1, <1>7 DEF ClosedEnds, Waits, Sound
  <2> QED BY <1>4, <1>7, <2>1 DEF ClosedEnds, Waits
<1>8. CASE PauseEnds(w)
  BY <1>4, <1>8 DEF PauseEnds, Waits
<1>9. CASE Starting(w)
  BY <1>4, <1>9 DEF Starting
<1>10. CASE Head(w)
  <2>1. v.left > 0 \/ v.left = 0
    BY <1>1 DEF Worker
  <2> QED BY <1>4, <1>10, <2>1 DEF Head
<1>11. CASE UnlockStopped(w)
  BY <1>4, <1>11 DEF UnlockStopped
<1>12. CASE Idle(w)
  <2> DEFINE pc == IF v.pc = "insert" THEN "delayed" ELSE "unlock"
             r == [v EXCEPT !.idles = TRUE, !.pc = pc]
  <2>1. worker' = [worker EXCEPT ![w] = r]
    BY <1>1, <1>12 DEF Idle
  <2>2. r \in Worker /\ r.pc = pc /\ r.app = v.app /\ r.left = v.left /\ r.done = v.done
    BY <1>1 DEF Worker, PC
  <2>3. v.app \in App /\ (pc = "unlock" => v.left > 0) /\ v.pc \in {"insert", "resume"}
    BY <1>1, <1>12 DEF Idle, Sound
  <2> HIDE DEF r
  <2>4. Sound(r)
    BY <1>1, <2>2, <2>3 DEF Sound
  <2> QED BY <2>1, <2>2, <2>4
<1>13. CASE Unlock(w)
  <2> DEFINE pc == IF v.left + v.missed = 1 \/ v.done + 1 >= MaxUnlocks[v.app] THEN "finish" ELSE "pause"
             left == v.left - 1
             done == v.done + 1
             r == [v EXCEPT !.left = left, !.done = done, !.pc = pc]
  <2>1. worker' = [worker EXCEPT ![w] = r]
    BY <1>1, <1>13 DEF Unlock
  <2>2. v.app \in App /\ v.left > 0 /\ v.left \in Nat /\ v.done \in Nat /\ MaxUnlocks[v.app] \in Nat
    BY <1>1, <1>13 DEF Unlock, Sound, Worker
  <2>3. r \in Worker /\ r.pc = pc /\ r.app = v.app /\ r.done = v.done + 1
    <3>1. left \in Nat /\ done \in Nat /\ pc \in {"finish", "pause"}
      BY <2>2
    <3> HIDE DEF left, pc
    <3> QED BY <1>1, <3>1 DEF Worker, PC
  <2>4. v.done = 0 \/ v.done < MaxUnlocks[v.app]
    BY <1>1, <1>13, <2>2 DEF Unlock, Sound
  <2> HIDE DEF r
  <2>5. \/ v.done + 1 < MaxUnlocks[v.app]
        \/ pc = "finish" /\ (v.done + 1 <= 1 \/ v.done + 1 <= MaxUnlocks[v.app])
    BY <2>2, <2>4
  <2>6. Sound(r)
    BY <2>2, <2>3, <2>5 DEF Sound
  <2> QED BY <2>1, <2>3, <2>6
<1>14. CASE UnlockFails(w)
  <2> DEFINE left == v.left - 1
             missed == v.missed + 1
             r == [v EXCEPT !.left = left, !.missed = missed, !.pc = "pause"]
  <2>1. worker' = [worker EXCEPT ![w] = r]
    BY <1>1, <1>14 DEF UnlockFails
  <2>2. v.app \in App /\ v.left > 0 /\ v.left \in Nat /\ v.missed \in Nat
    BY <1>1, <1>14 DEF UnlockFails, Sound, Worker
  <2>3. r \in Worker /\ r.pc = "pause" /\ r.app = v.app /\ r.done = v.done
    <3>1. left \in Nat /\ missed \in Nat
      BY <2>2
    <3> HIDE DEF left, missed
    <3> QED BY <1>1, <3>1 DEF Worker, PC
  <2>4. v.done = 0 \/ v.done < MaxUnlocks[v.app]
    BY <1>1, <1>14, <2>2 DEF UnlockFails, Sound
  <2> HIDE DEF r
  <2>5. Sound(r)
    BY <2>2, <2>3, <2>4 DEF Sound
  <2> QED BY <2>1, <2>3, <2>5
<1>15. ASSUME v.pc \in {"finish", "leave", "head"}, v.pc = "head" => v.left > 0, Release(w)
       PROVE  \E r : Good(r)
  <2>1. worker' = [worker EXCEPT ![w] = LetsGo(v)]
    BY <1>1, <1>15 DEF Release
  <2>2. CASE v.pc = "leave"
    BY <2>1, <2>2, AtSound DEF LetsGo
  <2>3. ASSUME NEW pc \in {"dequeue", "closed"}, LetsGo(v) = [v EXCEPT !.pc = pc, !.idles = FALSE],
               pc = "dequeue" <=> v.pc = "finish", pc = "closed" => v.left > 0
        PROVE  \E r : Good(r)
    <3> DEFINE r == [v EXCEPT !.pc = pc, !.idles = FALSE]
    <3>1. r \in Worker /\ r.pc = pc /\ r.app = v.app /\ r.left = v.left /\ r.done = v.done /\ ~r.idles
      BY <1>1 DEF Worker, PC
    <3>2. v.app \in App /\ worker' = [worker EXCEPT ![w] = r]
      BY <1>1, <1>15, <2>1, <2>3 DEF Sound
    <3> HIDE DEF r
    <3>3. Sound(r)
      BY <1>1, <1>15, <2>3, <3>1, <3>2 DEF Sound
    <3> QED BY <3>1, <3>2, <3>3
  <2>4. CASE v.pc = "finish"
    <3>1. LetsGo(v) = [v EXCEPT !.pc = "dequeue", !.idles = FALSE]
      BY <2>4 DEF LetsGo
    <3> QED BY <2>3, <2>4, <3>1
  <2>5. CASE v.pc = "head"
    <3>1. LetsGo(v) = [v EXCEPT !.pc = "closed", !.idles = FALSE]
      BY <2>5 DEF LetsGo
    <3> QED BY <1>15, <2>3, <2>5, <3>1
  <2> QED BY <1>15, <2>2, <2>4, <2>5
<1>16. CASE LetGo(w)
  BY <1>15, <1>16 DEF LetGo
<1>17. CASE Shut(w)
  BY <1>15, <1>17 DEF Shut
<1>18. CASE Dequeue(w)
  BY <1>18, AtSound DEF Dequeue, Leave
<1> QED BY <1>2, <1>3, <1>5, <1>6, <1>7, <1>8, <1>9, <1>10, <1>11, <1>12, <1>13, <1>14, <1>16, <1>17, <1>18 DEF WorkerStep

(* A step of a worker keeps the workers' invariant. *)
LEMMA WorkersKept ==
  ASSUME IInv, NEW w \in Workers, WorkerStep(w)
  PROVE  /\ worker' \in [Workers -> Worker] /\ AllSound' /\ Unused'
         /\ loop' = loop /\ click' = click /\ UNCHANGED <<session, backlog, excluded>>
         /\ ready' \in [App -> Nat] /\ out' \subseteq App /\ queue' \subseteq App
<1>1. PICK r \in Worker : Sound(r) /\ worker' = [worker EXCEPT ![w] = r]
  BY Moves
<1>2. worker \in [Workers -> Worker] /\ loop.width \in Workers
  BY DEF IInv, TypeOK
<1>3. loop' = loop /\ click' = click /\ UNCHANGED <<session, backlog, excluded>>
  BY DEF WorkerStep, Quit, Take, GraceStopped, DelayEnds, ClosedEnds, PauseEnds, Waits, Starting, Idle, Head, Shut,
       Unlock, UnlockFails, UnlockStopped, LetGo, Release, Dequeue, session, pass, exclusion
<1>4. loop.pc = "unlocking" /\ w <= loop.width
  <2>1. CASE worker[w].pc = "free"
    BY <2>1 DEF WorkerStep, Quit, Take, GraceStopped, DelayEnds, ClosedEnds, PauseEnds, Waits, Starting, Idle, Head,
         Shut, Unlock, UnlockFails, UnlockStopped, LetGo, Dequeue
  <2>2. CASE worker[w].pc # "free"
    BY <1>2, <2>2, AtSound DEF IInv, Unused, Workers
  <2> QED BY <2>1, <2>2
<1>5. AllSound'
  BY <1>1, <1>2 DEF IInv, AllSound
<1>6. Unused'
  <2>1. ASSUME NEW v \in Workers, loop'.pc # "unlocking" \/ v > loop'.width PROVE worker'[v] = At("free")
    <3>1. v # w
      BY <1>2, <1>3, <1>4, <2>1 DEF Workers
    <3> QED BY <1>1, <1>2, <1>3, <2>1, <3>1 DEF IInv, Unused
  <2> QED BY <2>1 DEF Unused
<1>7. ready' \in [App -> Nat]
  <2>1. ready \in [App -> Nat]
    BY DEF IInv, TypeOK
  <2>2. UNCHANGED ready \/ \E g \in App : ready' = [ready EXCEPT ![g] = 0]
    BY DEF WorkerStep, Quit, Take, GraceStopped, DelayEnds, ClosedEnds, PauseEnds, Waits, Starting, Idle, Head, Shut,
         Unlock, UnlockFails, UnlockStopped, LetGo, Release, Dequeue, pass
  <2> QED BY <2>1, <2>2
<1>8. out' \subseteq App
  BY DEF WorkerStep, Quit, Take, GraceStopped, DelayEnds, ClosedEnds, PauseEnds, Waits, Starting, Idle, Head, Shut,
       Unlock, UnlockFails, UnlockStopped, LetGo, Release, Dequeue, Settled, exclusion, IInv, TypeOK
<1>9. queue' \subseteq App
  BY DEF WorkerStep, Quit, Take, GraceStopped, DelayEnds, ClosedEnds, PauseEnds, Waits, Starting, Idle, Head, Shut,
       Unlock, UnlockFails, UnlockStopped, LetGo, Release, Dequeue, Dequeued, IInv, TypeOK
<1>10. worker' \in [Workers -> Worker]
  BY <1>1, <1>2
<1> QED BY <1>3, <1>5, <1>6, <1>7, <1>8, <1>9, <1>10

(* ... and what is idled stays owned.                                      *)
LEMMA IdlingKept ==
  ASSUME IInv, NEW w \in Workers, WorkerStep(w)
  PROVE  /\ AppsOwned' /\ ClaimOwned'
         /\ apps' \subseteq App /\ claim' \subseteq App /\ leaked' \subseteq App /\ mishaps' \in Nat
<1>1. PICK r \in Worker : Sound(r) /\ worker' = [worker EXCEPT ![w] = r]
  BY Moves
<1>2. /\ TypeOK /\ AppsOwned /\ ClaimOwned /\ worker \in [Workers -> Worker] /\ worker'[w] = r
      /\ Sound(worker[w]) /\ click' = click
  BY <1>1, WorkersKept DEF IInv, TypeOK, AllSound
<1>3. CASE Idle(w)
  <2>1. /\ worker[w].app \in App /\ ~worker[w].idles /\ r.idles /\ r.app = worker[w].app
        /\ Announce(apps \cup {worker[w].app})
    BY <1>1, <1>2, <1>3 DEF Idle, Sound, Worker
  <2>2. apps \cup {worker[w].app} \subseteq Idled'
    BY <1>1, <1>2, <2>1, Moved DEF AppsOwned
  <2>3. apps \cup {worker[w].app} \subseteq App
    BY <1>2, <2>1 DEF TypeOK
  <2> QED BY <1>2, <2>1, <2>2, <2>3, Announced
<1>4. CASE Release(w) /\ worker[w].idles
  <2>1. Announce(apps \ {worker[w].app})
    BY <1>4 DEF Release
  <2>2. apps \ {worker[w].app} \subseteq Idled'
    BY <1>1, <1>2, Moved DEF AppsOwned
  <2>3. apps \ {worker[w].app} \subseteq App
    BY <1>2 DEF TypeOK
  <2> QED BY <1>2, <2>1, <2>2, <2>3, Announced
<1>5. ASSUME UNCHANGED idling, ~worker[w].idles \/ (r.idles /\ r.app = worker[w].app),
             UNCHANGED mishaps \/ Mishap
      PROVE  /\ AppsOwned' /\ ClaimOwned'
             /\ apps' \subseteq App /\ claim' \subseteq App /\ leaked' \subseteq App /\ mishaps' \in Nat
  <2>1. Idled \subseteq Idled'
    BY <1>1, <1>2, <1>5, Moved
  <2>2. Releasing' = Releasing
    BY <1>2 DEF Releasing
  <2> QED BY <1>2, <1>5, <2>1, <2>2 DEF AppsOwned, ClaimOwned, TypeOK, idling, Mishap
<1>6. CASE Release(w) /\ ~worker[w].idles
  BY <1>5, <1>6 DEF Release
<1>7. CASE LetGo(w) \/ Shut(w)
  BY <1>4, <1>6, <1>7 DEF LetGo, Shut
<1>8. CASE Quit(w) \/ (\E g \in App : Take(w, g)) \/ Dequeue(w)
  <2>1. ~worker[w].idles
    BY <1>2, <1>8, AtSound DEF Quit, Take, Dequeue, Sound
  <2>2. UNCHANGED idling /\ (UNCHANGED mishaps \/ Mishap)
    BY <1>8 DEF Quit, Take, Dequeue, Dequeued
  <2> QED BY <1>5, <2>1, <2>2
<1>9. CASE \/ GraceStopped(w) \/ DelayEnds(w) \/ ClosedEnds(w) \/ PauseEnds(w) \/ Starting(w) \/ Head(w)
           \/ Unlock(w) \/ UnlockFails(w) \/ UnlockStopped(w)
  <2>1. worker'[w].idles = worker[w].idles /\ worker'[w].app = worker[w].app
    BY <1>2, <1>9 DEF GraceStopped, DelayEnds, ClosedEnds, PauseEnds, Waits, Starting, Head, Unlock, UnlockFails,
         UnlockStopped, Goto, Worker
  <2>2. UNCHANGED idling /\ (UNCHANGED mishaps \/ Mishap)
    BY <1>9 DEF GraceStopped, DelayEnds, ClosedEnds, PauseEnds, Waits, Starting, Head, Unlock, UnlockFails, UnlockStopped
  <2>3. r.idles \in BOOLEAN
    BY DEF Worker
  <2> QED BY <1>2, <1>5, <2>1, <2>2, <2>3
<1> QED BY <1>3, <1>7, <1>8, <1>9 DEF WorkerStep

(* ... and no settled exclusion is undone.                                 *)
LEMMA OutKept ==
  ASSUME IInv, NEW w \in Workers, WorkerStep(w)
  PROVE  OutNotCommitted'
<1>1. PICK r \in Worker : /\ Sound(r) /\ worker' = [worker EXCEPT ![w] = r]
                          /\ r.pc \in {"insert", "resume"} => r.app \notin excluded
  BY Moves
<1>2. TypeOK /\ OutNotCommitted /\ excluded' = excluded
  BY WorkersKept DEF IInv
<1>3. UNCHANGED out \/ (Release(w) /\ worker[w].pc \in {"finish", "leave", "head"})
  BY DEF WorkerStep, Quit, Take, GraceStopped, DelayEnds, ClosedEnds, PauseEnds, Waits, Starting, Idle, Head, Shut,
       Unlock, UnlockFails, UnlockStopped, LetGo, Dequeue, exclusion
<1>4. CASE UNCHANGED out
  BY <1>1, <1>2, <1>4, Moved DEF OutNotCommitted
<1>5. CASE Release(w) /\ worker[w].pc \in {"finish", "leave", "head"}
  <2>1. worker'[w] = LetsGo(worker[w]) /\ worker'[w] = r
    BY <1>1, <1>2, <1>5 DEF Release, TypeOK
  <2>2. r.pc \notin {"insert", "resume"}
    <3>1. worker[w] \in Worker
      BY <1>2 DEF TypeOK
    <3> QED BY <1>5, <2>1, <3>1, AtSound DEF LetsGo, Worker
  <2>3. Committed' \subseteq Committed
    BY <1>1, <1>2, <2>2, Moved
  <2> QED BY <1>2, <1>5, <2>3 DEF Release, Settled, OutNotCommitted
<1> QED BY <1>3, <1>4, <1>5

-----------------------------------------------------------------------------
(* A step that moves no worker, changes neither the idling set nor the     *)
(* exclusions and ends no pass keeps the invariant but for the types.      *)
LEMMA Apart ==
  ASSUME IInv, UNCHANGED <<worker, idling, exclusion>>, TypeOK',
         loop' = loop \/ loop.pc # "unlocking",
         Releasing \subseteq Releasing'
  PROVE  IInv'
<1>1. Idled' = Idled /\ Committed' = Committed
  BY DEF Idled, Committed
<1>2. AllSound' /\ AppsOwned' /\ ClaimOwned' /\ OutNotCommitted'
  BY <1>1 DEF IInv, AllSound, AppsOwned, ClaimOwned, OutNotCommitted, idling, exclusion
<1>3. Unused'
  BY DEF IInv, Unused
<1> QED BY <1>2, <1>3 DEF IInv

LEMMA SameClicks == click' = click => Releasing' = Releasing
BY DEF Releasing

LEMMA InitInv == Init => IInv
<1> SUFFICES ASSUME Init PROVE IInv
  OBVIOUS
<1> USE UnlockerAssumption
<1>1. \A w \in Workers : worker[w] = At("free")
  BY DEF Init, AllFree
<1>2. TypeOK
  <2>1. At("free") \in Worker
    BY AtSound DEF Sound
  <2>2. 1 \in Workers
    BY DEF Workers
  <2> QED BY <2>1, <2>2 DEF Init, TypeOK, AllFree, Nothing, Stopping
<1>3. AllSound /\ Unused
  BY <1>1, AtSound DEF AllSound, Unused
<1>4. AppsOwned /\ ClaimOwned /\ OutNotCommitted
  BY DEF Init, AppsOwned, ClaimOwned, OutNotCommitted
<1> QED BY <1>2, <1>3, <1>4 DEF IInv

LEMMA LoopInv == IInv /\ LoopStep => IInv'
<1> SUFFICES ASSUME IInv, LoopStep PROVE IInv'
  OBVIOUS
<1> USE UnlockerAssumption
<1>1. TypeOK /\ Unused /\ worker \in [Workers -> Worker]
  BY DEF IInv, TypeOK
<1>2. ASSUME NEW n \in Workers, Top(n) PROVE IInv'
  <2>1. TypeOK'
    BY <1>1, <1>2 DEF Top, TypeOK, Loop, Mishap, session, idling, exclusion
  <2> QED BY <1>2, <2>1, Apart, SameClicks DEF Top
<1>3. ASSUME NEW g \in App, NEW n \in 0 .. MaxFound[g], Scan(g, n) PROVE IInv'
  <2>1. TypeOK'
    BY <1>1, <1>3 DEF Scan, TypeOK, Dequeued, Mishap, session, idling, exclusion
  <2> QED BY <1>3, <2>1, Apart, SameClicks DEF Scan
<1>4. CASE ScanEnds
  <2>1. TypeOK'
    BY <1>1, <1>4 DEF ScanEnds, TypeOK, Loop, session, idling, exclusion
  <2> QED BY <1>4, <2>1, Apart, SameClicks DEF ScanEnds
<1>5. CASE UnlockEnds
  <2>1. \A w \in Workers : worker'[w] = At("free")
    BY <1>5 DEF UnlockEnds, AllFree
  <2>2. TypeOK'
    <3>1. worker' \in [Workers -> Worker]
      BY <1>5, AtSound DEF UnlockEnds, AllFree, Sound
    <3> QED BY <1>1, <1>5, <3>1 DEF UnlockEnds, TypeOK, Loop, Nothing, session, idling, exclusion
  <2>3. Idled \subseteq Idled' /\ Committed' \subseteq Committed /\ Releasing' = Releasing
    <3>1. \A w \in Workers : ~worker[w].idles
      <4>1. ASSUME NEW w \in Workers PROVE worker[w] = At("free") \/ worker[w] = At("gone")
        <5>1. CASE w > loop.width
          BY <1>1, <5>1 DEF Unused
        <5>2. CASE w \in 1 .. loop.width
          BY <1>5, <5>2 DEF UnlockEnds, IInv, AllSound, Sound
        <5> QED BY <1>1, <5>1, <5>2 DEF TypeOK, Workers
      <4> QED BY <4>1, AtSound
    <3>2. \A w \in Workers : worker'[w].pc = "free"
      BY <2>1, AtSound
    <3> QED BY <1>5, <3>1, <3>2, SameClicks DEF UnlockEnds, Idled, Committed
  <2>4. AllSound' /\ Unused'
    BY <2>1, AtSound DEF AllSound, Unused
  <2>5. AppsOwned' /\ ClaimOwned' /\ OutNotCommitted'
    BY <1>5, <2>3 DEF UnlockEnds, IInv, AppsOwned, ClaimOwned, OutNotCommitted, idling, exclusion
  <2> QED BY <2>2, <2>4, <2>5 DEF IInv
<1>6. CASE Ending
  <2>1. Idled' = Idled /\ Committed' = Committed /\ Releasing' = Releasing
    BY <1>6, SameClicks DEF Ending, Idled, Committed
  <2>2. /\ AppsOwned' /\ ClaimOwned'
        /\ apps' \subseteq App /\ claim' \subseteq App /\ leaked' \subseteq App /\ mishaps' \in Nat
    <3>1. CASE apps = {}
      BY <1>1, <1>6, <2>1, <3>1 DEF Ending, idling, IInv, AppsOwned, ClaimOwned, TypeOK
    <3>2. CASE apps # {}
      <4>1. Announce({}) /\ click' = click /\ {} \subseteq Idled' /\ {} \in SUBSET App
        BY <1>6, <3>2 DEF Ending
      <4> QED BY <1>1, <4>1, Announced DEF IInv
    <3> QED BY <3>1, <3>2
  <2>3. TypeOK'
    BY <1>1, <1>6, <2>2 DEF Ending, TypeOK, Loop, session, exclusion
  <2>4. AllSound' /\ Unused' /\ OutNotCommitted'
    BY <1>1, <1>6, <2>1 DEF Ending, Loop, IInv, AllSound, Unused, OutNotCommitted, TypeOK, exclusion
  <2> QED BY <2>2, <2>3, <2>4 DEF IInv
<1>7. CASE Remove
  <2>1. Idled' = Idled /\ Releasing' = Releasing
    BY <1>7, SameClicks DEF Remove, Idled
  <2>2. TypeOK'
    <3>1. [pc |-> "off", width |-> 1] \in
             [pc : {"off", "top", "scanning", "unlocking", "ending", "closing"}, width : Workers]
      BY DEF Workers
    <3>2. Nothing \in [App -> Nat]
      BY DEF Nothing
    <3> QED BY <1>1, <1>7, <3>1, <3>2 DEF Remove, TypeOK, idling
  <2>3. \A w \in Workers : worker'[w] = At("free")
    BY <1>1, <1>7 DEF Remove, Unused
  <2>4. AllSound' /\ Unused'
    BY <2>3, AtSound DEF AllSound, Unused
  <2>5. AppsOwned' /\ ClaimOwned' /\ OutNotCommitted'
    BY <1>7, <2>1 DEF Remove, IInv, AppsOwned, ClaimOwned, OutNotCommitted, idling
  <2> QED BY <2>2, <2>4, <2>5 DEF IInv
<1> QED BY <1>2, <1>3, <1>4, <1>5, <1>6, <1>7 DEF LoopStep

LEMMA UserInv == IInv /\ User => IInv'
<1> SUFFICES ASSUME IInv, User PROVE IInv'
  OBVIOUS
<1> USE UnlockerAssumption
<1>1. TypeOK
  BY DEF IInv
<1>2. CASE Start
  <2>1. Releasing \subseteq Releasing' /\ Idled' = Idled /\ click' \in [Click -> Stopping]
    <3>1. click \in [Click -> Stopping]
      BY <1>1 DEF TypeOK
    <3>2. \A k \in Click : /\ click'[k] \in Stopping
                           /\ click[k].pc = "release" => click'[k] = click[k]
      <4> SUFFICES ASSUME NEW k \in Click
                   PROVE  click'[k] \in Stopping /\ (click[k].pc = "release" => click'[k] = click[k])
        OBVIOUS
      <4> DEFINE r == [click[k] EXCEPT !.pc = "release"]
      <4>1. CASE click[k].pc \in {"exclude", "untrack"}
        <5>1. r \in Stopping
          BY <3>1, <4>1 DEF Stopping
        <5>2. click'[k] = r
          BY <1>2, <4>1 DEF Start
        <5> QED BY <4>1, <5>1, <5>2
      <4>2. CASE click[k].pc \notin {"exclude", "untrack"}
        BY <1>2, <3>1, <4>2 DEF Start
      <4> QED BY <4>1, <4>2
    <3>3. click' \in [Click -> Stopping]
      <4>1. click' = [k \in Click |-> click'[k]]
        BY <1>2 DEF Start
      <4> QED BY <3>2, <4>1
    <3> QED BY <1>2, <3>2, <3>3 DEF Start, Releasing, Idled
  <2>2. TypeOK'
    BY <1>1, <1>2, <2>1 DEF Start, TypeOK, Loop, idling
  <2>3. AllSound' /\ Unused'
    BY <1>1, <1>2 DEF Start, Loop, IInv, AllSound, Unused, TypeOK
  <2>4. AppsOwned' /\ ClaimOwned' /\ OutNotCommitted'
    BY <1>2, <2>1 DEF Start, IInv, AppsOwned, ClaimOwned, OutNotCommitted, idling
  <2> QED BY <2>2, <2>3, <2>4 DEF IInv
<1>3. CASE Stop
  <2>1. TypeOK'
    BY <1>1, <1>3 DEF Stop, TypeOK, pass, idling, exclusion
  <2> QED BY <1>3, <2>1, Apart, SameClicks DEF Stop, pass
<1>4. ASSUME NEW g \in App, Enqueue(g) \/ Unqueue(g) PROVE IInv'
  <2>1. TypeOK'
    BY <1>1, <1>4 DEF Enqueue, Unqueue, Mishap, TypeOK, session, pass, idling, exclusion
  <2> QED BY <1>4, <2>1, Apart, SameClicks DEF Enqueue, Unqueue, pass
<1> QED BY <1>2, <1>3, <1>4 DEF User

LEMMA ClickInv == ASSUME IInv, NEW k \in Click, ClickStep(k) PROVE IInv'
<1> USE UnlockerAssumption
<1>1. TypeOK /\ click \in [Click -> Stopping]
  BY DEF IInv, TypeOK
<1>2. ASSUME NEW g \in App, StopGame(k, g) PROVE IInv'
  <2> DEFINE r == [pc |-> IF registered THEN "exclude" ELSE "release", app |-> g]
  <2>1. r \in Stopping /\ click' = [click EXCEPT ![k] = r] /\ click[k].pc = "new"
    BY <1>2 DEF StopGame, Stopping
  <2> HIDE DEF r
  <2>2. TypeOK'
    BY <1>1, <1>2, <2>1 DEF StopGame, TypeOK, session, pass, idling, exclusion
  <2>3. Releasing \subseteq Releasing'
    BY <1>1, <2>1 DEF Releasing
  <2> QED BY <1>2, <2>2, <2>3, Apart DEF StopGame, pass
<1>3. ASSUME NEW pc \in {"untrack", "release", "done"}, click' = [click EXCEPT ![k].pc = pc],
             click[k].pc # "new"
      PROVE  /\ click' \in [Click -> Stopping]
             /\ click[k].pc # "release" => Releasing \subseteq Releasing'
             /\ Releasing \ {click[k].app} \subseteq Releasing'
  <2>1. click' \in [Click -> Stopping]
    <3> DEFINE r == [click[k] EXCEPT !.pc = pc]
    <3>1. r \in Stopping
      BY <1>1, <1>3 DEF Stopping
    <3> QED BY <1>1, <1>3, <3>1
  <2>2. \A j \in Click \ {k} : click'[j] = click[j]
    BY <1>1, <1>3
  <2> QED BY <2>1, <2>2 DEF Releasing
<1>4. CASE Exclude(k)
  <2>1. /\ click[k].app \in App
        /\ Releasing \subseteq Releasing' /\ click' \in [Click -> Stopping]
    <3>1. click[k].app \in App
      BY <1>1, <1>4 DEF Exclude, Stopping
    <3> QED BY <1>1, <1>3, <1>4, <3>1 DEF Exclude
  <2>2. Idled' = Idled /\ Committed' = Committed
    BY <1>4 DEF Exclude, Idled, Committed
  <2>3. TypeOK'
    BY <1>1, <1>4, <2>1 DEF Exclude, TypeOK, session, pass, idling
  <2>4. AllSound' /\ Unused'
    BY <1>4 DEF Exclude, IInv, AllSound, Unused, pass
  <2>5. AppsOwned' /\ ClaimOwned' /\ OutNotCommitted'
    BY <1>4, <2>1, <2>2 DEF Exclude, IInv, AppsOwned, ClaimOwned, OutNotCommitted, idling
  <2> QED BY <2>3, <2>4, <2>5 DEF IInv
<1>5. CASE Untrack(k)
  <2>1. Releasing \subseteq Releasing' /\ click' \in [Click -> Stopping]
    BY <1>1, <1>3, <1>5 DEF Untrack
  <2>2. Idled' = Idled /\ Committed' = Committed
    BY <1>5 DEF Untrack, Idled, Committed
  <2>3. TypeOK'
    BY <1>1, <1>5, <2>1 DEF Untrack, Settled, TypeOK, session, pass
  <2>4. AllSound' /\ Unused'
    BY <1>5 DEF Untrack, IInv, AllSound, Unused, pass
  <2>5. AppsOwned' /\ ClaimOwned' /\ OutNotCommitted'
    BY <1>5, <2>1, <2>2 DEF Untrack, Settled, IInv, AppsOwned, ClaimOwned, OutNotCommitted
  <2> QED BY <2>3, <2>4, <2>5 DEF IInv
<1>6. CASE ReleaseGame(k)
  <2>1. Releasing \ {click[k].app} \subseteq Releasing' /\ click' \in [Click -> Stopping]
    BY <1>1, <1>3, <1>6 DEF ReleaseGame
  <2>2. Idled' = Idled /\ Committed' = Committed
    BY <1>6 DEF ReleaseGame, Idled, Committed
  <2>3. TypeOK'
    BY <1>1, <1>6, <2>1 DEF ReleaseGame, Mishap, TypeOK, session, pass, exclusion
  <2>4. AllSound' /\ Unused' /\ AppsOwned' /\ OutNotCommitted'
    BY <1>6, <2>2 DEF ReleaseGame, IInv, AllSound, Unused, AppsOwned, OutNotCommitted, pass, exclusion
  <2>5. ClaimOwned'
    <3>1. CASE claim' = claim \ {click[k].app} /\ leaked' = leaked \ {click[k].app}
      BY <2>1, <2>2, <3>1 DEF IInv, ClaimOwned
    <3>2. CASE leaked' = leaked \cup ({click[k].app} \cap claim) /\ claim' = claim
      BY <2>1, <2>2, <3>2 DEF IInv, ClaimOwned
    <3> QED BY <1>6, <3>1, <3>2 DEF ReleaseGame
  <2> QED BY <2>3, <2>4, <2>5 DEF IInv
<1> QED BY <1>2, <1>4, <1>5, <1>6 DEF ClickStep

LEMMA WorkerInv == ASSUME IInv, NEW w \in Workers, WorkerStep(w) PROVE IInv'
<1>1. TypeOK'
  BY WorkersKept, IdlingKept DEF IInv, TypeOK, session
<1> QED BY <1>1, WorkersKept, IdlingKept, OutKept DEF IInv

LEMMA StutterInv == IInv /\ UNCHANGED vars => IInv'
<1> SUFFICES ASSUME IInv, UNCHANGED vars PROVE IInv'
  OBVIOUS
<1>1. TypeOK'
  BY DEF IInv, TypeOK, vars, session, pass, idling, exclusion
<1> QED BY <1>1, Apart, SameClicks DEF vars, pass

LEMMA NextInv == IInv /\ [Next]_vars => IInv'
BY LoopInv, UserInv, ClickInv, WorkerInv, StutterInv DEF Next, SessionStep

LEMMA SpecInv == Spec => []IInv
BY InitInv, NextInv, PTL DEF Spec

-----------------------------------------------------------------------------
(* Every reachable state of the unlocker is well typed: no worker unlocks  *)
(* more achievements than its scan found.                                  *)
THEOREM UnlockerTypeOK == Spec => []TypeOK
<1>1. IInv => TypeOK
  BY DEF IInv
<1> QED BY SpecInv, <1>1, PTL

(* Whatever is claimed for the unlocker is some worker's to let go of, but *)
(* for a failed release and a click on its way.                            *)
THEOREM ClaimIsOwned == Spec => []ClaimOwned
<1>1. IInv => ClaimOwned
  BY DEF IInv
<1> QED BY SpecInv, <1>1, PTL

(* The override of a game bounds what a pass unlocks of it.                *)
THEOREM MaxRespected == Spec => []WithinMax
<1>1. IInv => WithinMax
  <2> SUFFICES ASSUME IInv, NEW w \in Workers, worker[w].app # None
               PROVE  worker[w].done <= 1 \/ worker[w].done <= MaxUnlocks[worker[w].app]
    BY DEF WithinMax
  <2>1. Sound(worker[w]) /\ worker[w].app \in App /\ worker[w].done \in Nat
    BY DEF IInv, AllSound, Sound, Worker
  <2>2. MaxUnlocks[worker[w].app] \in Nat
    BY <2>1, UnlockerAssumption
  <2> QED BY <2>1, <2>2 DEF Sound
<1> QED BY SpecInv, <1>1, PTL

(* A game whose exclusion is through stays out of the idling set for the   *)
(* rest of the session, however many workers announce it.                  *)
THEOREM ExclusionHolds == Spec => OutStaysOut
<1> DEFINE Kept == \A g \in out \ apps : g \notin apps'
<1>1. IInv /\ [Next]_vars => [Kept]_vars
  <2> SUFFICES ASSUME IInv, Next, NEW g \in out, g \notin apps, g \in apps' PROVE FALSE
    OBVIOUS
  <2>1. ASSUME NEW w \in Workers, WorkerStep(w) PROVE FALSE
    <3>1. CASE Idle(w)
      <4>1. g = worker[w].app
        BY <3>1 DEF Idle, Announce
      <4> QED BY <3>1, <4>1 DEF Idle, IInv, OutNotCommitted, Committed
    <3>2. ~Idle(w) => apps' \subseteq apps
      BY <2>1 DEF WorkerStep, Quit, Take, GraceStopped, DelayEnds, ClosedEnds, PauseEnds, Waits, Starting, Head, Shut,
           Unlock, UnlockFails, UnlockStopped, LetGo, Release, Dequeue, Announce, idling
    <3> QED BY <3>1, <3>2
  <2>2. ~(\E w \in Workers : WorkerStep(w)) => apps' \subseteq apps
    BY DEF Next, SessionStep, LoopStep, Top, Scan, ScanEnds, UnlockEnds, Ending, Remove, Announce, User, Start, Stop,
         Enqueue, Unqueue, ClickStep, StopGame, Exclude, Untrack, ReleaseGame, idling
  <2> QED BY <2>1, <2>2
<1> QED BY SpecInv, <1>1, PTL DEF Spec, OutStaysOut
=============================================================================
