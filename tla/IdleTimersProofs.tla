-------------------------- MODULE IdleTimersProofs --------------------------
(***************************************************************************)
(* What holds of the idle-time limits for any set of games, owners and     *)
(* commands in flight.                                                     *)
(***************************************************************************)
EXTENDS IdleTimers, TLAPS

(* The registry's mutators keep the shape of the claims. *)
LEMMA MutatorsType ==
  ASSUME NEW oc \in OwnerClaims
  PROVE  /\ Nobody \in OwnerClaims
         /\ \A o \in Owner, games \in SUBSET App : WithOwner(oc, o, games) \in OwnerClaims
         /\ \A g : WithoutApp(oc, g) \in OwnerClaims
         /\ \A o \in Owner, g \in App : WithoutAppOf(oc, o, g) \in OwnerClaims
         /\ \A o \in Owner : WithoutOwner(oc, o) \in OwnerClaims
BY DEF OwnerClaims, Nobody, WithOwner, WithoutApp, WithoutAppOf, WithoutOwner

LEMMA HolesType ==
  /\ NoGames \in [Timed -> SUBSET App]
  /\ \A o \in Timed, games \in SUBSET App : Just(o, games) \in [Timed -> SUBSET App]
BY DEF NoGames, Just

LEMMA ReleasingType ==
  ASSUME TypeOK, NEW e \in Releasing
  PROVE  e.owner \in Timed /\ e.app \in App
BY DEF TypeOK, Releasing, Eviction, Timer

(* A task with a game to act on has one. *)
Acting == {"bumpManual", "bumpAuto", "release", "read", "write"}

TasksTyped == \A c \in Command : cmd[c].pc \in Acting => cmd[c].app \in App

TInv == TypeOK /\ TasksTyped

-----------------------------------------------------------------------------
(* Type correctness. *)
LEMMA SetClaimsType ==
  ASSUME TypeOK, NEW oc \in OwnerClaims, NEW holes \in [Timed -> SUBSET App],
         NEW used, SetClaims(oc, holes, used)
  PROVE  /\ claims' \in OwnerClaims
         /\ gens' \in [Timed -> [App -> Nat]]
         /\ timers' \subseteq Timer
         /\ fired' \subseteq Timer
         /\ over' \subseteq timers' \cup fired'
         /\ unwatched' \in [Timed -> SUBSET App]
BY DEF TypeOK, SetClaims

LEMMA BumpType ==
  ASSUME TypeOK, NEW o \in Timed, NEW g \in App, Bump(o, g)
  PROVE  gens' \in [Timed -> [App -> Nat]]
BY DEF TypeOK, Bump

LEMMA TaskStep ==
  ASSUME TInv, NEW c \in Command, NEW task \in Task,
         task.pc \in Acting => task.app \in App,
         cmd' = [cmd EXCEPT ![c] = task]
  PROVE  cmd' \in [Command -> Task] /\ TasksTyped'
BY DEF TInv, TypeOK, TasksTyped

LEMMA FinishStep ==
  ASSUME TInv, NEW c \in Command, Finish(c)
  PROVE  cmd' \in [Command -> Task] /\ TasksTyped'
<1>1. At("done") \in Task /\ At("done").pc \notin Acting
  BY DEF At, Task, PC, Acting
<1> QED
  BY <1>1, TaskStep DEF Finish

LEMMA TypeInit == Init => TInv
BY HolesType DEF Init, TInv, TypeOK, TasksTyped, At, Task, PC, Acting, OwnerClaims, Nobody

LEMMA TypeIssue ==
  ASSUME TInv, NEW c \in Command, Issue(c)
  PROVE  TInv'
<1>1. ASSUME NEW g \in App, ToggleStop(c, g) PROVE TInv'
  BY <1>1 DEF ToggleStop, TInv, TypeOK, TasksTyped, Task, PC, Acting
<1>2. ASSUME NEW g \in App, ToggleStart(c, g) PROVE TInv'
  BY <1>2 DEF ToggleStart, TInv, TypeOK, TasksTyped, Task, PC, Acting
<1>3. ASSUME NEW games \in SUBSET App, StartAuto(c, games) PROVE TInv'
  BY <1>3 DEF StartAuto, TInv, TypeOK, TasksTyped, Task, PC, Acting
<1> QED
  BY <1>1, <1>2, <1>3 DEF Issue

LEMMA TypeContinue ==
  ASSUME TInv, NEW c \in Command, Continue(c)
  PROVE  TInv'
<1> USE TimersAssumption
<1>o. Manual \in Owner /\ AutoIdle \in Owner /\ Manual \in Timed /\ AutoIdle \in Timed
  BY DEF Timed
<1>c. /\ claims \in OwnerClaims
      /\ cmd[c] \in Task
      /\ cmd[c].games \in SUBSET App
      /\ claims[Manual] \in SUBSET App
  BY <1>o DEF TInv, TypeOK, Task, OwnerClaims
<1>1. ASSUME BumpManual(c) PROVE TInv'
  <2>1. cmd[c].app \in App
    BY <1>1 DEF BumpManual, TInv, TasksTyped, Acting
  <2>2. gens' \in [Timed -> [App -> Nat]]
    BY <1>1, <1>o, <2>1, BumpType DEF BumpManual, TInv
  <2> QED
    BY <1>1, <2>1, <2>2 DEF BumpManual, Goto, TInv, TypeOK, TasksTyped, Task, PC, Acting
<1>2. ASSUME BumpAuto(c) PROVE TInv'
  <2>1. cmd[c].app \in App
    BY <1>2 DEF BumpAuto, TInv, TasksTyped, Acting
  <2>2. gens' \in [Timed -> [App -> Nat]]
    BY <1>2, <1>o, <2>1, BumpType DEF BumpAuto, TInv
  <2> QED
    BY <1>2, <2>1, <2>2 DEF BumpAuto, Goto, TInv, TypeOK, TasksTyped, Task, PC, Acting
<1>3. ASSUME Release(c) PROVE TInv'
  <2>1. /\ WithoutApp(claims, cmd[c].app) \in OwnerClaims
        /\ SetClaims(WithoutApp(claims, cmd[c].app), NoGames, {})
        /\ Finish(c)
        /\ evicting' = evicting
    BY <1>3, <1>c, MutatorsType DEF Release
  <2> QED
    BY <2>1, SetClaimsType, HolesType, FinishStep DEF TInv, TypeOK
<1>4. ASSUME ReadManual(c) PROVE TInv'
  <2>1. cmd[c].app \in App
    BY <1>4 DEF ReadManual, TInv, TasksTyped, Acting
  <2> QED
    BY <1>4, <1>c, <2>1 DEF ReadManual, TInv, TypeOK, TasksTyped, Task, PC, Acting
<1>5. ASSUME WriteManual(c) PROVE TInv'
  <2> DEFINE oc == WithOwner(claims, Manual, cmd[c].games \cup {cmd[c].app})
  <2>1. cmd[c].app \in App
    BY <1>5 DEF WriteManual, TInv, TasksTyped, Acting
  <2>2. oc \in OwnerClaims
    BY <1>c, <1>o, <2>1, MutatorsType
  <2>3. \E holes \in [Timed -> SUBSET App] : SetClaims(oc, holes, {})
    BY <1>5, <1>c, <1>o, <2>1, HolesType DEF WriteManual
  <2> DEFINE task == [cmd[c] EXCEPT !.pc = "scheduleManual", !.games = {cmd[c].app}]
  <2>4. cmd' \in [Command -> Task] /\ TasksTyped'
    <3>1. task \in Task /\ task.pc \notin Acting
      BY <1>c, <2>1 DEF Task, PC, Acting
    <3>2. \/ cmd' = [cmd EXCEPT ![c] = task]
          \/ Finish(c)
      BY <1>5, <1>c DEF WriteManual, TInv, TypeOK
    <3> QED
      BY <3>1, <3>2, TaskStep, FinishStep
  <2>5. evicting' = evicting
    BY <1>5 DEF WriteManual
  <2> QED
    BY <2>2, <2>3, <2>4, <2>5, SetClaimsType DEF TInv, TypeOK
<1>6. ASSUME WriteAuto(c) PROVE TInv'
  <2> DEFINE oc == WithOwner(claims, AutoIdle, cmd[c].games)
  <2>2. oc \in OwnerClaims
    BY <1>c, <1>o, MutatorsType
  <2>3. \E holes \in [Timed -> SUBSET App] : SetClaims(oc, holes, {})
    BY <1>6, <1>c, <1>o, HolesType DEF WriteAuto
  <2> DEFINE task == [cmd[c] EXCEPT !.pc = "scheduleAuto"]
  <2>4. cmd' \in [Command -> Task] /\ TasksTyped'
    <3>1. task \in Task /\ task.pc \notin Acting
      BY <1>c DEF Task, PC, Acting
    <3>2. \/ cmd' = [cmd EXCEPT ![c] = task]
          \/ Finish(c)
      BY <1>6, <1>c DEF WriteAuto, Goto, TInv, TypeOK
    <3> QED
      BY <3>1, <3>2, TaskStep, FinishStep
  <2>5. evicting' = evicting
    BY <1>6 DEF WriteAuto
  <2> QED
    BY <2>2, <2>3, <2>4, <2>5, SetClaimsType DEF TInv, TypeOK
<1>7. ASSUME NEW o \in Timed, NEW g \in App, Schedule(c, o, g) PROVE TInv'
  <2>1. gens' \in [Timed -> [App -> Nat]]
    BY <1>7, BumpType DEF Schedule, TInv
  <2>2. gens[o][g] + 1 \in Nat
    BY DEF TInv, TypeOK
  <2>3. timers' \subseteq Timer /\ timers \subseteq timers'
    BY <1>7, <2>2 DEF Schedule, TInv, TypeOK, Timer
  <2> DEFINE task == [cmd[c] EXCEPT !.games = @ \ {g}]
  <2>4. cmd' \in [Command -> Task] /\ TasksTyped'
    <3>1. task \in Task /\ task.pc \notin Acting
      BY <1>7, <1>c DEF Schedule, Task, PC, Acting
    <3>2. \/ cmd' = [cmd EXCEPT ![c] = task]
          \/ Finish(c)
      BY <1>7, <1>c DEF Schedule, TInv, TypeOK
    <3> QED
      BY <3>1, <3>2, TaskStep, FinishStep
  <2>5. unwatched' \in [Timed -> SUBSET App]
    BY <1>7 DEF Schedule, TInv, TypeOK
  <2> QED
    BY <1>7, <2>1, <2>3, <2>4, <2>5 DEF Schedule, TInv, TypeOK
<1>8. ASSUME NEW o \in Timed, NEW g \in App, ScheduleFails(c, o, g) PROVE TInv'
  <2>1. gens' \in [Timed -> [App -> Nat]]
    BY <1>8, BumpType DEF ScheduleFails, TInv
  <2>2. unwatched' \in [Timed -> SUBSET App]
    BY <1>8, <1>c DEF ScheduleFails, TInv, TypeOK
  <2> QED
    BY <1>8, <2>1, <2>2, FinishStep DEF ScheduleFails, TInv, TypeOK
<1>9. ASSUME CommandFails(c) PROVE TInv'
  <2>1. unwatched' \in [Timed -> SUBSET App]
    <3>1. CASE cmd[c].pc = "release"
      <4>1. cmd[c].app \in App
        BY <3>1 DEF TInv, TasksTyped, Acting
      <4> QED
        BY <1>9, <3>1, <4>1 DEF CommandFails, TInv, TypeOK
    <3> QED
      BY <1>9, <3>1 DEF CommandFails, TInv, TypeOK
  <2> QED
    BY <1>9, <2>1, FinishStep DEF CommandFails, TInv, TypeOK
<1> QED
  BY <1>1, <1>2, <1>3, <1>4, <1>5, <1>6, <1>7, <1>8, <1>9 DEF Continue

(* What the user does without a task, the timers and the poll. *)
Environment ==
  \/ \E o \in Timed : StopOwner(o)
  \/ StopAll
  \/ \E o \in Owner, games \in SUBSET App : SessionClaim(o, games)
  \/ \E e \in Releasing : Evict(e)

(* All of it only changes the claims, and leaves no game without a timer. *)
LEMMA EnvironmentClaims ==
  ASSUME TInv, Environment
  PROVE  /\ \E oc \in OwnerClaims, used \in SUBSET Releasing :
              /\ SetClaims(oc, NoGames, used)
              /\ \A o \in Timed : oc[o] \subseteq claims[o]
              /\ \A e \in Releasing \ Releasing' : e.app \notin oc[e.owner]
         /\ evicting' \subseteq evicting
         /\ cmd' = cmd
<1>1. /\ claims \in OwnerClaims /\ Timed \subseteq Owner
      /\ \A e \in Releasing : e.owner \in Timed /\ e.app \in App
  BY TimersAssumption, ReleasingType DEF TInv, TypeOK
<1>2. ASSUME NEW o \in Timed, StopOwner(o)
      PROVE  \E oc \in OwnerClaims :
              /\ SetClaims(oc, NoGames, {})
              /\ \A p \in Timed : oc[p] \subseteq claims[p]
  <2>1. \A p \in Timed : WithoutOwner(claims, o)[p] \subseteq claims[p]
    BY <1>1 DEF WithoutOwner, OwnerClaims
  <2> QED
    BY <1>1, <1>2, <2>1, MutatorsType DEF StopOwner
<1>3. ASSUME StopAll
      PROVE  \E oc \in OwnerClaims :
              /\ SetClaims(oc, NoGames, {})
              /\ \A p \in Timed : oc[p] \subseteq claims[p]
  <2>1. \A p \in Timed : Nobody[p] \subseteq claims[p]
    BY <1>1 DEF Nobody
  <2> QED
    BY <1>1, <1>3, <2>1, MutatorsType DEF StopAll
<1>4. ASSUME NEW o \in Owner, NEW games \in SUBSET App, SessionClaim(o, games)
      PROVE  \E oc \in OwnerClaims :
              /\ SetClaims(oc, NoGames, {})
              /\ \A p \in Timed : oc[p] \subseteq claims[p]
  <2>1. \A p \in Timed : WithOwner(claims, o, games)[p] \subseteq claims[p]
    BY <1>1, <1>4 DEF WithOwner, OwnerClaims, SessionClaim
  <2> QED
    BY <1>1, <1>4, <2>1, MutatorsType DEF SessionClaim
<1>5. ASSUME NEW e \in Releasing, Evict(e)
      PROVE  \E oc \in OwnerClaims, used \in SUBSET Releasing :
              /\ SetClaims(oc, NoGames, used)
              /\ \A p \in Timed : oc[p] \subseteq claims[p]
              /\ \A d \in Releasing \ Releasing' : d.app \notin oc[d.owner]
  <2> DEFINE oc == WithoutAppOf(claims, e.owner, e.app)
  <2>1. e.owner \in Timed /\ e.owner \in Owner /\ e.app \in App
    BY <1>1
  <2>2. /\ \A p \in Timed : oc[p] \subseteq claims[p]
        /\ e.app \notin oc[e.owner]
    BY <1>1, <2>1 DEF WithoutAppOf, OwnerClaims
  <2>3. oc \in OwnerClaims
    BY <1>1, <2>1, MutatorsType
  <2>4. SetClaims(oc, NoGames, {e}) /\ evicting' = evicting \ {e}
    BY <1>5 DEF Evict
  <2>5. \A d \in Releasing \ Releasing' : d = e
    BY <2>4 DEF SetClaims, Releasing
  <2> QED
    BY <2>2, <2>3, <2>4, <2>5
<1>6. ASSUME Environment PROVE evicting' \subseteq evicting /\ cmd' = cmd
  BY <1>6 DEF Environment, StopOwner, StopAll, SessionClaim, Evict
<1>7. ASSUME StopAll \/ (\E o \in Timed : StopOwner(o))
             \/ (\E o \in Owner, games \in SUBSET App : SessionClaim(o, games))
      PROVE  Releasing' = Releasing
  BY <1>7 DEF StopOwner, StopAll, SessionClaim, SetClaims, Releasing
<1> QED
  BY <1>2, <1>3, <1>4, <1>5, <1>6, <1>7 DEF Environment

LEMMA NextCases ==
  ASSUME Next
  PROVE  \/ \E c \in Command : Issue(c)
         \/ \E c \in Command : Continue(c)
         \/ Environment
         \/ \E tm \in timers : Wake(tm)
         \/ \E o \in Timed, g \in App : FoundOverCap(o, g)
         \/ \E e \in Releasing : EvictFails(e)
BY DEF Next, Environment

LEMMA TypeStep == TInv /\ [Next]_vars => TInv'
<1> SUFFICES ASSUME TInv, [Next]_vars PROVE TInv'
  OBVIOUS
<1>1. CASE Environment
  <2>1. PICK oc \in OwnerClaims, used \in SUBSET Releasing : SetClaims(oc, NoGames, used)
    BY <1>1, EnvironmentClaims
  <2>2. evicting' \subseteq evicting /\ cmd' = cmd
    BY <1>1, EnvironmentClaims
  <2> QED
    BY <2>1, <2>2, SetClaimsType, HolesType DEF TInv, TypeOK, TasksTyped
<1>2. ASSUME NEW tm \in timers, Wake(tm) PROVE TInv'
  BY <1>2 DEF Wake, TInv, TypeOK, TasksTyped
<1>3. ASSUME NEW o \in Timed, NEW g \in App, FoundOverCap(o, g) PROVE TInv'
  BY <1>3 DEF FoundOverCap, TInv, TypeOK, TasksTyped, Eviction
<1>4. ASSUME NEW e \in Releasing, EvictFails(e) PROVE TInv'
  <2>1. e.owner \in Timed /\ e.app \in App
    BY ReleasingType DEF TInv
  <2>2. unwatched' \in [Timed -> SUBSET App]
    BY <1>4, <2>1 DEF EvictFails, TInv, TypeOK
  <2> QED
    BY <1>4, <2>2 DEF EvictFails, TInv, TypeOK, TasksTyped
<1>5. CASE UNCHANGED vars
  BY <1>5 DEF vars, TInv, TypeOK, TasksTyped
<1> QED
  BY <1>1, <1>2, <1>3, <1>4, <1>5, TypeIssue, TypeContinue, NextCases

(* Every reachable state of the commands, the timers and the poll is well  *)
(* typed, however many commands are in flight.                             *)
THEOREM TypeCorrect == Spec => []TypeOK
<1>1. TInv => TypeOK
  BY DEF TInv
<1> QED
  BY <1>1, TypeInit, TypeStep, PTL DEF Spec

-----------------------------------------------------------------------------
(* The limits.  Scheduling(c, o, g), Stopping(c, g): task c is the one     *)
(* that BeingScheduled, BeingStopped speak of.                             *)
Scheduling(c, o, g) ==
  /\ cmd[c].pc = IF o = Manual THEN "scheduleManual" ELSE "scheduleAuto"
  /\ g \in cmd[c].games

Stopping(c, g) == cmd[c].pc \in {"bumpAuto", "release"} /\ cmd[c].app = g

Held(o, g) ==
  \/ Watched(o, g)
  \/ \E c \in Command : Scheduling(c, o, g) \/ Stopping(c, g)
  \/ BeingEvicted(o, g)
  \/ g \in unwatched[o]

LEMMA LimitEnforcedHeld ==
  LimitEnforced <=> \A o \in Timed : \A g \in claims[o] \cap Limited : Held(o, g)
BY DEF LimitEnforced, Held, BeingScheduled, BeingStopped, Scheduling, Stopping

(* A step of one task leaves every other task where it stands. *)
LEMMA OtherTasks ==
  ASSUME TInv, NEW c \in Command, NEW task, cmd' = [cmd EXCEPT ![c] = task],
         NEW d \in Command, d # c
  PROVE  cmd'[d] = cmd[d]
BY DEF TInv, TypeOK

(* A game stays watched as long as its generation and its timers do. *)
LEMMA WatchedFrame ==
  ASSUME timers \subseteq timers', NEW o \in Timed, NEW g \in App,
         gens'[o][g] = gens[o][g], Watched(o, g)
  PROVE  Watched(o, g)'
BY DEF Watched, Current

(* What a task touches: the other tasks keep what they hold. *)
LEMMA HeldFrame ==
  ASSUME TInv, NEW c \in Command, NEW task, cmd' = [cmd EXCEPT ![c] = task],
         NEW o \in Timed, NEW g \in App, Held(o, g),
         Scheduling(c, o, g) \/ Stopping(c, g) => Held(o, g)',
         timers \subseteq timers',
         gens'[o][g] = gens[o][g] \/ Held(o, g)',
         Releasing' = Releasing,
         g \in unwatched[o] => g \in unwatched'[o] \/ Held(o, g)'
  PROVE  Held(o, g)'
<1>1. CASE Watched(o, g)
  BY <1>1, WatchedFrame DEF Held
<1>2. ASSUME NEW d \in Command, Scheduling(d, o, g) \/ Stopping(d, g) PROVE Held(o, g)'
  <2>1. CASE d = c
    BY <1>2, <2>1
  <2>2. CASE d # c
    <3>1. cmd'[d] = cmd[d]
      BY <2>2, OtherTasks
    <3> QED
      BY <1>2, <3>1 DEF Held, Scheduling, Stopping
  <2> QED
    BY <2>1, <2>2
<1>3. CASE BeingEvicted(o, g)
  BY <1>3 DEF Held, BeingEvicted
<1>4. CASE g \in unwatched[o]
  BY <1>4 DEF Held
<1> QED
  BY <1>1, <1>2, <1>3, <1>4 DEF Held

LEMMA SetClaimsFrame ==
  ASSUME TInv, NEW oc \in OwnerClaims, NEW holes \in [Timed -> SUBSET App],
         NEW used, SetClaims(oc, holes, used), NEW o \in Timed, NEW g \in oc[o]
  PROVE  /\ claims' = oc
         /\ timers' = timers /\ gens' = gens
         /\ g \in unwatched[o] \/ g \in holes[o] => g \in unwatched'[o]
BY DEF SetClaims

LEMMA LimitIssue ==
  ASSUME TInv, LimitEnforced, NEW c \in Command, Issue(c)
  PROVE  LimitEnforced'
<1> SUFFICES ASSUME NEW o \in Timed, NEW g \in claims'[o] \cap Limited
             PROVE  Held(o, g)'
  BY LimitEnforcedHeld DEF LimitEnforced, Held, BeingScheduled, BeingStopped,
       Scheduling, Stopping
<1>1. \E task : cmd' = [cmd EXCEPT ![c] = task]
  BY DEF Issue, ToggleStop, ToggleStart, StartAuto
<1>2. /\ cmd[c].pc = "new"
      /\ UNCHANGED <<claims, gens, timers, Releasing, over, unwatched>>
  BY DEF Issue, ToggleStop, ToggleStart, StartAuto, Releasing
<1>3. Held(o, g) /\ g \in App
  BY <1>2, LimitEnforcedHeld, TimersAssumption
<1>4. ~Scheduling(c, o, g) /\ ~Stopping(c, g)
  BY <1>2 DEF Scheduling, Stopping
<1> QED
  BY <1>1, <1>2, <1>3, <1>4, HeldFrame

LEMMA GoingTo ==
  ASSUME TInv, NEW c \in Command, NEW pc, Goto(c, pc)
  PROVE  /\ cmd' = [cmd EXCEPT ![c] = [cmd[c] EXCEPT !.pc = pc]]
         /\ cmd'[c].pc = pc
         /\ cmd'[c].app = cmd[c].app
         /\ cmd'[c].games = cmd[c].games
<1>1. cmd \in [Command -> Task] /\ cmd[c] \in Task
  BY DEF TInv, TypeOK
<1> QED
  BY <1>1 DEF Goto, Task

(* BumpManual and BumpAuto: a stop holds the game whose timers it kills. *)
LEMMA LimitBump ==
  ASSUME TInv, LimitEnforced, NEW c \in Command, BumpManual(c) \/ BumpAuto(c)
  PROVE  LimitEnforced'
<1> SUFFICES ASSUME NEW o \in Timed, NEW g \in claims'[o] \cap Limited
             PROVE  Held(o, g)'
  BY LimitEnforcedHeld DEF LimitEnforced, Held, BeingScheduled, BeingStopped,
       Scheduling, Stopping
<1>0. /\ UNCHANGED <<claims, timers, Releasing, over, unwatched>>
      /\ cmd[c].pc \in {"bumpManual", "bumpAuto"}
      /\ Goto(c, "bumpAuto") \/ Goto(c, "release")
      /\ Bump(Manual, cmd[c].app) \/ Bump(AutoIdle, cmd[c].app)
  BY DEF BumpManual, BumpAuto, Releasing
<1>1. PICK task : cmd' = [cmd EXCEPT ![c] = task]
  BY <1>0, GoingTo
<1>2. Held(o, g) /\ g \in App
  BY <1>0, LimitEnforcedHeld, TimersAssumption
<1>3. g = cmd[c].app => Held(o, g)'
  <2>1. cmd'[c].pc \in {"bumpAuto", "release"} /\ cmd'[c].app = cmd[c].app
    BY <1>0, GoingTo
  <2> QED
    BY <2>1 DEF Held, Stopping
<1>4. g # cmd[c].app => gens'[o][g] = gens[o][g]
  BY <1>0, <1>2 DEF Bump, TInv, TypeOK
<1>5. Scheduling(c, o, g) \/ Stopping(c, g) => Held(o, g)'
  BY <1>0, <1>3 DEF Scheduling, Stopping
<1> QED
  BY <1>0, <1>1, <1>2, <1>3, <1>4, <1>5, HeldFrame

LEMMA LimitRelease ==
  ASSUME TInv, LimitEnforced, NEW c \in Command, Release(c)
  PROVE  LimitEnforced'
<1> SUFFICES ASSUME NEW o \in Timed, NEW g \in claims'[o] \cap Limited
             PROVE  Held(o, g)'
  BY LimitEnforcedHeld DEF LimitEnforced, Held, BeingScheduled, BeingStopped,
       Scheduling, Stopping
<1> DEFINE oc == WithoutApp(claims, cmd[c].app)
<1>1. /\ oc \in OwnerClaims /\ o \in Owner
      /\ SetClaims(oc, NoGames, {})
      /\ cmd' = [cmd EXCEPT ![c] = At("done")]
      /\ Releasing' = Releasing
      /\ cmd[c].pc = "release"
  BY MutatorsType, TimersAssumption DEF Release, Finish, TInv, TypeOK, SetClaims, Releasing
<1>2. g \in oc[o] /\ g \in claims[o] /\ g # cmd[c].app /\ g \in App
  BY <1>1, TimersAssumption DEF SetClaims, WithoutApp
<1>3. Held(o, g)
  BY <1>2, LimitEnforcedHeld
<1>4. /\ timers' = timers /\ gens' = gens
      /\ g \in unwatched[o] => g \in unwatched'[o]
  BY <1>1, <1>2, SetClaimsFrame, HolesType
<1>5. ~Scheduling(c, o, g) /\ ~Stopping(c, g)
  BY <1>1, <1>2 DEF Scheduling, Stopping
<1> QED
  BY <1>1, <1>2, <1>3, <1>4, <1>5, HeldFrame

LEMMA LimitRead ==
  ASSUME TInv, LimitEnforced, NEW c \in Command, ReadManual(c)
  PROVE  LimitEnforced'
<1> SUFFICES ASSUME NEW o \in Timed, NEW g \in claims'[o] \cap Limited
             PROVE  Held(o, g)'
  BY LimitEnforcedHeld DEF LimitEnforced, Held, BeingScheduled, BeingStopped,
       Scheduling, Stopping
<1> DEFINE task == [cmd[c] EXCEPT !.pc = "write", !.games = claims[Manual]]
<1>1. cmd' = [cmd EXCEPT ![c] = task]
  BY DEF ReadManual, TInv, TypeOK
<1>2. Held(o, g) /\ g \in App
  BY LimitEnforcedHeld, TimersAssumption DEF ReadManual
<1>3. ~Scheduling(c, o, g) /\ ~Stopping(c, g)
  BY DEF ReadManual, Scheduling, Stopping
<1> QED
  BY <1>1, <1>2, <1>3, HeldFrame DEF ReadManual, Releasing

(* A start claims its game, and what its stale read brings back is a hole. *)
LEMMA LimitWriteManual ==
  ASSUME TInv, LimitEnforced, NEW c \in Command, WriteManual(c)
  PROVE  LimitEnforced'
<1> SUFFICES ASSUME NEW o \in Timed, NEW g \in claims'[o] \cap Limited
             PROVE  Held(o, g)'
  BY LimitEnforcedHeld DEF LimitEnforced, Held, BeingScheduled, BeingStopped,
       Scheduling, Stopping
<1> DEFINE a == cmd[c].app
           games == cmd[c].games
           oc == WithOwner(claims, Manual, games \cup {a})
           back == games \ claims[Manual]
           task == [cmd[c] EXCEPT !.pc = "scheduleManual", !.games = {a}]
<1>1. /\ claims \in OwnerClaims /\ Timed \subseteq Owner
      /\ cmd[c] \in Task /\ cmd[c].pc = "write"
      /\ a \in App /\ games \in SUBSET App /\ g \in App
      /\ Manual \in Timed /\ Releasing' = Releasing
  BY TimersAssumption DEF TInv, TypeOK, TasksTyped, Task, Acting, WriteManual, Timed, SetClaims, Releasing
<1>2. oc \in OwnerClaims
  BY <1>1, MutatorsType
<1>3. \/ SetClaims(oc, Just(Manual, back), {}) /\ cmd' = [cmd EXCEPT ![c] = task]
      \/ SetClaims(oc, Just(Manual, back \cup {a}), {}) /\ cmd' = [cmd EXCEPT ![c] = At("done")]
  BY <1>1 DEF WriteManual, Finish, TInv, TypeOK
<1>4. PICK holes \in [Timed -> SUBSET App] :
        /\ SetClaims(oc, holes, {})
        /\ \A h \in back : h \in holes[Manual]
        /\ \/ a \in holes[Manual]
           \/ cmd' = [cmd EXCEPT ![c] = task]
  <2>1. /\ Just(Manual, back) \in [Timed -> SUBSET App]
        /\ Just(Manual, back \cup {a}) \in [Timed -> SUBSET App]
    BY <1>1, HolesType
  <2>2. /\ Just(Manual, back)[Manual] = back
        /\ Just(Manual, back \cup {a})[Manual] = back \cup {a}
    BY <1>1 DEF Just, NoGames
  <2> QED
    BY <1>3, <2>1, <2>2
<1>5. /\ claims' = oc /\ timers' = timers /\ gens' = gens /\ g \in oc[o]
      /\ g \in unwatched[o] \/ g \in holes[o] => g \in unwatched'[o]
  BY <1>2, <1>4, SetClaimsFrame DEF SetClaims
<1>6. \E t : cmd' = [cmd EXCEPT ![c] = t]
  BY <1>3
<1>7. CASE g \in claims[o]
  <2>1. Held(o, g)
    BY <1>7, LimitEnforcedHeld
  <2>2. ~Scheduling(c, o, g) /\ ~Stopping(c, g)
    BY <1>1 DEF Scheduling, Stopping
  <2> QED
    BY <1>1, <1>5, <1>6, <2>1, <2>2, HeldFrame
<1>8. CASE g \notin claims[o]
  <2>1. o = Manual /\ g \in back \cup {a}
    BY <1>1, <1>5, <1>8 DEF WithOwner, OwnerClaims
  <2>2. CASE g \in holes[Manual]
    BY <1>5, <2>1, <2>2 DEF Held
  <2>3. CASE g = a /\ cmd' = [cmd EXCEPT ![c] = task]
    <3>1. cmd'[c] = task /\ task.pc = "scheduleManual" /\ task.games = {a}
      BY <1>1, <2>3 DEF TInv, TypeOK, Task
    <3> QED
      BY <2>1, <2>3, <3>1 DEF Held, Scheduling
  <2> QED
    BY <1>4, <2>1, <2>2, <2>3
<1> QED
  BY <1>7, <1>8

LEMMA LimitWriteAuto ==
  ASSUME TInv, LimitEnforced, NEW c \in Command, WriteAuto(c)
  PROVE  LimitEnforced'
<1> SUFFICES ASSUME NEW o \in Timed, NEW g \in claims'[o] \cap Limited
             PROVE  Held(o, g)'
  BY LimitEnforcedHeld DEF LimitEnforced, Held, BeingScheduled, BeingStopped,
       Scheduling, Stopping
<1> DEFINE games == cmd[c].games
           oc == WithOwner(claims, AutoIdle, games)
           task == [cmd[c] EXCEPT !.pc = "scheduleAuto"]
<1>1. /\ claims \in OwnerClaims /\ Timed \subseteq Owner
      /\ cmd[c] \in Task /\ cmd[c].pc = "writeAuto"
      /\ games \in SUBSET App /\ g \in App
      /\ AutoIdle \in Timed /\ AutoIdle # Manual /\ Releasing' = Releasing
  BY TimersAssumption DEF TInv, TypeOK, Task, WriteAuto, Timed, SetClaims, Releasing
<1>2. oc \in OwnerClaims
  BY <1>1, MutatorsType
<1>3. \/ SetClaims(oc, NoGames, {}) /\ games = {} /\ cmd' = [cmd EXCEPT ![c] = At("done")]
      \/ SetClaims(oc, NoGames, {}) /\ cmd' = [cmd EXCEPT ![c] = task]
      \/ SetClaims(oc, Just(AutoIdle, games), {}) /\ cmd' = [cmd EXCEPT ![c] = At("done")]
  BY <1>1 DEF WriteAuto, Finish, Goto, TInv, TypeOK
<1>4. PICK holes \in [Timed -> SUBSET App] :
        /\ SetClaims(oc, holes, {})
        /\ \/ \A h \in games : h \in holes[AutoIdle]
           \/ cmd' = [cmd EXCEPT ![c] = task]
  <2>1. NoGames \in [Timed -> SUBSET App] /\ Just(AutoIdle, games) \in [Timed -> SUBSET App]
    BY <1>1, HolesType
  <2>2. Just(AutoIdle, games)[AutoIdle] = games
    BY <1>1 DEF Just, NoGames
  <2> QED
    BY <1>3, <2>1, <2>2
<1>5. /\ claims' = oc /\ timers' = timers /\ gens' = gens /\ g \in oc[o]
      /\ g \in unwatched[o] \/ g \in holes[o] => g \in unwatched'[o]
  BY <1>2, <1>4, SetClaimsFrame DEF SetClaims
<1>6. \E t : cmd' = [cmd EXCEPT ![c] = t]
  BY <1>3
<1>7. CASE g \in claims[o]
  <2>1. Held(o, g)
    BY <1>7, LimitEnforcedHeld
  <2>2. ~Scheduling(c, o, g) /\ ~Stopping(c, g)
    BY <1>1 DEF Scheduling, Stopping
  <2> QED
    BY <1>1, <1>5, <1>6, <2>1, <2>2, HeldFrame
<1>8. CASE g \notin claims[o]
  <2>1. o = AutoIdle /\ g \in games
    BY <1>1, <1>5, <1>8 DEF WithOwner, OwnerClaims
  <2>2. CASE g \in holes[AutoIdle]
    BY <1>5, <2>1, <2>2 DEF Held
  <2>3. CASE cmd' = [cmd EXCEPT ![c] = task]
    <3>1. cmd'[c] = task /\ task.pc = "scheduleAuto" /\ task.games = games
      BY <1>1, <2>3 DEF TInv, TypeOK, Task
    <3> QED
      BY <1>1, <2>1, <3>1 DEF Held, Scheduling
  <2> QED
    BY <1>4, <2>1, <2>2, <2>3
<1> QED
  BY <1>7, <1>8

(* schedule_if_capped: the game gets its timer. *)
LEMMA LimitSchedule ==
  ASSUME TInv, LimitEnforced, NEW c \in Command, NEW p \in Timed, NEW h \in App,
         Schedule(c, p, h)
  PROVE  LimitEnforced'
<1> SUFFICES ASSUME NEW o \in Timed, NEW g \in claims'[o] \cap Limited
             PROVE  Held(o, g)'
  BY LimitEnforcedHeld DEF LimitEnforced, Held, BeingScheduled, BeingStopped,
       Scheduling, Stopping
<1>1. /\ claims' = claims /\ Releasing' = Releasing /\ timers \subseteq timers'
      /\ Bump(p, h) /\ cmd[c] \in Task /\ g \in App
      /\ cmd[c].pc = IF p = Manual THEN "scheduleManual" ELSE "scheduleAuto"
  BY TimersAssumption DEF Schedule, TInv, TypeOK, Releasing
<1>2. Held(o, g)
  BY <1>1, LimitEnforcedHeld
<1>3. CASE o = p /\ g = h
  <2> DEFINE tm == [owner |-> p, app |-> h, gen |-> gens[p][h] + 1]
  <2>1. tm \in timers'
    BY <1>3 DEF Schedule
  <2>2. gens'[p][h] = gens[p][h] + 1
    BY <1>1 DEF Bump, TInv, TypeOK
  <2> QED
    BY <1>3, <2>1, <2>2 DEF Held, Watched, Current
<1>4. CASE ~(o = p /\ g = h)
  <2>1. gens'[o][g] = gens[o][g]
    BY <1>1, <1>4 DEF Bump, TInv, TypeOK
  <2>2. g \in unwatched[o] => g \in unwatched'[o]
    BY <1>4 DEF Schedule, TInv, TypeOK
  <2> DEFINE task == [cmd[c] EXCEPT !.games = @ \ {h}]
  <2>3. \/ cmd[c].games = {h} /\ cmd' = [cmd EXCEPT ![c] = At("done")]
        \/ cmd' = [cmd EXCEPT ![c] = task]
    BY <1>1 DEF Schedule, Finish, TInv, TypeOK
  <2>4. \E t : cmd' = [cmd EXCEPT ![c] = t]
    BY <2>3
  <2>5. ~Stopping(c, g)
    BY <1>1 DEF Stopping
  <2>6. ASSUME Scheduling(c, o, g) PROVE Held(o, g)'
    <3>1. o = p /\ g # h /\ g \in cmd[c].games
      BY <1>1, <1>4, <2>6, TimersAssumption DEF Scheduling, Timed
    <3>2. cmd'[c] = task /\ task.pc = cmd[c].pc /\ g \in task.games
      BY <1>1, <2>3, <3>1 DEF TInv, TypeOK, Task
    <3> QED
      BY <1>1, <3>1, <3>2 DEF Held, Scheduling
  <2> QED
    BY <1>1, <1>2, <2>1, <2>2, <2>4, <2>5, <2>6, HeldFrame
<1> QED
  BY <1>3, <1>4

(* A command that fails halfway leaves holes, which the history names. *)
LEMMA LimitFails ==
  ASSUME TInv, LimitEnforced, NEW c \in Command,
         \/ \E p \in Timed, h \in App : ScheduleFails(c, p, h)
         \/ CommandFails(c)
  PROVE  LimitEnforced'
<1> SUFFICES ASSUME NEW o \in Timed, NEW g \in claims'[o] \cap Limited
             PROVE  Held(o, g)'
  BY LimitEnforcedHeld DEF LimitEnforced, Held, BeingScheduled, BeingStopped,
       Scheduling, Stopping
<1>1. /\ claims' = claims /\ Releasing' = Releasing /\ timers' = timers
      /\ cmd' = [cmd EXCEPT ![c] = At("done")] /\ g \in App
  BY TimersAssumption DEF ScheduleFails, CommandFails, Finish, Releasing
<1>2. Held(o, g)
  BY <1>1, LimitEnforcedHeld
<1>3. ASSUME NEW p \in Timed, NEW h \in App, ScheduleFails(c, p, h) PROVE Held(o, g)'
  <2>1. /\ g \in unwatched[o] => g \in unwatched'[o]
        /\ o = p /\ g \in cmd[c].games => g \in unwatched'[o]
    BY <1>1, <1>3 DEF ScheduleFails, TInv, TypeOK
  <2>2. ~(o = p /\ g = h) => gens'[o][g] = gens[o][g]
    BY <1>1, <1>3 DEF ScheduleFails, Bump, TInv, TypeOK
  <2>3. o = p /\ g \in cmd[c].games => Held(o, g)'
    BY <2>1 DEF Held
  <2>4. h \in cmd[c].games /\ ~Stopping(c, g)
    BY <1>3 DEF ScheduleFails, Stopping
  <2>5. Scheduling(c, o, g) => o = p /\ g \in cmd[c].games
    BY <1>3, TimersAssumption DEF ScheduleFails, Scheduling, Timed
  <2> QED
    BY <1>1, <1>2, <2>1, <2>2, <2>3, <2>4, <2>5, HeldFrame
<1>4. ASSUME CommandFails(c) PROVE Held(o, g)'
  <2>1. g \in unwatched[o] => g \in unwatched'[o]
    BY <1>4 DEF CommandFails, TInv, TypeOK
  <2>2. Stopping(c, g) => g \in unwatched'[o]
    BY <1>1, <1>4 DEF CommandFails, Stopping, TInv, TypeOK
  <2>3. Stopping(c, g) => Held(o, g)'
    BY <2>2 DEF Held
  <2>4. ~Scheduling(c, o, g) /\ gens' = gens
    BY <1>4 DEF CommandFails, Scheduling
  <2> QED
    BY <1>1, <1>2, <2>1, <2>3, <2>4, HeldFrame
<1> QED
  BY <1>3, <1>4

LEMMA LimitEnvironment ==
  ASSUME TInv, LimitEnforced, Environment
  PROVE  LimitEnforced'
<1> SUFFICES ASSUME NEW o \in Timed, NEW g \in claims'[o] \cap Limited
             PROVE  Held(o, g)'
  BY LimitEnforcedHeld DEF LimitEnforced, Held, BeingScheduled, BeingStopped,
       Scheduling, Stopping
<1>1. PICK oc \in OwnerClaims, used \in SUBSET Releasing :
        /\ SetClaims(oc, NoGames, used)
        /\ \A p \in Timed : oc[p] \subseteq claims[p]
        /\ \A e \in Releasing \ Releasing' : e.app \notin oc[e.owner]
  BY EnvironmentClaims
<1>2. cmd' = cmd
  BY EnvironmentClaims
<1>3. /\ g \in oc[o] /\ g \in claims[o]
      /\ timers' = timers /\ gens' = gens
      /\ g \in unwatched[o] => g \in unwatched'[o]
  BY <1>1, SetClaimsFrame, HolesType DEF SetClaims
<1>4. Held(o, g)
  BY <1>3, LimitEnforcedHeld
<1>5. Watched(o, g) => Watched(o, g)'
  BY <1>3 DEF Watched, Current
<1>6. BeingEvicted(o, g) => BeingEvicted(o, g)'
  BY <1>1, <1>3 DEF BeingEvicted
<1> QED
  BY <1>2, <1>3, <1>4, <1>5, <1>6 DEF Held, Scheduling, Stopping

(* A timer that wakes while it is current goes on to release its game. *)
LEMMA LimitWake ==
  ASSUME TInv, LimitEnforced, NEW tm \in timers, Wake(tm)
  PROVE  LimitEnforced'
<1> SUFFICES ASSUME NEW o \in Timed, NEW g \in claims'[o] \cap Limited
             PROVE  Held(o, g)'
  BY LimitEnforcedHeld DEF LimitEnforced, Held, BeingScheduled, BeingStopped,
       Scheduling, Stopping
<1>1. UNCHANGED <<claims, gens, cmd, unwatched>> /\ Releasing \subseteq Releasing'
  BY DEF Wake, Releasing
<1>2. Held(o, g)
  BY <1>1, LimitEnforcedHeld
<1>3. ASSUME Watched(o, g) PROVE Watched(o, g)' \/ BeingEvicted(o, g)'
  <2>1. PICK s \in timers : s.owner = o /\ s.app = g /\ Current(s)
    BY <1>3 DEF Watched
  <2>2. CASE s = tm
    <3>1. tm \in Releasing'
      BY <2>1, <2>2 DEF Wake, Releasing
    <3> QED
      BY <2>1, <2>2, <3>1 DEF BeingEvicted
  <2>3. CASE s # tm
    BY <1>1, <2>1, <2>3 DEF Wake, Watched, Current
  <2> QED
    BY <2>2, <2>3
<1> QED
  BY <1>1, <1>2, <1>3 DEF Held, Scheduling, Stopping, BeingEvicted

LEMMA LimitEvictFails ==
  ASSUME TInv, LimitEnforced, NEW e \in Releasing, EvictFails(e)
  PROVE  LimitEnforced'
<1> SUFFICES ASSUME NEW o \in Timed, NEW g \in claims'[o] \cap Limited
             PROVE  Held(o, g)'
  BY LimitEnforcedHeld DEF LimitEnforced, Held, BeingScheduled, BeingStopped,
       Scheduling, Stopping
<1>1. UNCHANGED <<claims, gens, timers, cmd>> /\ Releasing' = Releasing \ {e}
  BY DEF EvictFails, Releasing
<1>2. Held(o, g)
  BY <1>1, LimitEnforcedHeld
<1>3. /\ g \in unwatched[o] => g \in unwatched'[o]
      /\ e.owner = o /\ e.app = g => g \in unwatched'[o]
  BY <1>1, ReleasingType DEF EvictFails, TInv, TypeOK
<1>4. BeingEvicted(o, g) => BeingEvicted(o, g)' \/ g \in unwatched'[o]
  BY <1>1, <1>3 DEF BeingEvicted
<1>5. Watched(o, g) => Watched(o, g)'
  BY <1>1 DEF Watched, Current
<1> QED
  BY <1>1, <1>2, <1>3, <1>4, <1>5 DEF Held, Scheduling, Stopping

LEMMA LimitStep == TInv /\ LimitEnforced /\ [Next]_vars => LimitEnforced'
<1> SUFFICES ASSUME TInv, LimitEnforced, [Next]_vars PROVE LimitEnforced'
  OBVIOUS
<1>1. ASSUME NEW c \in Command, Continue(c) PROVE LimitEnforced'
  BY <1>1, LimitBump, LimitRelease, LimitRead, LimitWriteManual, LimitWriteAuto,
     LimitSchedule, LimitFails DEF Continue
<1>2. ASSUME NEW o \in Timed, NEW g \in App, FoundOverCap(o, g) PROVE LimitEnforced'
  BY <1>2 DEF FoundOverCap, LimitEnforced, Watched, Current, BeingScheduled,
       BeingStopped, BeingEvicted, Releasing
<1>3. CASE UNCHANGED vars
  BY <1>3 DEF vars, LimitEnforced, Watched, Current, BeingScheduled, BeingStopped,
       BeingEvicted, Releasing
<1> QED
  BY <1>1, <1>2, <1>3, LimitIssue, LimitEnvironment, LimitWake, LimitEvictFails, NextCases

(* However starts, stops, timers and evictions of any number of games      *)
(* interleave, a limited game stays without a live timer only through one  *)
(* of the named failures.                                                  *)
THEOREM LimitAlwaysEnforced == Spec => []LimitEnforced
<1>1. Init => LimitEnforced
  BY TimersAssumption DEF Init, LimitEnforced, Nobody, Timed
<1> QED
  BY <1>1, TypeInit, TypeStep, LimitStep, PTL DEF Spec

-----------------------------------------------------------------------------
(* Timers that outlived their session.  No timer is ahead of its game's    *)
(* generation, so a bump disarms all of them at once.                      *)
TimersBehind == \A tm \in timers \cup fired : tm.gen <= gens[tm.owner][tm.app]

Excused(o, g) == BeingScheduled(o, g) \/ g \in unwatched[o]

LEMMA BehindBump ==
  ASSUME TInv, TimersBehind, NEW o \in Timed, NEW g \in App, Bump(o, g), over' = over
  PROVE  /\ \A tm \in timers \cup fired : tm.gen <= gens'[tm.owner][tm.app]
         /\ \A tm \in over : Current(tm)' => Current(tm) /\ ~(tm.owner = o /\ tm.app = g)
<1>1. /\ gens \in [Timed -> [App -> Nat]]
      /\ timers \cup fired \subseteq Timer
      /\ over \subseteq timers \cup fired
  BY DEF TInv, TypeOK
<1>2. ASSUME NEW tm \in timers \cup fired
      PROVE  /\ tm.owner \in Timed /\ tm.app \in App /\ tm.gen \in Nat
             /\ gens[tm.owner][tm.app] \in Nat
             /\ tm.gen <= gens[tm.owner][tm.app]
  BY <1>1 DEF Timer, TimersBehind
<1>3. ASSUME NEW tm \in timers \cup fired
      PROVE  gens'[tm.owner][tm.app] = IF tm.owner = o /\ tm.app = g
               THEN gens[tm.owner][tm.app] + 1 ELSE gens[tm.owner][tm.app]
  BY <1>1, <1>2 DEF Bump
<1> QED
  BY <1>1, <1>2, <1>3 DEF Current

(* A step that leaves the claims alone.  *)
LEMMA OldFrame ==
  ASSUME OldTimersOutdated, claims' = claims, over' \subseteq over,
         \A tm \in over' : Current(tm)' => Current(tm),
         \A tm \in over' :
           Current(tm)' /\ tm.app \in claims[tm.owner] /\ Excused(tm.owner, tm.app)
             => Excused(tm.owner, tm.app)'
  PROVE  OldTimersOutdated'
BY DEF OldTimersOutdated, Excused

(* A step that changes the claims: a game that comes back is being         *)
(* scheduled, or a named hole.                                             *)
LEMMA OldSetClaims ==
  ASSUME TInv, OldTimersOutdated,
         NEW oc \in OwnerClaims, NEW holes \in [Timed -> SUBSET App],
         NEW used, SetClaims(oc, holes, used),
         \A o \in Timed, g \in App : BeingScheduled(o, g) => BeingScheduled(o, g)',
         \A o \in Timed : \A g \in oc[o] \ claims[o] : BeingScheduled(o, g)' \/ g \in holes[o]
  PROVE  OldTimersOutdated'
<1>1. /\ claims' = oc /\ gens' = gens /\ timers' = timers
      /\ \A tm \in over' : tm \in over \/ tm.app \notin oc[tm.owner]
      /\ \A o \in Timed : unwatched'[o] = (unwatched[o] \cup holes[o]) \cap oc[o]
  BY DEF SetClaims
<1> SUFFICES ASSUME NEW tm \in over', Current(tm)', tm.app \in claims'[tm.owner]
             PROVE  BeingScheduled(tm.owner, tm.app)' \/ tm.app \in unwatched'[tm.owner]
  BY DEF OldTimersOutdated
<1>2. tm \in over /\ Current(tm)
  BY <1>1 DEF Current
<1>3. tm.owner \in Timed /\ tm.app \in App
  BY <1>2 DEF TInv, TypeOK, Timer
<1>4. CASE tm.app \in claims[tm.owner]
  <2>1. BeingScheduled(tm.owner, tm.app) \/ tm.app \in unwatched[tm.owner]
    BY <1>2, <1>4 DEF OldTimersOutdated
  <2> QED
    BY <1>1, <1>3, <2>1
<1>5. CASE tm.app \notin claims[tm.owner]
  BY <1>1, <1>3, <1>5
<1> QED
  BY <1>4, <1>5

(* A step of a task that schedules nothing. *)
LEMMA KeepsScheduling ==
  ASSUME TInv, NEW c \in Command, cmd[c].pc \notin {"scheduleManual", "scheduleAuto"},
         \A d \in Command \ {c} : cmd'[d] = cmd[d]
  PROVE  \A o, g : BeingScheduled(o, g) => BeingScheduled(o, g)'
BY DEF BeingScheduled

OldInv == TimersBehind /\ OldTimersOutdated

LEMMA OldIssue ==
  ASSUME TInv, OldInv, NEW c \in Command, Issue(c)
  PROVE  OldInv'
<1>1. /\ UNCHANGED <<claims, gens, timers, fired, over, unwatched>>
      /\ cmd[c].pc = "new"
      /\ \A d \in Command \ {c} : cmd'[d] = cmd[d]
  BY DEF Issue, ToggleStop, ToggleStart, StartAuto, TInv, TypeOK
<1>2. OldTimersOutdated'
  BY <1>1, KeepsScheduling, OldFrame DEF OldInv, Excused, Current
<1> QED
  BY <1>1, <1>2 DEF OldInv, TimersBehind

(* The steps of a stop, and the read of a start. *)
LEMMA OldBump ==
  ASSUME TInv, OldInv, NEW c \in Command, BumpManual(c) \/ BumpAuto(c) \/ ReadManual(c)
  PROVE  OldInv'
<1>1. /\ UNCHANGED <<claims, timers, fired, over, unwatched>>
      /\ cmd[c].pc \in {"bumpManual", "bumpAuto", "read"}
      /\ \A d \in Command \ {c} : cmd'[d] = cmd[d]
      /\ cmd[c].app \in App
  BY DEF BumpManual, BumpAuto, ReadManual, Goto, TInv, TypeOK, TasksTyped, Acting
<1>2. /\ TimersBehind'
      /\ \A tm \in over : Current(tm)' => Current(tm)
  <2>1. CASE gens' = gens
    BY <1>1, <2>1 DEF OldInv, TimersBehind, Current
  <2>2. ASSUME NEW o \in Timed, Bump(o, cmd[c].app)
        PROVE  /\ TimersBehind'
               /\ \A tm \in over : Current(tm)' => Current(tm)
    <3>1. /\ \A tm \in timers \cup fired : tm.gen <= gens'[tm.owner][tm.app]
          /\ \A tm \in over : Current(tm)' => Current(tm)
      BY <1>1, <2>2, BehindBump DEF OldInv
    <3> QED
      BY <1>1, <3>1 DEF TimersBehind
  <2> QED
    BY <2>1, <2>2 DEF BumpManual, BumpAuto, ReadManual, Timed
<1>3. OldTimersOutdated'
  BY <1>1, <1>2, KeepsScheduling, OldFrame DEF OldInv, Excused
<1> QED
  BY <1>2, <1>3 DEF OldInv

LEMMA OldRelease ==
  ASSUME TInv, OldInv, NEW c \in Command, Release(c)
  PROVE  OldInv'
<1> DEFINE oc == WithoutApp(claims, cmd[c].app)
<1>1. /\ oc \in OwnerClaims /\ NoGames \in [Timed -> SUBSET App]
      /\ \A o \in Timed : oc[o] \subseteq claims[o]
  BY MutatorsType, HolesType, TimersAssumption
     DEF TInv, TypeOK, WithoutApp, OwnerClaims, Timed
<1>2. /\ SetClaims(oc, NoGames, {})
      /\ cmd[c].pc = "release"
      /\ \A d \in Command \ {c} : cmd'[d] = cmd[d]
  BY DEF Release, Finish, TInv, TypeOK
<1>3. OldTimersOutdated'
  <2>1. \A o \in Timed : \A g \in oc[o] \ claims[o] : FALSE
    BY <1>1
  <2> HIDE DEF oc
  <2> QED
    BY <1>1, <1>2, <2>1, KeepsScheduling, OldSetClaims DEF OldInv
<1> QED
  BY <1>2, <1>3 DEF OldInv, TimersBehind, SetClaims

(* A start writes its claim: what it adds is on its way to a timer. *)
LEMMA OldWriteManual ==
  ASSUME TInv, OldInv, NEW c \in Command, WriteManual(c)
  PROVE  OldInv'
<1> DEFINE g == cmd[c].app
           games == cmd[c].games \cup {g}
           oc == WithOwner(claims, Manual, games)
           back == cmd[c].games \ claims[Manual]
<1>1. /\ g \in App /\ games \in SUBSET App /\ back \in SUBSET App
      /\ cmd[c].pc = "write" /\ cmd[c] \in Task
      /\ Manual \in Timed /\ Manual \in Owner
  BY TimersAssumption DEF WriteManual, TInv, TypeOK, Task, TasksTyped, Acting, Timed
<1>2. /\ oc \in OwnerClaims
      /\ Just(Manual, back) \in [Timed -> SUBSET App]
      /\ Just(Manual, back \cup {g}) \in [Timed -> SUBSET App]
  BY <1>1, MutatorsType, HolesType DEF TInv, TypeOK
<1>3. \A o \in Timed : \A h \in oc[o] \ claims[o] :
        o = Manual /\ (h = g \/ h \in back)
  BY <1>1, TimersAssumption DEF WithOwner, TInv, TypeOK, OwnerClaims, Timed
<1>4. /\ Just(Manual, back)[Manual] = back
      /\ Just(Manual, back \cup {g})[Manual] = back \cup {g}
  BY <1>1 DEF Just, NoGames
<1>5. \A d \in Command \ {c} : cmd'[d] = cmd[d]
  BY DEF WriteManual, Finish, TInv, TypeOK
<1>6. \A o, h : BeingScheduled(o, h) => BeingScheduled(o, h)'
  BY <1>1, <1>5, KeepsScheduling
<1>7. CASE /\ SetClaims(oc, Just(Manual, back), {})
           /\ cmd' = [cmd EXCEPT ![c].pc = "scheduleManual", ![c].games = {g}]
  <2>1. \A h \in {g} : BeingScheduled(Manual, h)'
    BY <1>1, <1>7 DEF BeingScheduled, TInv, TypeOK, Task
  <2>2. \A o \in Timed : \A h \in oc[o] \ claims[o] :
          BeingScheduled(o, h)' \/ h \in Just(Manual, back)[o]
    <3> SUFFICES ASSUME NEW h \in oc[Manual] \ claims[Manual]
                 PROVE  BeingScheduled(Manual, h)' \/ h \in back
      BY <1>3, <1>4
    <3>1. h = g \/ h \in back
      BY <1>1, <1>3
    <3> QED
      BY <2>1, <3>1
  <2> HIDE DEF oc, back
  <2>3. OldTimersOutdated'
    BY <1>2, <1>6, <1>7, <2>2, OldSetClaims DEF OldInv
  <2> QED
    BY <1>7, <2>3 DEF OldInv, TimersBehind, SetClaims
<1>8. CASE SetClaims(oc, Just(Manual, back \cup {g}), {})
  <2>1. \A o \in Timed : \A h \in oc[o] \ claims[o] :
          h \in Just(Manual, back \cup {g})[o]
    BY <1>3, <1>4
  <2> HIDE DEF oc, back
  <2>2. OldTimersOutdated'
    BY <1>2, <1>6, <1>8, <2>1, OldSetClaims DEF OldInv
  <2> QED
    BY <1>8, <2>2 DEF OldInv, TimersBehind, SetClaims
<1> QED
  BY <1>7, <1>8 DEF WriteManual

LEMMA OldWriteAuto ==
  ASSUME TInv, OldInv, NEW c \in Command, WriteAuto(c)
  PROVE  OldInv'
<1> DEFINE games == cmd[c].games
           oc == WithOwner(claims, AutoIdle, games)
<1>1. /\ games \in SUBSET App
      /\ cmd[c].pc = "writeAuto" /\ cmd[c] \in Task
      /\ AutoIdle \in Timed /\ AutoIdle \in Owner /\ Manual # AutoIdle
  BY TimersAssumption DEF WriteAuto, TInv, TypeOK, Task, Timed
<1>2. /\ oc \in OwnerClaims
      /\ NoGames \in [Timed -> SUBSET App]
      /\ Just(AutoIdle, games) \in [Timed -> SUBSET App]
      /\ Just(AutoIdle, games)[AutoIdle] = games
  BY <1>1, MutatorsType, HolesType DEF TInv, TypeOK, Just, NoGames
<1>3. \A o \in Timed : \A h \in oc[o] \ claims[o] : o = AutoIdle /\ h \in games
  BY <1>1, TimersAssumption DEF WithOwner, TInv, TypeOK, OwnerClaims, Timed
<1>5. \A d \in Command \ {c} : cmd'[d] = cmd[d]
  BY DEF WriteAuto, Finish, Goto, TInv, TypeOK
<1>6. \A o, h : BeingScheduled(o, h) => BeingScheduled(o, h)'
  BY <1>1, <1>5, KeepsScheduling
<1>7. CASE SetClaims(oc, NoGames, {}) /\ (IF games = {} THEN Finish(c) ELSE Goto(c, "scheduleAuto"))
  <2>1. \A h \in games : BeingScheduled(AutoIdle, h)'
    <3>1. ASSUME NEW h \in games PROVE cmd'[c].pc = "scheduleAuto" /\ cmd'[c].games = games
      BY <1>1, <1>7, <3>1 DEF Goto, TInv, TypeOK, Task
    <3> QED
      BY <1>1, <3>1 DEF BeingScheduled
  <2>2. \A o \in Timed : \A h \in oc[o] \ claims[o] :
          BeingScheduled(o, h)' \/ h \in NoGames[o]
    BY <1>3, <2>1
  <2> HIDE DEF oc, games
  <2>3. OldTimersOutdated'
    BY <1>2, <1>6, <1>7, <2>2, OldSetClaims DEF OldInv
  <2> QED
    BY <1>7, <2>3 DEF OldInv, TimersBehind, SetClaims
<1>8. CASE SetClaims(oc, Just(AutoIdle, games), {})
  <2>1. \A o \in Timed : \A h \in oc[o] \ claims[o] : h \in Just(AutoIdle, games)[o]
    BY <1>2, <1>3
  <2> HIDE DEF oc, games
  <2>2. OldTimersOutdated'
    BY <1>2, <1>6, <1>8, <2>1, OldSetClaims DEF OldInv
  <2> QED
    BY <1>8, <2>2 DEF OldInv, TimersBehind, SetClaims
<1> QED
  BY <1>7, <1>8 DEF WriteAuto

(* The bump of a start is what disarms the timers of the session before. *)
LEMMA OldSchedule ==
  ASSUME TInv, OldInv, NEW c \in Command, NEW o \in Timed, NEW g \in App,
         Schedule(c, o, g) \/ ScheduleFails(c, o, g)
  PROVE  OldInv'
<1>1. /\ Bump(o, g) /\ UNCHANGED <<claims, fired, over>>
      /\ cmd[c].pc = IF o = Manual THEN "scheduleManual" ELSE "scheduleAuto"
      /\ cmd[c] \in Task
  BY DEF Schedule, ScheduleFails, TInv, TypeOK
<1>2. /\ \A tm \in timers \cup fired : tm.gen <= gens'[tm.owner][tm.app]
      /\ \A tm \in over : Current(tm)' => Current(tm) /\ ~(tm.owner = o /\ tm.app = g)
  BY <1>1, BehindBump DEF OldInv
<1>3. TimersBehind'
  <2>1. gens'[o][g] = gens[o][g] + 1 /\ gens[o][g] \in Nat
    BY <1>1 DEF Bump, TInv, TypeOK
  <2>2. \A tm \in (timers \cup fired)' :
          \/ tm \in timers \cup fired
          \/ tm = [owner |-> o, app |-> g, gen |-> gens[o][g] + 1]
    BY <1>1 DEF Schedule, ScheduleFails
  <2> QED
    BY <1>2, <2>1, <2>2 DEF TimersBehind
<1>4. ASSUME NEW p \in Timed, NEW h \in App, ~(p = o /\ h = g),
             h \in claims[p], Excused(p, h)
      PROVE  Excused(p, h)'
  <2>1. CASE h \in unwatched[p]
    BY <1>4, <2>1 DEF Schedule, ScheduleFails, Excused, TInv, TypeOK
  <2>2. ASSUME NEW d \in Command, Scheduling(d, p, h)
        PROVE  Excused(p, h)'
    <3>1. CASE d # c
      <4>1. cmd'[d] = cmd[d]
        BY <3>1 DEF Schedule, ScheduleFails, Finish, TInv, TypeOK
      <4> QED
        BY <2>2, <4>1 DEF Scheduling, Excused, BeingScheduled
    <3>2. CASE d = c
      <4>1. p = o /\ h # g /\ h \in cmd[c].games
        BY <1>1, <1>4, <2>2, <3>2 DEF Scheduling, Timed
      <4>2. CASE Schedule(c, o, g)
        <5>1. cmd' = [cmd EXCEPT ![c].games = @ \ {g}]
          BY <4>1, <4>2 DEF Schedule
        <5>2. cmd'[c].pc = cmd[c].pc /\ h \in cmd'[c].games
          BY <1>1, <4>1, <5>1 DEF TInv, TypeOK, Task
        <5> QED
          BY <1>1, <4>1, <5>2 DEF Excused, BeingScheduled
      <4>3. CASE ScheduleFails(c, o, g)
        BY <1>4, <4>1, <4>3 DEF ScheduleFails, Excused, TInv, TypeOK
      <4> QED
        BY <4>2, <4>3
    <3> QED
      BY <3>1, <3>2
  <2> QED
    BY <1>4, <2>1, <2>2 DEF Excused, BeingScheduled, Scheduling
<1>5. \A tm \in over : tm.owner \in Timed /\ tm.app \in App
  BY DEF TInv, TypeOK, Timer
<1>6. OldTimersOutdated'
  BY <1>1, <1>2, <1>4, <1>5, OldFrame DEF OldInv
<1> QED
  BY <1>3, <1>6 DEF OldInv

(* A step that fails halfway only names more holes. *)
LEMMA OldFails ==
  ASSUME TInv, OldInv, NEW c \in Command, CommandFails(c)
  PROVE  OldInv'
<1>1. /\ UNCHANGED <<claims, gens, timers, fired, over>>
      /\ cmd[c].pc \in {"release", "read", "write", "writeAuto"}
      /\ \A d \in Command \ {c} : cmd'[d] = cmd[d]
      /\ \A o \in Timed : unwatched[o] \subseteq unwatched'[o]
  BY DEF CommandFails, Finish, TInv, TypeOK
<1>2. \A tm \in over : tm.owner \in Timed
  BY DEF TInv, TypeOK, Timer
<1>3. OldTimersOutdated'
  BY <1>1, <1>2, KeepsScheduling, OldFrame DEF OldInv, Excused, Current
<1> QED
  BY <1>1, <1>3 DEF OldInv, TimersBehind

LEMMA OldEvictFails ==
  ASSUME TInv, OldInv, NEW e \in Releasing, EvictFails(e)
  PROVE  OldInv'
<1>1. /\ UNCHANGED <<claims, gens, timers, cmd>>
      /\ fired' \subseteq fired /\ over' \subseteq over
      /\ \A o \in Timed : unwatched[o] \subseteq unwatched'[o]
  BY DEF EvictFails, TInv, TypeOK
<1>2. \A tm \in over : tm.owner \in Timed
  BY DEF TInv, TypeOK, Timer
<1>3. OldTimersOutdated'
  BY <1>1, <1>2, OldFrame DEF OldInv, Excused, Current, BeingScheduled
<1> QED
  BY <1>1, <1>3 DEF OldInv, TimersBehind

LEMMA OldEnvironment ==
  ASSUME TInv, OldInv, Environment
  PROVE  OldInv'
<1>1. PICK oc \in OwnerClaims, used \in SUBSET Releasing :
        /\ SetClaims(oc, NoGames, used)
        /\ \A o \in Timed : oc[o] \subseteq claims[o]
  BY EnvironmentClaims
<1>2. \A o \in Timed : \A g \in oc[o] \ claims[o] : FALSE
  BY <1>1
<1>3. \A o, g : BeingScheduled(o, g) => BeingScheduled(o, g)'
  BY EnvironmentClaims DEF BeingScheduled
<1>4. OldTimersOutdated'
  BY <1>1, <1>2, <1>3, HolesType, OldSetClaims DEF OldInv
<1> QED
  BY <1>1, <1>4 DEF OldInv, TimersBehind, SetClaims

LEMMA OldStep == TInv /\ OldInv /\ [Next]_vars => OldInv'
<1> SUFFICES ASSUME TInv, OldInv, [Next]_vars PROVE OldInv'
  OBVIOUS
<1>1. ASSUME NEW c \in Command, Continue(c) PROVE OldInv'
  BY <1>1, OldBump, OldRelease, OldWriteManual, OldWriteAuto, OldSchedule, OldFails
     DEF Continue
<1>2. ASSUME NEW tm \in timers, Wake(tm) PROVE OldInv'
  BY <1>2 DEF Wake, OldInv, TimersBehind, OldTimersOutdated, Current, BeingScheduled
<1>3. ASSUME NEW o \in Timed, NEW g \in App, FoundOverCap(o, g) PROVE OldInv'
  BY <1>3 DEF FoundOverCap, OldInv, TimersBehind, OldTimersOutdated, Current, BeingScheduled
<1>4. CASE UNCHANGED vars
  BY <1>4 DEF vars, OldInv, TimersBehind, OldTimersOutdated, Current, BeingScheduled
<1> QED
  BY <1>1, <1>2, <1>3, <1>4, OldIssue, OldEnvironment, OldEvictFails, NextCases

(* However many sessions of a game follow each other, and whatever stops   *)
(* them: once the start of a session is through, every timer of those      *)
(* before it is out of date.  One that has not checked yet will do         *)
(* nothing; of one past its check (`fired`) this is all that can be said.  *)
THEOREM OldTimersStayOutdated == Spec => []OldTimersOutdated
<1>1. Init => OldInv
  BY DEF Init, OldInv, TimersBehind, OldTimersOutdated
<1>2. OldInv => OldTimersOutdated
  BY DEF OldInv
<1> QED
  BY <1>1, <1>2, TypeInit, TypeStep, OldStep, PTL DEF Spec
=============================================================================
