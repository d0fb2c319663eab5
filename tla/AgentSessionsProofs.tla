------------------------ MODULE AgentSessionsProofs -------------------------
(***************************************************************************)
(* What holds of the agent sessions of an account for any number of        *)
(* commands and daemons.                                                   *)
(***************************************************************************)
EXTENDS AgentSessions, SequenceTheorems, TLAPS

Busy(t) == task[t].pc \in {"send", "wait", "answered"}

(* A line that is not a new refresh token. *)
Plain == {l \in Line : l.kind # "token"}

(* A command that has not begun has no process. *)
Fresh ==
  \A t \in Task : task[t].pc = "new" =>
    /\ life[t] = "unborn" /\ out[t] = << >> /\ t # sessions /\ t \notin pendingQr
    /\ \A p \in Process : t \notin handling[p]
    /\ \A u \in Task : task[u].target # t

(* A sign-in talks to the process it spawned, and to no other. *)
OwnProcess ==
  \A t \in Task : task[t].kind \in {"login", "qr"} =>
    /\ Busy(t) => task[t].target = t
    /\ \A p \in Process : t \in handling[p] => p = t

(* A QR sign-in that waits for its code is in no map, has a placeholder    *)
(* for a tag, and has written no token yet.                                *)
QrApart ==
  \A t \in Task : Busy(t) /\ task[t].kind = "qr" =>
    /\ t # sessions /\ tag[t] = "qr" /\ out[t] \in Seq(Plain)

PendingTagged == \A p \in pendingQr : tag[p] = "qr" /\ task[p].kind = "qr"

(* A resume holds the lock from its check to its end. *)
LockHeld ==
  \A t \in Task :
    task[t].kind = "resume" /\ (Busy(t) \/ task[t].pc \in {"check", "spawn"}) => lock = t

SInv ==
  /\ TypeOK /\ Fresh /\ OwnProcess /\ QrApart /\ PendingTagged /\ LockHeld
  /\ TagsMatch /\ NoStray

-----------------------------------------------------------------------------
(* Type correctness. *)
LEMMA InitType == Init => TypeOK
<1> SUFFICES ASSUME Init PROVE TypeOK
  OBVIOUS
<1>1. task \in [Task -> Command]
  BY DEF Init, Command
<1>2. << >> \in Seq(Line)
  BY EmptySeq
<1> QED
  BY <1>1, <1>2 DEF Init, TypeOK, Process

LEMMA LivesType ==
  ASSUME TypeOK, NEW killed, NEW born, Lives(killed, born)
  PROVE  /\ life' \in [Process -> {"unborn", "running", "dead"}]
         /\ bot' \in [Process -> {"off", "refused", "on", "reconnecting", "stopped"}]
         /\ handling' \in [Process -> SUBSET Task]
         /\ waiting' \subseteq Process
BY DEF TypeOK, Lives

LEMMA StepType ==
  ASSUME TypeOK, NEW t \in Task, NEW from, NEW to, Step(t, from, to),
         \/ from = "queued" /\ to = "check"
         \/ from = "check" /\ to \in {"spawn", "done"}
         \/ from = "spawn" /\ to = "done"
         \/ from = "wait" /\ to = "answered"
  PROVE  task' \in [Task -> Command]
<1>1. task[t] \in Command
  BY DEF TypeOK
<1>2. [task[t] EXCEPT !.pc = to] \in Command
  BY <1>1 DEF Step, Command, Kind
<1> QED
  BY <1>2 DEF Step, TypeOK

LEMMA IssueType ==
  ASSUME TypeOK, NEW t \in Task, Issue(t)
  PROVE  TypeOK'
<1>p. t \in Process /\ sessions \in Process \cup {None} /\ task[t] \in Command
  BY DEF TypeOK, Process
<1>b. ASSUME NEW kind \in Kind, NEW target \in Process, Begin(t, kind, "send", target)
      PROVE  task' \in [Task -> Command]
  <2>1. [pc |-> "send", kind |-> kind, target |-> target, ok |-> FALSE] \in Command
    BY DEF Command
  <2> QED
    BY <1>b, <2>1 DEF Begin, TypeOK
<1>1. CASE Login(t)
  BY <1>1, <1>p, <1>b, LivesType DEF Login, TypeOK, Kind
<1>2. CASE LoginFails(t)
  <2>1. [task[t] EXCEPT !.pc = "done", !.kind = "login"] \in Command
    BY <1>p, <1>2 DEF LoginFails, Command, Kind
  <2> QED
    BY <1>2, <2>1, LivesType DEF LoginFails, TypeOK
<1>3. CASE BeginQr(t)
  BY <1>3, <1>p, <1>b, LivesType DEF BeginQr, TypeOK, Kind
<1>4. CASE Logout(t)
  BY <1>4, <1>p, <1>b DEF Logout, Unmoved, TypeOK, Kind
<1>5. CASE Use(t)
  BY <1>5, <1>p, <1>b DEF Use, Unmoved, TypeOK, Kind
<1>6. CASE Resume(t)
  <2>1. [pc |-> "queued", kind |-> "resume", target |-> None, ok |-> FALSE] \in Command
    BY DEF Command
  <2> QED
    BY <1>6, <2>1 DEF Resume, Begin, Unmoved, TypeOK
<1> QED
  BY <1>1, <1>2, <1>3, <1>4, <1>5, <1>6 DEF Issue

LEMMA ContinueType ==
  ASSUME TypeOK, NEW t \in Task, Continue(t) \/ Timeout(t)
  PROVE  TypeOK'
<1>p. t \in Process /\ sessions \in Process \cup {None} /\ task[t] \in Command
  BY DEF TypeOK, Process
<1>1. CASE ResumeLock(t)
  BY <1>1, StepType DEF ResumeLock, Unmoved, TypeOK
<1>2. CASE ResumeCheck(t)
  BY <1>2, StepType DEF ResumeCheck, Unmoved, TypeOK
<1>3. CASE ResumeSpawn(t)
  <2>1. \A p \in Process : task[t].pc = "spawn" =>
          [task[t] EXCEPT !.pc = "send", !.target = p] \in Command
    BY <1>p DEF Command, Kind
  <2>2. CASE sessions # None
    BY <1>3, <1>p, <2>1, <2>2 DEF ResumeSpawn, Unmoved, TypeOK
  <2>3. CASE sessions = None
    <3>1. /\ task' = [task EXCEPT ![t] = [@ EXCEPT !.pc = "send", !.target = t]]
          /\ task[t].pc = "spawn" /\ Lives({}, {t}) /\ sessions' = t
          /\ tag' = [tag EXCEPT ![t] = "key"]
          /\ UNCHANGED <<pendingQr, closed, out, cache, lock, updating>>
      BY <1>3, <2>3 DEF ResumeSpawn
    <3>2. task' \in [Task -> Command]
      BY <3>1, <1>p, <2>1 DEF TypeOK
    <3> QED
      BY <3>1, <3>2, <1>p, LivesType DEF TypeOK
  <2> QED
    BY <2>2, <2>3
<1>4. CASE ResumeFails(t)
  BY <1>4, StepType DEF ResumeFails, Unmoved, TypeOK
<1>5. CASE Send(t)
  <2>1. \A pc \in {"wait", "answered"} : task[t].pc = "send" =>
          [task[t] EXCEPT !.pc = pc] \in Command
    BY <1>p DEF Command
  <2>2. task[t].pc = "send" => task[t].target \in Process
    BY <1>p DEF Command
  <2>3. task' \in [Task -> Command]
    BY <1>5, <2>1 DEF Send, TypeOK
  <2>4. handling' \in [Process -> SUBSET Task]
    <3>1. CASE handling' = handling
      BY <3>1 DEF TypeOK
    <3>2. CASE handling' = [handling EXCEPT ![task[t].target] = @ \cup {t}]
      BY <3>2, <1>5, <2>2 DEF Send, TypeOK
    <3> QED
      BY <1>5, <3>1, <3>2 DEF Send
  <2> QED
    BY <1>5, <2>3, <2>4 DEF Send, TypeOK
<1>6. CASE Finish(t)
  <2>1. [task[t] EXCEPT !.pc = "done", !.target = None, !.ok = FALSE] \in Command
    BY <1>p, <1>6 DEF Finish, Command
  <2> QED
    BY <1>6, <1>p, <2>1, LivesType DEF Finish, TypeOK
<1>7. CASE Timeout(t)
  BY <1>7, StepType DEF Timeout, Unmoved, TypeOK
<1> QED
  BY <1>1, <1>2, <1>3, <1>4, <1>5, <1>6, <1>7 DEF Continue

Bot == {"off", "refused", "on", "reconnecting", "stopped"}

LEMMA LineType ==
  /\ \A kind \in {"ok", "fail"}, t \in Task : Answer(kind, t) \in Plain
  /\ \A kind \in {"on", "off", "reconnecting"} : Event(kind) \in Plain
  /\ Event("token") \in Line
  /\ Plain \subseteq Line
BY DEF Answer, Event, Line, Plain

LEMMA ShortSeq ==
  ASSUME NEW S, NEW a \in S, NEW b \in S, NEW c \in S
  PROVE  << >> \in Seq(S) /\ <<a>> \in Seq(S) /\ <<a, b>> \in Seq(S) /\ <<a, b, c>> \in Seq(S)
OBVIOUS

(* What the steps of a daemon write. *)
LEMMA RefuseShape ==
  ASSUME TypeOK, NEW p \in Process, NEW t \in Task, Refuse(p, t)
  PROVE  \E b \in Bot, lines \in Seq(Plain) : Answers(p, t, b, lines) /\ UNCHANGED waiting
<1>1. Answer("fail", t) \in Plain /\ Event("off") \in Plain /\ Event("reconnecting") \in Plain
  BY LineType
<1>2. /\ <<Answer("fail", t)>> \in Seq(Plain)
      /\ <<Event("off"), Answer("fail", t)>> \in Seq(Plain)
      /\ <<Event("reconnecting"), Answer("fail", t)>> \in Seq(Plain)
  BY <1>1, ShortSeq
<1>3. bot[p] \in Bot /\ "refused" \in Bot /\ "reconnecting" \in Bot
  BY DEF TypeOK, Bot
<1> QED
  BY <1>2, <1>3 DEF Refuse

LEMMA GrantShape ==
  ASSUME TypeOK, NEW p \in Process, NEW t \in Task, Grant(p, t)
  PROVE  \E b \in Bot, lines \in Seq(Line) :
           /\ Answers(p, t, b, lines)
           /\ lines \in Seq(Plain) \/ task[t].kind = "login"
           /\ waiting' \subseteq waiting \cup {p}
<1>1. /\ Answer("ok", t) \in Plain /\ Event("off") \in Plain /\ Event("on") \in Plain
      /\ Answer("ok", t) \in Line /\ Event("on") \in Line /\ Event("token") \in Line
  BY LineType
<1>2. /\ <<Answer("ok", t)>> \in Seq(Plain)
      /\ <<Event("off"), Answer("ok", t)>> \in Seq(Plain)
      /\ <<Event("on"), Answer("ok", t)>> \in Seq(Plain)
      /\ <<Event("on"), Answer("ok", t), Event("token")>> \in Seq(Line)
  BY <1>1, ShortSeq
<1>3. Seq(Plain) \subseteq Seq(Line)
  BY SeqMonotonic, LineType
<1>4. bot[p] \in Bot /\ "stopped" \in Bot /\ "on" \in Bot
  BY DEF TypeOK, Bot
<1> QED
  BY <1>2, <1>3, <1>4 DEF Grant

LEMMA AuthenticatedShape ==
  ASSUME TypeOK, NEW p \in Process, Authenticated(p)
  PROVE  \E b \in Bot, lines \in Seq(Line) :
           Reports(p, b, lines) /\ waiting' \subseteq waiting /\ task[p].pc = "done"
<1>1. Event("on") \in Line /\ Event("token") \in Line /\ Event("off") \in Line
  BY LineType
<1>2. /\ <<Event("on"), Event("token")>> \in Seq(Line)
      /\ <<Event("off")>> \in Seq(Line) /\ << >> \in Seq(Line)
  BY <1>1, ShortSeq
<1>3. bot[p] \in Bot /\ "refused" \in Bot /\ "on" \in Bot
  BY DEF TypeOK, Bot
<1> QED
  BY <1>2, <1>3 DEF Authenticated

LEMMA ConnectionShape ==
  ASSUME TypeOK, NEW p \in Process, Connection(p)
  PROVE  \E b \in Bot, lines \in Seq(Plain) : Reports(p, b, lines) /\ UNCHANGED waiting
<1>1. Event("on") \in Plain /\ Event("reconnecting") \in Plain /\ Event("off") \in Plain
  BY LineType
<1>2. <<Event("on")>> \in Seq(Plain) /\ <<Event("reconnecting")>> \in Seq(Plain)
        /\ <<Event("off")>> \in Seq(Plain)
  BY <1>1, ShortSeq
<1> QED
  BY <1>2 DEF Connection, Bot

LEMMA WritesType ==
  ASSUME TypeOK, NEW p \in Process, NEW lines \in Seq(Line), Writes(p, lines)
  PROVE  out' \in [Process -> Seq(Line)]
<1>1. out[p] \o lines \in Seq(Line)
  BY ConcatProperties DEF TypeOK
<1> QED
  BY <1>1 DEF Writes, TypeOK

LEMMA DaemonType ==
  ASSUME TypeOK, NEW p \in Process, Daemon(p)
  PROVE  TypeOK'
<1>l. Seq(Plain) \subseteq Seq(Line)
  BY SeqMonotonic, LineType
<1>a. ASSUME NEW t \in Task, NEW b \in Bot, NEW lines \in Seq(Line),
             Answers(p, t, b, lines), waiting' \subseteq Process
      PROVE  TypeOK'
  <2>1. out' \in [Process -> Seq(Line)]
    BY <1>a, WritesType DEF Answers
  <2> QED
    BY <1>a, <2>1 DEF Answers, TypeOK, Bot
<1>r. ASSUME NEW b \in Bot, NEW lines \in Seq(Line), Reports(p, b, lines),
             waiting' \subseteq Process
      PROVE  TypeOK'
  <2>1. out' \in [Process -> Seq(Line)]
    BY <1>r, WritesType DEF Reports
  <2> QED
    BY <1>r, <2>1 DEF Reports, TypeOK, Bot
<1>w. waiting \subseteq Process
  BY DEF TypeOK
<1>1. ASSUME NEW t \in Task, Refuse(p, t) PROVE TypeOK'
  BY <1>1, <1>a, <1>l, <1>w, RefuseShape
<1>2. ASSUME NEW t \in Task, Grant(p, t) PROVE TypeOK'
  BY <1>2, <1>a, <1>w, GrantShape
<1>3. CASE Authenticated(p)
  BY <1>3, <1>r, <1>w, AuthenticatedShape
<1>4. CASE Connection(p)
  BY <1>4, <1>r, <1>l, <1>w, ConnectionShape
<1>5. CASE Crash(p)
  <2>1. \A n \in 0..Len(out[p]) : SubSeq(out[p], 1, n) \in Seq(Line)
    BY SubSeqProperties DEF TypeOK
  <2> QED
    BY <1>5, <2>1, LivesType DEF Crash, TypeOK
<1> QED
  BY <1>1, <1>2, <1>3, <1>4, <1>5 DEF Daemon

LEMMA ReaderType ==
  ASSUME TypeOK, NEW p \in Process, Reader(p)
  PROVE  TypeOK'
<1>r. ASSUME NEW kinds, Reads(p, kinds)
      PROVE  /\ out' \in [Process -> Seq(Line)]
             /\ Head(out[p]) \in Line
             /\ Head(out[p]).kind \in kinds
  <2>1. Tail(out[p]) \in Seq(Line) /\ Head(out[p]) \in Line
    BY <1>r, HeadTailProperties DEF Reads, TypeOK
  <2> QED
    BY <1>r, <2>1 DEF Reads, TypeOK
<1>1. CASE ReadAnswer(p)
  <2> DEFINE l == Head(out[p])
  <2>1. l.task \in Task
    BY <1>1, <1>r DEF ReadAnswer, Line
  <2>2. task[l.task].pc = "wait" =>
          [task[l.task] EXCEPT !.pc = "answered", !.ok = l.kind = "ok"] \in Command
    <3>1. task[l.task] \in Command
      BY <2>1 DEF TypeOK
    <3>2. \A b \in BOOLEAN : task[l.task].pc = "wait" =>
            [task[l.task] EXCEPT !.pc = "answered", !.ok = b] \in Command
      BY <3>1 DEF Command
    <3>3. (l.kind = "ok") \in BOOLEAN
      OBVIOUS
    <3> QED
      BY <3>2, <3>3
  <2> QED
    BY <1>1, <1>r, <2>1, <2>2 DEF ReadAnswer, Unmoved, TypeOK
<1>2. CASE ReadStatus(p)
  BY <1>2, <1>r DEF ReadStatus, Unmoved, TypeOK
<1>3. CASE ReadToken(p)
  <2>1. tag' \in [Process -> {"none", "qr", "key"}]
    BY <1>3 DEF ReadToken, TypeOK
  <2> QED
    BY <1>3, <1>r, <2>1, LivesType DEF ReadToken, Unmoved, TypeOK
<1>4. CASE Eof(p)
  <2>1. ASSUME NEW t \in Task, task[t].pc = "wait"
        PROVE  [task[t] EXCEPT !.pc = "answered"] \in Command
    <3>1. task[t] \in Command
      BY DEF TypeOK
    <3> QED
      BY <2>1, <3>1 DEF Command
  <2> QED
    BY <1>4, <2>1 DEF Eof, Unmoved, TypeOK
<1> QED
  BY <1>1, <1>2, <1>3, <1>4 DEF Reader

LEMMA KillsType ==
  ASSUME TypeOK, KillAll \/ KillByName \/ \E p \in Process : CancelQr(p)
  PROVE  TypeOK'
BY LivesType DEF KillAll, KillByName, CancelQr, TypeOK

LEMMA TypeStep == TypeOK /\ [Next]_vars => TypeOK'
<1> SUFFICES ASSUME TypeOK, [Next]_vars PROVE TypeOK'
  OBVIOUS
<1>1. ASSUME NEW t \in Task, Issue(t) \/ Continue(t) \/ Timeout(t) PROVE TypeOK'
  BY <1>1, IssueType, ContinueType
<1>2. ASSUME NEW p \in Process, Daemon(p) \/ Reader(p) \/ CancelQr(p) PROVE TypeOK'
  BY <1>2, DaemonType, ReaderType, KillsType
<1>3. CASE KillAll \/ KillByName
  BY <1>3, KillsType
<1>4. CASE UNCHANGED vars
  BY <1>4 DEF vars, TypeOK
<1> QED
  BY <1>1, <1>2, <1>3, <1>4 DEF Next

(* Every reachable state of an account's sessions is well typed, whatever  *)
(* overlaps, fails or dies.                                                *)
THEOREM TypeCorrect == Spec => []TypeOK
BY InitType, TypeStep, PTL DEF Spec

-----------------------------------------------------------------------------
(* The invariant holds at the start, and each step keeps it. *)
Rest ==
  Fresh /\ OwnProcess /\ QrApart /\ PendingTagged /\ LockHeld /\ TagsMatch /\ NoStray

LEMMA InitInv == Init => SInv
<1> SUFFICES ASSUME Init PROVE SInv
  OBVIOUS
<1>1. \A t \in Task : task[t].pc = "new" /\ task[t].kind = None /\ task[t].target = None
  BY DEF Init
<1>2. Fresh
  BY <1>1, SessionsAssumption DEF Init, Fresh, Process
<1>3. OwnProcess
  BY <1>1 DEF Init, OwnProcess, Busy, Process
<1>4. QrApart /\ LockHeld
  BY <1>1 DEF QrApart, LockHeld, Busy
<1>5. PendingTagged /\ TagsMatch /\ NoStray
  BY DEF Init, PendingTagged, TagsMatch, NoStray, Running, Process
<1> QED
  BY <1>2, <1>3, <1>4, <1>5, InitType DEF SInv

(* What is alive after kills and births was alive, or is born. *)
LEMMA LivesEffect ==
  ASSUME TypeOK, NEW killed, NEW born, Lives(killed, born), NEW p \in Process
  PROVE  /\ Running(p)' => p \notin killed /\ (p \in born \/ Running(p))
         /\ p \notin killed \cup born => life'[p] = life[p]
         /\ handling'[p] \subseteq handling[p]
BY DEF Lives, Running, TypeOK

(* Only command t moves. *)
Moves(t) == \A u \in Task : u # t => task'[u] = task[u]

LEMMA BeginEffect ==
  ASSUME TypeOK, NEW t \in Task, NEW kind, NEW pc, NEW target, Begin(t, kind, pc, target)
  PROVE  /\ Moves(t) /\ task[t].pc = "new"
         /\ task'[t].pc = pc /\ task'[t].kind = kind /\ task'[t].target = target
BY DEF Begin, TypeOK, Moves

LEMMA StepEffect ==
  ASSUME TypeOK, NEW t \in Task, NEW from, NEW to, Step(t, from, to)
  PROVE  /\ Moves(t) /\ task[t].pc = from
         /\ task'[t].pc = to /\ task'[t].kind = task[t].kind
         /\ task'[t].target = task[t].target
<1>1. task[t] \in Command
  BY DEF TypeOK
<1> QED
  BY <1>1 DEF Step, TypeOK, Moves, Command

LEMMA HeldMoves ==
  ASSUME NEW t \in Task, Moves(t), NEW p \in Process, Held(p),
         \/ ~Busy(t)
         \/ /\ Busy(t)' /\ task'[t].kind = task[t].kind
            /\ task'[t].target = task[t].target
  PROVE  Held(p)'
<1>1. PICK u \in Task :
        /\ task[u].target = p /\ task[u].pc \in {"send", "wait", "answered"}
        /\ task[u].kind = "logout" \/ task[u].kind = "qr"
  BY DEF Held
<1>2. CASE u # t
  BY <1>1, <1>2 DEF Held, Moves
<1>3. CASE u = t
  BY <1>1, <1>3 DEF Held, Busy
<1> QED
  BY <1>2, <1>3

LEMMA LoginKeeps ==
  ASSUME SInv, NEW t \in Task, Login(t)
  PROVE  Rest'
<1> USE DEF SInv, Process
<1>1. /\ Moves(t) /\ task[t].pc = "new"
      /\ task'[t].pc = "send" /\ task'[t].kind = "login" /\ task'[t].target = t
  BY BeginEffect DEF Login
<1>2. \A p \in Process :
        /\ Running(p)' => p \notin Current /\ (p = t \/ Running(p))
        /\ p \notin Current \cup {t} => life'[p] = life[p]
        /\ handling'[p] \subseteq handling[p]
  BY LivesEffect DEF Login
<1>3. /\ sessions' = t /\ tag' = [tag EXCEPT ![t] = "key"]
      /\ UNCHANGED <<pendingQr, out, lock>>
  BY DEF Login
<1>4. /\ life[t] = "unborn" /\ t \notin pendingQr /\ t # sessions
      /\ \A p \in Process : t \notin handling[p]
  BY <1>1 DEF Fresh
<1>5. Fresh'
  BY <1>1, <1>2, <1>3 DEF Fresh, Moves, Current, NoStray, Running
<1>6. OwnProcess'
  BY <1>1, <1>2, <1>4 DEF OwnProcess, Moves, Busy
<1>7. QrApart'
  BY <1>1, <1>3 DEF QrApart, Moves, Busy, TypeOK
<1>8. PendingTagged' /\ TagsMatch'
  BY <1>1, <1>3, <1>4 DEF PendingTagged, TagsMatch, Moves, TypeOK
<1>9. LockHeld'
  BY <1>1, <1>3 DEF LockHeld, Moves, Busy
<1>10. NoStray'
  <2> SUFFICES ASSUME NEW p \in Process, Running(p)', p # t
               PROVE  p \in pendingQr \/ Held(p)'
    BY <1>3 DEF NoStray
  <2>1. Running(p) /\ p \notin Current
    BY <1>2
  <2>2. p \in pendingQr \/ Held(p)
    BY <2>1, SessionsAssumption DEF NoStray, Current
  <2> QED
    BY <1>1, <2>2, HeldMoves DEF Busy
<1> QED
  BY <1>5, <1>6, <1>7, <1>8, <1>9, <1>10 DEF Rest

LEMMA LoginFailsKeeps ==
  ASSUME SInv, NEW t \in Task, LoginFails(t)
  PROVE  Rest'
<1> USE DEF SInv, Process
<1>1. /\ Moves(t) /\ task[t].pc = "new"
      /\ task'[t].pc = "done" /\ task'[t].kind = "login"
      /\ task'[t].target = task[t].target
  <2>1. task[t] \in Command
    BY DEF TypeOK
  <2> QED
    BY <2>1 DEF LoginFails, Moves, TypeOK, Command
<1>2. \A p \in Process :
        /\ Running(p)' => p \notin Current /\ Running(p)
        /\ p \notin Current => life'[p] = life[p]
        /\ handling'[p] \subseteq handling[p]
  BY LivesEffect DEF LoginFails
<1>3. sessions' = None /\ UNCHANGED <<pendingQr, out, lock, tag>>
  BY DEF LoginFails
<1>4. /\ task[t].kind = None /\ \A p \in Process : t \notin handling[p]
  BY <1>1 DEF Fresh, TypeOK, Command
<1>5. Fresh'
  BY <1>1, <1>2, <1>3, SessionsAssumption DEF Fresh, Moves, Current
<1>6. OwnProcess'
  BY <1>1, <1>2, <1>4 DEF OwnProcess, Moves, Busy
<1>7. QrApart'
  BY <1>1, <1>3, SessionsAssumption DEF QrApart, Moves, Busy, TypeOK
<1>8. PendingTagged' /\ TagsMatch'
  BY <1>1, <1>3 DEF Fresh, PendingTagged, TagsMatch, Moves, TypeOK
<1>9. LockHeld'
  BY <1>1, <1>3 DEF LockHeld, Moves, Busy
<1>10. NoStray'
  <2> SUFFICES ASSUME NEW p \in Process, Running(p)'
               PROVE  p \in pendingQr \/ Held(p)'
    BY <1>3 DEF NoStray
  <2>1. p \in pendingQr \/ Held(p)
    BY <1>2, SessionsAssumption DEF NoStray, Current
  <2> QED
    BY <1>1, <2>1, HeldMoves DEF Busy
<1> QED
  BY <1>5, <1>6, <1>7, <1>8, <1>9, <1>10 DEF Rest

LEMMA BeginQrKeeps ==
  ASSUME SInv, NEW t \in Task, BeginQr(t)
  PROVE  Rest'
<1> USE DEF SInv, Process
<1>1. /\ Moves(t) /\ task[t].pc = "new"
      /\ task'[t].pc = "send" /\ task'[t].kind = "qr" /\ task'[t].target = t
  BY BeginEffect DEF BeginQr
<1>2. \A p \in Process :
        /\ Running(p)' => p = t \/ Running(p)
        /\ p # t => life'[p] = life[p]
        /\ handling'[p] \subseteq handling[p]
  BY LivesEffect DEF BeginQr
<1>3. /\ tag' = [tag EXCEPT ![t] = "qr"]
      /\ UNCHANGED <<sessions, pendingQr, out, lock>>
  BY DEF BeginQr
<1>4. /\ out[t] = << >> /\ t \notin pendingQr /\ t # sessions
      /\ \A p \in Process : t \notin handling[p]
  BY <1>1 DEF Fresh
<1>5. Fresh'
  BY <1>1, <1>2, <1>3 DEF Fresh, Moves
<1>6. OwnProcess'
  BY <1>1, <1>2, <1>4 DEF OwnProcess, Moves, Busy
<1>7. QrApart'
  <2>1. out[t] \in Seq(Plain)
    BY <1>4, EmptySeq
  <2> QED
    BY <1>1, <1>3, <1>4, <2>1 DEF QrApart, Moves, Busy, TypeOK
<1>8. PendingTagged' /\ TagsMatch'
  BY <1>1, <1>3, <1>4 DEF PendingTagged, TagsMatch, Moves, TypeOK
<1>9. LockHeld'
  BY <1>1, <1>3 DEF LockHeld, Moves, Busy
<1>10. NoStray'
  <2> SUFFICES ASSUME NEW p \in Process, Running(p)'
               PROVE  p = sessions \/ p \in pendingQr \/ Held(p)'
    BY <1>3 DEF NoStray
  <2>1. CASE p = t
    BY <1>1, <2>1 DEF Held
  <2>2. CASE p # t
    BY <1>1, <1>2, <2>2, HeldMoves DEF NoStray, Busy
  <2> QED
    BY <2>1, <2>2
<1> QED
  BY <1>5, <1>6, <1>7, <1>8, <1>9, <1>10 DEF Rest

(* Commands that find a session, and resumes, only move; a sign-out takes  *)
(* the session with it.                                                    *)
LEMMA ExistingKeeps ==
  ASSUME SInv, NEW t \in Task, Logout(t) \/ Use(t) \/ Resume(t)
  PROVE  Rest'
<1> USE DEF SInv, Process
<1>1. /\ Moves(t) /\ task[t].pc = "new"
      /\ \/ /\ task'[t].pc = "send" /\ task'[t].kind \in {"logout", "use"}
            /\ task'[t].target = sessions /\ sessions # None
         \/ /\ task'[t].pc = "queued" /\ task'[t].kind = "resume"
            /\ task'[t].target = None
      /\ sessions' = IF task'[t].kind = "logout" THEN None ELSE sessions
  BY BeginEffect DEF Logout, Use, Resume
<1>2. UNCHANGED <<pendingQr, life, handling, out, lock, tag>>
  BY DEF Logout, Use, Resume, Unmoved
<1>4. /\ t \notin pendingQr /\ t # sessions
      /\ \A p \in Process : t \notin handling[p]
  BY <1>1 DEF Fresh
<1>5. Fresh'
  BY <1>1, <1>2, SessionsAssumption DEF Fresh, Moves
<1>6. OwnProcess'
  BY <1>1, <1>2, <1>4 DEF OwnProcess, Moves, Busy
<1>7. QrApart'
  BY <1>1, <1>2, SessionsAssumption DEF QrApart, Moves, Busy
<1>8. PendingTagged' /\ TagsMatch'
  <2>1. pendingQr \subseteq Task
    BY DEF TypeOK
  <2>2. PendingTagged'
    BY <1>1, <1>2, <1>4, <2>1 DEF PendingTagged, Moves
  <2>3. TagsMatch'
    BY <1>1, <1>2 DEF TagsMatch
  <2> QED
    BY <2>2, <2>3
<1>9. LockHeld'
  BY <1>1, <1>2 DEF LockHeld, Moves, Busy
<1>10. NoStray'
  <2> SUFFICES ASSUME NEW p \in Process, Running(p)
               PROVE  p = sessions' \/ p \in pendingQr \/ Held(p)'
    BY <1>2 DEF NoStray, Running
  <2>1. CASE p = sessions
    BY <1>1, <2>1 DEF Held
  <2>2. CASE p # sessions
    BY <1>1, <2>2, HeldMoves DEF NoStray, Busy
  <2> QED
    BY <2>1, <2>2
<1> QED
  BY <1>5, <1>6, <1>7, <1>8, <1>9, <1>10 DEF Rest

(* The steps that only move a command, and take or give back the lock. *)
LEMMA StepKeeps ==
  ASSUME SInv, NEW t \in Task,
         ResumeLock(t) \/ ResumeCheck(t) \/ ResumeFails(t) \/ Timeout(t)
  PROVE  Rest'
<1> USE DEF SInv, Process
<1>1. /\ Moves(t) /\ task'[t].kind = task[t].kind /\ task'[t].target = task[t].target
      /\ task[t].pc # "new" /\ task'[t].pc # "new"
      /\ \/ task[t].pc = "queued" /\ task'[t].pc = "check" /\ lock = None /\ lock' = t
         \/ task[t].pc = "check" /\ task'[t].pc = "spawn" /\ lock' = lock
         \/ task[t].pc \in {"check", "spawn"} /\ task'[t].pc = "done" /\ lock' = None
         \/ task[t].pc = "wait" /\ task'[t].pc = "answered" /\ lock' = lock
  BY StepEffect DEF ResumeLock, ResumeCheck, ResumeFails, Timeout
<1>2. UNCHANGED <<sessions, pendingQr, life, handling, out, tag>>
  BY DEF ResumeLock, ResumeCheck, ResumeFails, Timeout, Unmoved
<1>3. task[t].pc \in {"queued", "check", "spawn"} => task[t].kind = "resume"
  <2>1. task[t] \in Command
    BY DEF TypeOK
  <2> QED
    BY <2>1 DEF Command
<1>5. Fresh'
  BY <1>1, <1>2 DEF Fresh, Moves
<1>6. OwnProcess'
  BY <1>1, <1>2, <1>3 DEF OwnProcess, Moves, Busy
<1>7. QrApart'
  BY <1>1, <1>2, <1>3 DEF QrApart, Moves, Busy
<1>8. PendingTagged' /\ TagsMatch'
  <2>1. pendingQr \subseteq Task
    BY DEF TypeOK
  <2>2. PendingTagged'
    BY <1>1, <1>2, <2>1 DEF PendingTagged, Moves
  <2>3. TagsMatch'
    BY <1>2 DEF TagsMatch
  <2> QED
    BY <2>2, <2>3
<1>9. LockHeld'
  BY <1>1, <1>3, SessionsAssumption DEF LockHeld, Moves, Busy
<1>10. NoStray'
  <2>1. ASSUME NEW p \in Process, Held(p) PROVE Held(p)'
    BY <1>1, <2>1, HeldMoves DEF Busy
  <2> QED
    BY <1>2, <2>1 DEF NoStray, Running
<1> QED
  BY <1>5, <1>6, <1>7, <1>8, <1>9, <1>10 DEF Rest

LEMMA ResumeSpawnKeeps ==
  ASSUME SInv, NEW t \in Task, ResumeSpawn(t)
  PROVE  Rest'
<1> USE DEF SInv, Process
<1>0. task[t] \in Command
  BY DEF TypeOK
<1>1. /\ Moves(t) /\ task[t].pc = "spawn" /\ task[t].kind = "resume"
      /\ task'[t].pc = "send" /\ task'[t].kind = "resume" /\ task'[t].target = sessions'
      /\ sessions' # None /\ sessions' \in {sessions, t}
  <2>1. task[t].pc = "spawn" /\ task[t].kind = "resume"
    BY <1>0 DEF ResumeSpawn, Command
  <2>2. PICK target \in {sessions, t} :
          /\ task' = [task EXCEPT ![t] = [@ EXCEPT !.pc = "send", !.target = target]]
          /\ sessions' = target /\ target # None
    BY SessionsAssumption DEF ResumeSpawn
  <2> QED
    BY <1>0, <2>1, <2>2 DEF Moves, TypeOK, Command
<1>2. /\ UNCHANGED <<pendingQr, out, lock>>
      /\ \/ sessions' = sessions /\ UNCHANGED <<life, handling, tag>>
         \/ /\ sessions = None /\ sessions' = t /\ Lives({}, {t})
            /\ tag' = [tag EXCEPT ![t] = "key"]
  BY DEF ResumeSpawn, Unmoved
<1>3. \A p \in Process :
        /\ Running(p)' => p = sessions' \/ Running(p)
        /\ p # t => life'[p] = life[p]
        /\ handling'[p] \subseteq handling[p]
  <2>1. CASE UNCHANGED <<life, handling>>
    BY <2>1 DEF Running
  <2>2. CASE Lives({}, {t}) /\ sessions' = t
    BY <2>2, LivesEffect
  <2> QED
    BY <1>2, <2>1, <2>2
<1>5. Fresh'
  BY <1>1, <1>2, <1>3 DEF Fresh, Moves
<1>6. OwnProcess'
  BY <1>1, <1>3 DEF OwnProcess, Moves, Busy
<1>7. QrApart'
  <2> SUFFICES ASSUME NEW u \in Task, Busy(u)', task'[u].kind = "qr"
               PROVE  u # sessions' /\ tag'[u] = "qr" /\ out'[u] \in Seq(Plain)
    BY DEF QrApart
  <2>1. u # t /\ u # sessions /\ tag[u] = "qr" /\ out[u] \in Seq(Plain)
    BY <1>1 DEF QrApart, Moves, Busy
  <2> QED
    BY <1>1, <1>2, <2>1 DEF TypeOK
<1>8. PendingTagged' /\ TagsMatch'
  <2>1. t \notin pendingQr
    BY <1>1 DEF PendingTagged
  <2>2. CASE sessions' = sessions /\ tag' = tag
    <3>1. pendingQr \subseteq Task
      BY DEF TypeOK
    <3>2. PendingTagged'
      BY <1>1, <1>2, <2>1, <2>2, <3>1 DEF PendingTagged, Moves
    <3>3. TagsMatch'
      BY <1>2, <2>2 DEF TagsMatch
    <3> QED
      BY <3>2, <3>3
  <2>3. CASE sessions' = t /\ tag' = [tag EXCEPT ![t] = "key"]
    BY <1>1, <1>2, <2>1, <2>3 DEF PendingTagged, TagsMatch, Moves, TypeOK
  <2> QED
    BY <1>2, <2>2, <2>3
<1>9. LockHeld'
  BY <1>1, <1>2 DEF LockHeld, Moves, Busy
<1>10. NoStray'
  <2>1. ASSUME NEW p \in Process, Held(p) PROVE Held(p)'
    BY <1>1, <2>1, HeldMoves DEF Busy
  <2> QED
    BY <1>1, <1>2, <1>3, <2>1, SessionsAssumption DEF NoStray
<1> QED
  BY <1>5, <1>6, <1>7, <1>8, <1>9, <1>10 DEF Rest

LEMMA SendKeeps ==
  ASSUME SInv, NEW t \in Task, Send(t)
  PROVE  Rest'
<1> USE DEF SInv, Process
<1>0. task[t] \in Command
  BY DEF TypeOK
<1>1. /\ Moves(t) /\ task[t].pc = "send" /\ task'[t].pc \in {"wait", "answered"}
      /\ task'[t].kind = task[t].kind /\ task'[t].target = task[t].target
  <2>1. task[t].pc = "send"
    BY DEF Send
  <2>2. PICK pc \in {"wait", "answered"} : task' = [task EXCEPT ![t].pc = pc]
    BY DEF Send
  <2> QED
    BY <1>0, <2>1, <2>2 DEF Moves, TypeOK, Command
<1>2. /\ UNCHANGED <<sessions, pendingQr, life, out, lock, tag>>
      /\ handling' \in {handling, [handling EXCEPT ![task[t].target] = @ \cup {t}]}
  BY DEF Send
<1>3. \A u \in Task, p \in Process :
        u \in handling'[p] => u \in handling[p] \/ (u = t /\ p = task[t].target)
  BY <1>2 DEF TypeOK
<1>5. Fresh'
  BY <1>1, <1>2, <1>3 DEF Fresh, Moves
<1>6. OwnProcess'
  BY <1>1, <1>3 DEF OwnProcess, Moves, Busy
<1>7. QrApart'
  BY <1>1, <1>2 DEF QrApart, Moves, Busy
<1>8. PendingTagged' /\ TagsMatch'
  <2>1. pendingQr \subseteq Task
    BY DEF TypeOK
  <2>2. PendingTagged'
    BY <1>1, <1>2, <2>1 DEF PendingTagged, Moves
  <2>3. TagsMatch'
    BY <1>2 DEF TagsMatch
  <2> QED
    BY <2>2, <2>3
<1>9. LockHeld'
  BY <1>1, <1>2 DEF LockHeld, Moves, Busy
<1>10. NoStray'
  <2>1. ASSUME NEW p \in Process, Held(p) PROVE Held(p)'
    BY <1>1, <2>1, HeldMoves DEF Busy
  <2> QED
    BY <1>2, <2>1 DEF NoStray, Running
<1> QED
  BY <1>5, <1>6, <1>7, <1>8, <1>9, <1>10 DEF Rest

LEMMA FinishKeeps ==
  ASSUME SInv, NEW t \in Task, Finish(t)
  PROVE  Rest'
<1> USE DEF SInv, Process
<1> DEFINE killed == IF task[t].kind = "logout" \/ (task[t].kind = "qr" /\ ~task[t].ok)
                       THEN {task[t].target} ELSE {}
<1>0. task[t] \in Command /\ pendingQr \subseteq Task
  BY DEF TypeOK
<1>1. /\ Moves(t) /\ task[t].pc = "answered" /\ task'[t].pc = "done"
      /\ task'[t].kind = task[t].kind /\ task'[t].target = None
  BY <1>0 DEF Finish, Moves, TypeOK, Command
<1>2. /\ UNCHANGED <<sessions, out, tag>>
      /\ lock' = IF task[t].kind = "resume" THEN None ELSE lock
      /\ pendingQr' = IF task[t].kind = "qr" /\ task[t].ok
                        THEN pendingQr \cup {t} ELSE pendingQr
  BY DEF Finish
<1>3. \A p \in Process :
        /\ Running(p)' => p \notin killed /\ Running(p)
        /\ p \notin killed => life'[p] = life[p]
        /\ handling'[p] \subseteq handling[p]
  <2>1. Lives(killed, {})
    BY DEF Finish
  <2> QED
    BY <2>1, LivesEffect
<1>4. task[t].kind = "qr" => task[t].target = t /\ t # sessions /\ tag[t] = "qr"
  BY <1>1 DEF OwnProcess, QrApart, Busy
<1>5. Fresh'
  <2> SUFFICES ASSUME NEW u \in Task, task'[u].pc = "new"
               PROVE  /\ life'[u] = "unborn" /\ out'[u] = << >> /\ u # sessions'
                      /\ u \notin pendingQr' /\ \A p \in Process : u \notin handling'[p]
                      /\ \A v \in Task : task'[v].target # u
    BY DEF Fresh
  <2>1. u # t /\ task[u].pc = "new"
    BY <1>1 DEF Moves
  <2>2. /\ life[u] = "unborn" /\ out[u] = << >> /\ u # sessions /\ u \notin pendingQr
        /\ \A p \in Process : u \notin handling[p]
        /\ \A v \in Task : task[v].target # u
    BY <2>1 DEF Fresh
  <2>3. u \notin killed
    BY <2>2
  <2> QED
    BY <1>1, <1>2, <1>3, <2>1, <2>2, <2>3, SessionsAssumption DEF Moves
<1>6. OwnProcess'
  BY <1>1, <1>3 DEF OwnProcess, Moves, Busy
<1>7. QrApart'
  BY <1>1, <1>2 DEF QrApart, Moves, Busy
<1>8. PendingTagged'
  BY <1>0, <1>1, <1>2, <1>4 DEF PendingTagged, Moves
<1>9. TagsMatch'
  BY <1>2, <1>4 DEF TagsMatch
<1>10. LockHeld'
  BY <1>1, <1>2 DEF LockHeld, Moves, Busy
<1>11. NoStray'
  <2> SUFFICES ASSUME NEW p \in Process, Running(p)', p # sessions, p \notin pendingQr'
               PROVE  Held(p)'
    BY <1>2 DEF NoStray
  <2>1. Running(p) /\ p \notin killed /\ p \notin pendingQr
    BY <1>2, <1>3
  <2>2. PICK u \in Task :
          /\ task[u].target = p /\ task[u].pc \in {"send", "wait", "answered"}
          /\ task[u].kind = "logout" \/ task[u].kind = "qr"
    BY <2>1 DEF NoStray, Held
  <2>3. u # t
    BY <1>2, <1>4, <2>1, <2>2
  <2> QED
    BY <1>1, <2>2, <2>3 DEF Held, Moves
<1> QED
  BY <1>5, <1>6, <1>7, <1>8, <1>9, <1>10, <1>11 DEF Rest

(* Nothing but lines and the daemon's own state changes: a daemon that     *)
(* lives wrote or died, or its reader took a line.                         *)
LEMMA PipeKeeps ==
  ASSUME SInv, NEW p \in Process, UNCHANGED <<sessions, pendingQr, tag, lock, task>>,
         \A q \in Process :
           /\ q # p => out'[q] = out[q] /\ life'[q] = life[q]
           /\ handling'[q] \subseteq handling[q]
           /\ Running(q)' => Running(q),
         life[p] # "unborn",
         Busy(p) /\ task[p].kind = "qr" /\ out[p] \in Seq(Plain) => out'[p] \in Seq(Plain)
  PROVE  Rest'
<1> USE DEF SInv, Process
<1>1. Fresh'
  BY DEF Fresh
<1>2. OwnProcess'
  BY DEF OwnProcess, Busy
<1>3. QrApart'
  BY DEF QrApart, Busy
<1>4. PendingTagged' /\ TagsMatch' /\ LockHeld'
  BY DEF PendingTagged, TagsMatch, LockHeld, Busy
<1>5. NoStray'
  BY DEF NoStray, Held
<1> QED
  BY <1>1, <1>2, <1>3, <1>4, <1>5 DEF Rest

LEMMA WritesKeep ==
  ASSUME SInv, NEW p \in Process, NEW lines \in Seq(Line), Writes(p, lines),
         UNCHANGED <<sessions, pendingQr, life, tag, lock, task>>,
         \A q \in Process : handling'[q] \subseteq handling[q],
         Busy(p) /\ task[p].kind = "qr" => lines \in Seq(Plain)
  PROVE  Rest'
<1> USE DEF SInv
<1>1. Running(p) /\ out' = [out EXCEPT ![p] = @ \o lines]
  BY DEF Writes
<1>2. Busy(p) /\ task[p].kind = "qr" /\ out[p] \in Seq(Plain) => out'[p] \in Seq(Plain)
  BY <1>1, ConcatProperties DEF TypeOK
<1>3. \A q \in Process : q # p => out'[q] = out[q]
  BY <1>1 DEF TypeOK
<1>4. \A q \in Process : Running(q)' => Running(q)
  BY DEF Running
<1> QED
  BY <1>1, <1>2, <1>3, <1>4, PipeKeeps DEF Running

LEMMA DaemonKeeps ==
  ASSUME SInv, NEW p \in Process, Daemon(p)
  PROVE  Rest'
<1> USE DEF SInv
<1>l. Seq(Plain) \subseteq Seq(Line)
  BY SeqMonotonic, LineType
<1>a. ASSUME NEW t \in Task, NEW b, NEW lines \in Seq(Line), Answers(p, t, b, lines),
             lines \in Seq(Plain) \/ task[t].kind = "login"
      PROVE  Rest'
  <2>1. \A q \in Process : handling'[q] \subseteq handling[q]
    BY <1>a DEF Answers, TypeOK
  <2>2. Busy(p) /\ task[p].kind = "qr" => lines \in Seq(Plain)
    BY <1>a DEF Answers, OwnProcess
  <2> QED
    BY <1>a, <2>1, <2>2, WritesKeep DEF Answers
<1>r. ASSUME NEW b, NEW lines \in Seq(Line), Reports(p, b, lines),
             lines \in Seq(Plain) \/ task[p].pc = "done"
      PROVE  Rest'
  <2>1. \A q \in Process : handling'[q] \subseteq handling[q]
    BY <1>r DEF Reports
  <2>2. Busy(p) /\ task[p].kind = "qr" => lines \in Seq(Plain)
    BY <1>r DEF Busy
  <2> QED
    BY <1>r, <2>1, <2>2, WritesKeep DEF Reports
<1>1. ASSUME NEW t \in Task, Refuse(p, t) PROVE Rest'
  BY <1>1, <1>a, <1>l, RefuseShape
<1>2. ASSUME NEW t \in Task, Grant(p, t) PROVE Rest'
  BY <1>2, <1>a, GrantShape
<1>3. CASE Authenticated(p)
  BY <1>3, <1>r, AuthenticatedShape
<1>4. CASE Connection(p)
  BY <1>4, <1>r, <1>l, ConnectionShape
<1>5. CASE Crash(p)
  <2>1. PICK n \in 0..Len(out[p]) : out' = [out EXCEPT ![p] = SubSeq(@, 1, n)]
    BY <1>5 DEF Crash
  <2>2. out[p] \in Seq(Plain) => SubSeq(out[p], 1, n) \in Seq(Plain)
    BY <2>1, SubSeqProperties
  <2>3. \A q \in Process :
          /\ Running(q)' => Running(q)
          /\ q # p => life'[q] = life[q]
          /\ handling'[q] \subseteq handling[q]
    BY <1>5, LivesEffect DEF Crash
  <2>4. /\ \A q \in Process : q # p => out'[q] = out[q]
        /\ out'[p] = SubSeq(out[p], 1, n)
    BY <2>1 DEF TypeOK
  <2>5. life[p] # "unborn" /\ UNCHANGED <<sessions, pendingQr, tag, lock, task>>
    BY <1>5 DEF Crash, Running
  <2> QED
    BY <2>2, <2>3, <2>4, <2>5, PipeKeeps
<1> QED
  BY <1>1, <1>2, <1>3, <1>4, <1>5 DEF Daemon

LEMMA ReadsEffect ==
  ASSUME TypeOK, NEW p \in Process, NEW kinds, Reads(p, kinds)
  PROVE  /\ \A q \in Process : q # p => out'[q] = out[q]
         /\ out[p] # << >> /\ Head(out[p]) \in Line /\ Head(out[p]).kind \in kinds
         /\ out[p] \in Seq(Plain) => out'[p] \in Seq(Plain) /\ Head(out[p]) \in Plain
<1>1. out[p] # << >> /\ Head(out[p]).kind \in kinds /\ out' = [out EXCEPT ![p] = Tail(@)]
  BY DEF Reads
<1>2. out[p] \in Seq(Line)
  BY DEF TypeOK
<1>3. Head(out[p]) \in Line
  BY <1>1, <1>2, HeadTailProperties
<1>4. out[p] \in Seq(Plain) => Tail(out[p]) \in Seq(Plain) /\ Head(out[p]) \in Plain
  BY <1>1, HeadTailProperties
<1> QED
  BY <1>1, <1>3, <1>4 DEF TypeOK

(* Answers, states and the end of a stream: commands that wait may go on. *)
LEMMA AnswersKeep ==
  ASSUME SInv, NEW p \in Process, ReadAnswer(p) \/ ReadStatus(p) \/ Eof(p)
  PROVE  Rest'
<1> USE DEF SInv, Process
<1>1. \A t \in Task :
        /\ task'[t].kind = task[t].kind /\ task'[t].target = task[t].target
        /\ \/ task'[t].pc = task[t].pc
           \/ task[t].pc = "wait" /\ task'[t].pc = "answered"
  <2>0. \A t \in Task : task[t] \in Command
    BY DEF TypeOK
  <2>1. CASE ReadStatus(p)
    BY <2>1 DEF ReadStatus
  <2>2. CASE Eof(p)
    BY <2>2, <2>0 DEF Eof, Command
  <2>3. CASE ReadAnswer(p)
    <3>1. CASE task' = task
      BY <3>1
    <3>2. CASE task' # task
      <4> DEFINE u == Head(out[p]).task
      <4>1. u \in Task
        BY <2>3, ReadsEffect DEF ReadAnswer, Line
      <4>2. PICK ok : task[u].pc = "wait" /\ task' = [task EXCEPT ![u] =
                                             [@ EXCEPT !.pc = "answered", !.ok = ok]]
        BY <2>3, <3>2 DEF ReadAnswer
      <4> QED
        BY <2>0, <4>1, <4>2 DEF TypeOK, Command
    <3> QED
      BY <3>1, <3>2
  <2> QED
    BY <2>1, <2>2, <2>3
<1>2. UNCHANGED <<sessions, pendingQr, life, handling, tag, lock>>
  BY DEF ReadAnswer, ReadStatus, Eof, Unmoved
<1>3. \A q \in Process :
        /\ out[q] = << >> => out'[q] = << >>
        /\ out[q] \in Seq(Plain) => out'[q] \in Seq(Plain)
  <2>1. CASE Eof(p)
    BY <2>1 DEF Eof
  <2>2. CASE \E kinds : Reads(p, kinds)
    BY <2>2, ReadsEffect
  <2> QED
    BY <2>1, <2>2 DEF ReadAnswer, ReadStatus
<1>4. \A t \in Task : (Busy(t)' <=> Busy(t)) /\ (task'[t].pc = "new" <=> task[t].pc = "new")
  BY <1>1 DEF Busy
<1>5. Fresh'
  BY <1>1, <1>2, <1>3, <1>4 DEF Fresh
<1>6. OwnProcess'
  BY <1>1, <1>2, <1>4 DEF OwnProcess
<1>7. QrApart'
  BY <1>1, <1>2, <1>3, <1>4 DEF QrApart
<1>8. PendingTagged' /\ TagsMatch'
  <2>1. pendingQr \subseteq Task
    BY DEF TypeOK
  <2> QED
    BY <1>1, <1>2, <2>1 DEF PendingTagged, TagsMatch
<1>9. LockHeld'
  <2>1. \A t \in Task : task'[t].pc \in {"check", "spawn"} => task'[t].pc = task[t].pc
    BY <1>1
  <2> QED
    BY <1>1, <1>2, <1>4, <2>1 DEF LockHeld
<1>10. NoStray'
  <2>1. ASSUME NEW q \in Process, Held(q) PROVE Held(q)'
    BY <1>1, <2>1 DEF Held
  <2> QED
    BY <1>2, <2>1 DEF NoStray, Running
<1> QED
  BY <1>5, <1>6, <1>7, <1>8, <1>9, <1>10 DEF Rest

(* A new refresh token: a QR daemon that waits for its scan takes the      *)
(* place of the session, which is killed.                                  *)
LEMMA TokenKeeps ==
  ASSUME SInv, NEW p \in Process, ReadToken(p)
  PROVE  Rest'
<1> USE DEF SInv, Process
<1>1. ~(Busy(p) /\ task[p].kind = "qr")
  <2>1. Reads(p, {"token"})
    BY DEF ReadToken
  <2>2. out[p] # << >> /\ Head(out[p]).kind = "token"
    BY <2>1 DEF Reads
  <2>3. out[p] \in Seq(Plain) => Head(out[p]) \in Plain
    BY <2>2
  <2>4. out[p] \notin Seq(Plain)
    BY <2>2, <2>3 DEF Plain
  <2> QED
    BY <2>4 DEF QrApart
<1>2. /\ UNCHANGED <<lock, task>>
      /\ \A q \in Process : q # p => out'[q] = out[q]
      /\ out[p] # << >>
  BY ReadsEffect DEF ReadToken
<1>3. CASE UNCHANGED <<sessions, pendingQr, tag>> /\ Unmoved
  <2>1. \A q \in Process : out[q] \in Seq(Plain) => out'[q] \in Seq(Plain)
    BY <1>2, ReadsEffect DEF ReadToken
  <2>2. Fresh'
    BY <1>2, <1>3 DEF Fresh, Unmoved
  <2>3. QrApart'
    BY <1>2, <1>3, <2>1 DEF QrApart, Busy
  <2> QED
    BY <1>2, <1>3, <2>2, <2>3 DEF Rest, OwnProcess, PendingTagged, LockHeld, TagsMatch,
                                  NoStray, Unmoved, Running, Held, Busy
<1>4. ASSUME tag[p] = "qr", tag' = [tag EXCEPT ![p] = "key"]
      PROVE  Rest'
  <2>0. tag' # tag
    BY <1>4 DEF TypeOK
  <2>1. \/ /\ p \in pendingQr /\ pendingQr' = pendingQr \ {p} /\ sessions' = p
           /\ Lives(Current, {})
        \/ p \notin pendingQr /\ UNCHANGED <<sessions, pendingQr>> /\ Unmoved
    BY <2>0 DEF ReadToken
  <2>2. /\ \A q \in Process :
              /\ Running(q)' => Running(q) /\ (p \in pendingQr => q \notin Current)
              /\ q \notin Current => life'[q] = life[q]
              /\ handling'[q] \subseteq handling[q]
        /\ pendingQr \subseteq Task
    BY <2>1, LivesEffect DEF Unmoved, Running, TypeOK
  <2>3. Fresh'
    BY <1>2, <2>1, <2>2 DEF Fresh, Current
  <2>4. OwnProcess' /\ LockHeld'
    BY <1>2, <2>2 DEF OwnProcess, LockHeld, Busy
  <2>5. QrApart'
    <3> SUFFICES ASSUME NEW u \in Task, Busy(u), task[u].kind = "qr"
                 PROVE  u # sessions' /\ tag'[u] = "qr" /\ out'[u] \in Seq(Plain)
      BY <1>2 DEF QrApart, Busy
    <3> QED
      BY <1>1, <1>2, <1>4, <2>1 DEF QrApart, TypeOK
  <2>6. PendingTagged'
    BY <1>2, <1>4, <2>1, <2>2 DEF PendingTagged, TypeOK
  <2>7. TagsMatch'
    BY <1>4, <2>1 DEF TagsMatch, TypeOK
  <2>8. NoStray'
    BY <1>2, <2>1, <2>2, SessionsAssumption DEF NoStray, Held, Current
  <2> QED
    BY <2>3, <2>4, <2>5, <2>6, <2>7, <2>8 DEF Rest
<1> QED
  BY <1>3, <1>4 DEF ReadToken

LEMMA KillsKeep ==
  ASSUME SInv, KillAll \/ KillByName \/ \E p \in Process : CancelQr(p)
  PROVE  Rest'
<1> USE DEF SInv, Process
<1>1. UNCHANGED <<out, tag, lock, task>>
  BY DEF KillAll, KillByName, CancelQr
<1>2. PICK killed \in SUBSET Process :
        /\ Lives(killed, {})
        /\ killed \subseteq {q \in Process : q = sessions \/ q \in pendingQr \/ Running(q)}
        /\ sessions' \in {sessions, None} /\ pendingQr' \subseteq pendingQr
        /\ Current \ killed = {} \/ sessions' = sessions
        /\ pendingQr \ killed \subseteq pendingQr'
  BY DEF KillAll, KillByName, CancelQr, Current, TypeOK
<1>3. \A q \in Process :
        /\ Running(q)' => Running(q) /\ q \notin killed
        /\ q \notin killed => life'[q] = life[q]
        /\ handling'[q] \subseteq handling[q]
  BY <1>2, LivesEffect
<1>4. Fresh'
  BY <1>1, <1>2, <1>3, SessionsAssumption DEF Fresh, Running
<1>5. OwnProcess' /\ LockHeld'
  BY <1>1, <1>3 DEF OwnProcess, LockHeld, Busy
<1>6. QrApart'
  BY <1>1, <1>2, SessionsAssumption DEF QrApart, Busy
<1>7. PendingTagged' /\ TagsMatch'
  BY <1>1, <1>2 DEF PendingTagged, TagsMatch
<1>8. NoStray'
  BY <1>1, <1>2, <1>3, SessionsAssumption DEF NoStray, Held, Current
<1> QED
  BY <1>4, <1>5, <1>6, <1>7, <1>8 DEF Rest

LEMMA InvStep == SInv /\ [Next]_vars => SInv'
<1> SUFFICES ASSUME SInv, [Next]_vars PROVE SInv'
  OBVIOUS
<1>1. TypeOK'
  BY TypeStep DEF SInv
<1>2. ASSUME NEW t \in Task, Issue(t) \/ Continue(t) \/ Timeout(t) PROVE Rest'
  BY <1>2, LoginKeeps, LoginFailsKeeps, BeginQrKeeps, ExistingKeeps, StepKeeps,
     ResumeSpawnKeeps, SendKeeps, FinishKeeps
     DEF Issue, Continue
<1>3. ASSUME NEW p \in Process, Daemon(p) \/ Reader(p) \/ CancelQr(p) PROVE Rest'
  BY <1>3, DaemonKeeps, AnswersKeep, TokenKeeps, KillsKeep DEF Reader
<1>4. ASSUME KillAll \/ KillByName PROVE Rest'
  BY <1>4, KillsKeep
<1>5. ASSUME UNCHANGED vars PROVE Rest'
  <2>1. /\ UNCHANGED <<sessions, pendingQr, life, handling, out, tag, lock, task>>
    BY <1>5 DEF vars
  <2>2. Fresh'
    BY <2>1 DEF SInv, Fresh
  <2>3. OwnProcess'
    BY <2>1 DEF SInv, OwnProcess, Busy
  <2>4. QrApart'
    BY <2>1 DEF SInv, QrApart, Busy
  <2>5. PendingTagged' /\ TagsMatch'
    BY <2>1 DEF SInv, PendingTagged, TagsMatch
  <2>6. LockHeld'
    BY <2>1 DEF SInv, LockHeld, Busy
  <2>7. NoStray'
    BY <2>1 DEF SInv, NoStray, Held, Running
  <2> QED
    BY <2>2, <2>3, <2>4, <2>5, <2>6, <2>7 DEF Rest
<1>6. Rest'
  BY <1>2, <1>3, <1>4, <1>5 DEF Next
<1> QED
  BY <1>1, <1>6 DEF Rest, SInv

LEMMA Invariant == Spec => []SInv
BY InitInv, InvStep, PTL DEF Spec

(* However sign-ins, resumes, QR promotions, sign-outs, cancellations and  *)
(* updates overlap, a daemon that runs is in a map or held by a command    *)
(* that will kill or file it.                                              *)
THEOREM NoneStrays == Spec => []NoStray
BY Invariant, PTL DEF SInv

(* The session in the map is never a pending QR sign-in, and tags its      *)
(* events with the account's key.                                          *)
THEOREM SessionsTagged == Spec => []TagsMatch
BY Invariant, PTL DEF SInv

(* Overlapping resumes of an account never have two requests waiting.      *)
THEOREM OneResume == Spec => []ResumesSerialised
<1>1. SInv => ResumesSerialised
  BY DEF SInv, LockHeld, ResumesSerialised, Busy
<1> QED
  BY Invariant, <1>1, PTL

-----------------------------------------------------------------------------
(* The cached SteamID64.  Known(s, c): what the reader will hold when it   *)
(* has read the lines s with c in its cache.                               *)
Known(s, c) ==
  \/ c /\ \A i \in 1..Len(s) : s[i].kind # "off"
  \/ \E i \in 1..Len(s) :
       s[i].kind = "on" /\ \A j \in i..Len(s) : s[j].kind # "off"

Follows(p) ==
  /\ bot[p] = "on" => Known(out[p], cache[p])
  /\ bot[p] \in {"off", "refused"} => ~Known(out[p], cache[p])

(* A command that has not spawned its process has none.                    *)
Before == {"new", "queued", "check", "spawn"}

Unspawned ==
  \A t \in Task : task[t].pc \in Before =>
    /\ life[t] = "unborn" /\ bot[t] = "off" /\ out[t] = << >> /\ ~cache[t]
    /\ t # sessions /\ t \notin pendingQr
    /\ \A u \in Task : task[u].target # t

AllFollow == \A p \in Process : Running(p) => Follows(p)

CInv == TypeOK /\ Unspawned /\ AllFollow

(* What lines say of the connection: that it is on, that it is off, or     *)
(* nothing.                                                                *)
Some(lines, kind) == \E i \in 1..Len(lines) : lines[i].kind = kind

Truthful(lines, from, to) ==
  \/ Some(lines, "on") /\ ~Some(lines, "off") /\ to = "on"
  \/ Some(lines, "off") /\ ~Some(lines, "on") /\ to # "on"
  \/ /\ ~Some(lines, "on") /\ ~Some(lines, "off")
     /\ to = from \/ to \in {"reconnecting", "stopped"}

LEMMA KnownRead ==
  ASSUME NEW s \in Seq(Line), s # << >>, NEW c \in BOOLEAN, NEW d \in BOOLEAN,
         d = IF Head(s).kind \in {"on", "off"} THEN Head(s).kind = "on" ELSE c
  PROVE  Known(s, c) <=> Known(Tail(s), d)
<1> DEFINE r == Tail(s)
<1>1. /\ Len(s) \in Nat \ {0} /\ Len(r) = Len(s) - 1
      /\ \A i \in 1..Len(r) : r[i] = s[i + 1]
      /\ Head(s) = s[1]
  BY HeadTailProperties, EmptySeq
<1> HIDE DEF r
<1>2. ASSUME NEW i \in 1..Len(s), i # 1 PROVE i - 1 \in 1..Len(r) /\ r[i - 1] = s[i]
  <2>1. i - 1 \in 1..Len(r) /\ (i - 1) + 1 = i
    BY <1>1, <1>2
  <2> QED
    BY <1>1, <2>1
<1>3. ASSUME NEW i \in 1..Len(r) PROVE i + 1 \in 1..Len(s)
  BY <1>1
<1>4. (\A i \in 1..Len(s) : s[i].kind # "off")
        <=> s[1].kind # "off" /\ \A i \in 1..Len(r) : r[i].kind # "off"
  <2>1. 1 \in 1..Len(s)
    BY <1>1
  <2> QED
    BY <1>1, <1>2, <1>3, <2>1
<1>5. (\E i \in 1..Len(s) : s[i].kind = "on" /\ \A j \in i..Len(s) : s[j].kind # "off")
        <=> \/ s[1].kind = "on" /\ \A i \in 1..Len(s) : s[i].kind # "off"
            \/ \E i \in 1..Len(r) : r[i].kind = "on" /\ \A j \in i..Len(r) : r[j].kind # "off"
  <2>1. ASSUME NEW i \in 1..Len(r), r[i].kind = "on", \A j \in i..Len(r) : r[j].kind # "off"
        PROVE  \E k \in 1..Len(s) : s[k].kind = "on" /\ \A j \in k..Len(s) : s[j].kind # "off"
    <3>1. i + 1 \in 1..Len(s) /\ s[i + 1].kind = "on"
      BY <2>1, <1>1, <1>3
    <3>2. ASSUME NEW j \in (i + 1)..Len(s) PROVE s[j].kind # "off"
      <4>1. j - 1 \in i..Len(r) /\ j - 1 \in 1..Len(r) /\ r[j - 1] = s[(j - 1) + 1]
        BY <1>1
      <4> QED
        BY <4>1, <2>1
    <3> QED
      BY <3>1, <3>2
  <2>2. ASSUME NEW k \in 1..Len(s), k # 1, s[k].kind = "on",
               \A j \in k..Len(s) : s[j].kind # "off"
        PROVE  \E i \in 1..Len(r) : r[i].kind = "on" /\ \A j \in i..Len(r) : r[j].kind # "off"
    <3>1. k - 1 \in 1..Len(r) /\ r[k - 1].kind = "on"
      BY <2>2, <1>2
    <3>2. ASSUME NEW j \in (k - 1)..Len(r) PROVE r[j].kind # "off"
      <4>1. j + 1 \in k..Len(s) /\ j \in 1..Len(r)
        BY <1>1, <2>2
      <4> QED
        BY <1>1, <4>1, <2>2
    <3> QED
      BY <3>1, <3>2
  <2>3. 1 \in 1..Len(s)
    BY <1>1
  <2> QED
    BY <2>1, <2>2, <2>3
<1> QED
  BY <1>1, <1>4, <1>5 DEF Known, r

LEMMA KnownWrite ==
  ASSUME NEW s \in Seq(Line), NEW lines \in Seq(Line), NEW c \in BOOLEAN
  PROVE  /\ ~Some(lines, "on") /\ ~Some(lines, "off") =>
              (Known(s \o lines, c) <=> Known(s, c))
         /\ Some(lines, "on") /\ ~Some(lines, "off") => Known(s \o lines, c)
         /\ Some(lines, "off") /\ ~Some(lines, "on") => ~Known(s \o lines, c)
<1> DEFINE w == s \o lines
<1>1. /\ Len(s) \in Nat /\ Len(lines) \in Nat /\ Len(w) = Len(s) + Len(lines)
      /\ \A i \in 1..Len(w) : w[i] = IF i <= Len(s) THEN s[i] ELSE lines[i - Len(s)]
  BY ConcatProperties, LenProperties
<1> HIDE DEF w
<1>2. /\ \A i \in 1..Len(s) : i \in 1..Len(w) /\ w[i] = s[i]
      /\ \A i \in 1..Len(w) : i \notin 1..Len(s) =>
           i - Len(s) \in 1..Len(lines) /\ w[i] = lines[i - Len(s)]
  <2>1. ASSUME NEW i \in 1..Len(s) PROVE i \in 1..Len(w) /\ w[i] = s[i]
    <3>1. i \in 1..Len(w) /\ i <= Len(s)
      BY <1>1
    <3> QED
      BY <3>1, <1>1
  <2>2. ASSUME NEW i \in 1..Len(w), i \notin 1..Len(s)
        PROVE  i - Len(s) \in 1..Len(lines) /\ w[i] = lines[i - Len(s)]
    <3>1. ~(i <= Len(s)) /\ i - Len(s) \in 1..Len(lines)
      BY <1>1, <2>2
    <3> QED
      BY <3>1, <1>1
  <2> QED
    BY <2>1, <2>2
<1>3. \A i \in 1..Len(lines) : i + Len(s) \in 1..Len(w) /\ w[i + Len(s)] = lines[i]
  BY <1>1
<1>4. ASSUME ~Some(lines, "on"), ~Some(lines, "off") PROVE Known(w, c) <=> Known(s, c)
  <2>1. (\A i \in 1..Len(w) : w[i].kind # "off") <=> \A i \in 1..Len(s) : s[i].kind # "off"
    BY <1>2, <1>4 DEF Some
  <2>2. ASSUME NEW i \in 1..Len(s)
        PROVE  (\A j \in i..Len(w) : w[j].kind # "off")
                 <=> \A j \in i..Len(s) : s[j].kind # "off"
    <3>1. \A j \in i..Len(s) : j \in 1..Len(s) /\ j \in i..Len(w)
      BY <1>1
    <3>2. \A j \in i..Len(w) : j \in 1..Len(w) /\ (j \in 1..Len(s) => j \in i..Len(s))
      BY <1>1
    <3> QED
      BY <3>1, <3>2, <1>2, <1>4 DEF Some
  <2>3. \A i \in 1..Len(w) : w[i].kind = "on" => i \in 1..Len(s)
    BY <1>2, <1>4 DEF Some
  <2>4. (\E i \in 1..Len(w) : w[i].kind = "on" /\ \A j \in i..Len(w) : w[j].kind # "off")
          <=> \E i \in 1..Len(s) : s[i].kind = "on" /\ \A j \in i..Len(s) : s[j].kind # "off"
    BY <1>2, <2>2, <2>3
  <2> QED
    BY <2>1, <2>4 DEF Known
<1>5. ASSUME Some(lines, "on"), ~Some(lines, "off") PROVE Known(w, c)
  <2>1. PICK i \in 1..Len(lines) : lines[i].kind = "on"
    BY <1>5 DEF Some
  <2>2. i + Len(s) \in 1..Len(w) /\ w[i + Len(s)].kind = "on"
    BY <1>3, <2>1
  <2>3. ASSUME NEW j \in (i + Len(s))..Len(w) PROVE w[j].kind # "off"
    <3>1. j \in 1..Len(w) /\ j \notin 1..Len(s)
      BY <1>1
    <3> QED
      BY <3>1, <1>2, <1>5 DEF Some
  <2> QED
    BY <2>2, <2>3 DEF Known
<1>6. ASSUME Some(lines, "off"), ~Some(lines, "on") PROVE ~Known(w, c)
  <2>1. PICK k \in 1..Len(lines) : lines[k].kind = "off"
    BY <1>6 DEF Some
  <2>2. k + Len(s) \in 1..Len(w) /\ w[k + Len(s)].kind = "off"
    BY <1>3, <2>1
  <2>3. ASSUME NEW i \in 1..Len(w), w[i].kind = "on" PROVE k + Len(s) \in i..Len(w)
    <3>1. i \in 1..Len(s)
      BY <1>2, <1>6, <2>3 DEF Some
    <3> QED
      BY <3>1, <1>1
  <2> QED
    BY <2>2, <2>3 DEF Known
<1> QED
  BY <1>4, <1>5, <1>6 DEF w

(* A process that the step leaves alone. *)
Same(p) == life'[p] = life[p] /\ bot'[p] = bot[p]

LEMMA FollowsFrame ==
  ASSUME NEW p \in Process, AllFollow, Running(p)', Same(p),
         out'[p] = out[p], cache'[p] = cache[p]
  PROVE  Follows(p)'
BY DEF AllFollow, Running, Follows, Same

(* A step of command t spawns at most its own process, before it had none, *)
(* and kills none but the session or the one it talks to.                  *)
TaskStep(t) ==
  /\ Moves(t) /\ UNCHANGED <<out, cache>>
  /\ task'[t].pc \in Before => task[t].pc \in Before /\ task'[t].target = task[t].target
                                 /\ UNCHANGED <<sessions, pendingQr, life, bot>>
  /\ task'[t].target \in {None, sessions, t, task[t].target}
  /\ sessions' \in {sessions, None, t} /\ pendingQr' \subseteq pendingQr \cup {t}
  /\ \A p \in Process :
       \/ Same(p)
       \/ life'[p] = "dead" /\ p \in {sessions, task[t].target}
       \/ p = t /\ task[t].pc \in Before /\ bot'[p] = bot[p]

LEMMA LivesSame ==
  ASSUME TypeOK, NEW killed, NEW born, Lives(killed, born), NEW p \in Process
  PROVE  \/ Same(p)
         \/ life'[p] = "dead" /\ p \in killed
         \/ p \in born /\ bot'[p] = bot[p]
BY DEF TypeOK, Lives, Same

LEMMA TaskSteps ==
  ASSUME TypeOK, NEW t \in Task, Issue(t) \/ Continue(t) \/ Timeout(t)
  PROVE  TaskStep(t)
<1>p. task[t] \in Command /\ sessions \in Process \cup {None}
  BY DEF TypeOK
<1>1. CASE Login(t) \/ BeginQr(t)
  <2>1. /\ Moves(t) /\ task[t].pc = "new" /\ task'[t].pc = "send" /\ task'[t].target = t
    BY <1>1, BeginEffect DEF Login, BeginQr
  <2>2. \A p \in Process : \/ Same(p)
                           \/ life'[p] = "dead" /\ p = sessions
                           \/ p = t /\ bot'[p] = bot[p]
    BY <1>1, LivesSame DEF Login, BeginQr, Current
  <2>3. /\ UNCHANGED <<out, cache, pendingQr>> /\ sessions' \in {sessions, t}
    BY <1>1 DEF Login, BeginQr
  <2> QED
    BY <2>1, <2>2, <2>3 DEF TaskStep, Before
<1>2. CASE LoginFails(t)
  <2>1. Moves(t) /\ task'[t].pc = "done" /\ task'[t].target = task[t].target
    BY <1>2, <1>p DEF LoginFails, Moves, TypeOK, Command
  <2>2. \A p \in Process : Same(p) \/ (life'[p] = "dead" /\ p = sessions)
    <3>1. Lives(Current, {})
      BY <1>2 DEF LoginFails
    <3>2. \A p \in Process : Same(p) \/ (life'[p] = "dead" /\ p \in Current)
      <4> SUFFICES ASSUME NEW p \in Process PROVE Same(p) \/ (life'[p] = "dead" /\ p \in Current)
        OBVIOUS
      <4> QED
        BY <3>1, LivesSame
    <3> QED
      BY <3>2 DEF Current
  <2> QED
    BY <1>2, <2>1, <2>2 DEF LoginFails, TaskStep, Before
<1>3. CASE Logout(t) \/ Use(t) \/ Resume(t)
  <2>1. /\ Moves(t) /\ task[t].pc = "new"
        /\ \/ task'[t].pc = "send" /\ task'[t].target = sessions
           \/ task'[t].pc = "queued" /\ task'[t].target = None /\ sessions' = sessions
    BY <1>3, BeginEffect DEF Logout, Use, Resume
  <2>2. task[t].target = None
    BY <2>1, <1>p DEF Command
  <2>3. /\ UNCHANGED <<out, cache, pendingQr, life, bot>> /\ sessions' \in {sessions, None}
    BY <1>3 DEF Logout, Use, Resume, Unmoved
  <2> QED
    BY <2>1, <2>2, <2>3 DEF TaskStep, Before, Same
<1>4. CASE ResumeLock(t) \/ ResumeCheck(t) \/ ResumeFails(t) \/ Timeout(t)
  <2>1. /\ Moves(t) /\ task'[t].target = task[t].target
        /\ task'[t].pc \in Before => task[t].pc \in Before
    BY <1>4, StepEffect DEF ResumeLock, ResumeCheck, ResumeFails, Timeout, Before
  <2>2. UNCHANGED <<out, cache, sessions, pendingQr, life, bot>>
    BY <1>4 DEF ResumeLock, ResumeCheck, ResumeFails, Timeout, Unmoved
  <2> QED
    BY <2>1, <2>2 DEF TaskStep, Same
<1>5. CASE ResumeSpawn(t)
  <2>0. PICK target \in {sessions, t} :
          task' = [task EXCEPT ![t] = [@ EXCEPT !.pc = "send", !.target = target]]
    BY <1>5 DEF ResumeSpawn
  <2>1. /\ Moves(t) /\ task[t].pc = "spawn" /\ task'[t].pc = "send"
        /\ task'[t].target \in {sessions, t}
    <3>1. task[t].pc = "spawn"
      BY <1>5 DEF ResumeSpawn
    <3> QED
      BY <2>0, <3>1, <1>p DEF Moves, TypeOK, Command
  <2>2. \A p \in Process : Same(p) \/ (p = t /\ bot'[p] = bot[p])
    BY <1>5, LivesSame DEF ResumeSpawn, Unmoved, Same
  <2>3. UNCHANGED <<out, cache, pendingQr>> /\ sessions' \in {sessions, t}
    BY <1>5 DEF ResumeSpawn
  <2> QED
    BY <2>1, <2>2, <2>3 DEF TaskStep, Before
<1>6. CASE Send(t)
  <2>0. PICK pc \in {"wait", "answered"} : task' = [task EXCEPT ![t].pc = pc]
    BY <1>6 DEF Send
  <2>1. /\ Moves(t) /\ task'[t].pc \in {"wait", "answered"}
        /\ task'[t].target = task[t].target
    BY <2>0, <1>p DEF Moves, TypeOK, Command
  <2> QED
    BY <1>6, <2>1 DEF Send, TaskStep, Before, Same
<1>7. CASE Finish(t)
  <2>1. Moves(t) /\ task'[t].pc = "done" /\ task'[t].target = None
    BY <1>7, <1>p DEF Finish, Moves, TypeOK, Command
  <2>2. \A p \in Process : Same(p) \/ (life'[p] = "dead" /\ p = task[t].target)
    <3>1. PICK killed \in {{task[t].target}, {}} : Lives(killed, {})
      BY <1>7 DEF Finish
    <3> SUFFICES ASSUME NEW p \in Process PROVE Same(p) \/ (life'[p] = "dead" /\ p = task[t].target)
      OBVIOUS
    <3>2. Same(p) \/ (life'[p] = "dead" /\ p \in killed)
      BY <3>1, LivesSame
    <3> QED
      BY <3>2
  <2>3. UNCHANGED <<out, cache, sessions>> /\ pendingQr' \subseteq pendingQr \cup {t}
    BY <1>7 DEF Finish
  <2> QED
    BY <2>1, <2>2, <2>3 DEF TaskStep, Before
<1> QED
  BY <1>1, <1>2, <1>3, <1>4, <1>5, <1>6, <1>7 DEF Issue, Continue

LEMMA TaskFollows ==
  ASSUME CInv, NEW t \in Task, TaskStep(t)
  PROVE  Unspawned' /\ AllFollow'
<1> USE DEF Process
<1>1. Unspawned'
  <2> SUFFICES ASSUME NEW u \in Task, task'[u].pc \in Before
               PROVE  /\ life'[u] = "unborn" /\ bot'[u] = "off" /\ out'[u] = << >> /\ ~cache'[u]
                      /\ u # sessions' /\ u \notin pendingQr'
                      /\ \A v \in Task : task'[v].target # u
    BY DEF Unspawned
  <2>1. task[u].pc \in Before
    BY DEF TaskStep, Moves
  <2>2. /\ life[u] = "unborn" /\ bot[u] = "off" /\ out[u] = << >> /\ ~cache[u]
        /\ u # sessions /\ u \notin pendingQr
        /\ \A v \in Task : task[v].target # u
    BY <2>1 DEF CInv, Unspawned
  <2>3. u = t => UNCHANGED <<sessions, pendingQr, life, bot>> /\ task'[t].target = task[t].target
    BY DEF TaskStep
  <2>4. Same(u)
    BY <2>2, <2>3 DEF TaskStep, Same
  <2>5. \A v \in Task : task'[v].target # u
    BY <2>2, <2>3, SessionsAssumption DEF TaskStep, Moves
  <2>6. u # sessions' /\ u \notin pendingQr'
    BY <2>2, <2>3, SessionsAssumption DEF TaskStep
  <2> QED
    BY <2>2, <2>4, <2>5, <2>6 DEF TaskStep, Same
<1>2. ASSUME NEW p \in Process, Running(p)' PROVE Follows(p)'
  <2>1. CASE Same(p)
    BY <1>2, <2>1, FollowsFrame DEF CInv, TaskStep
  <2>2. CASE p = t /\ task[t].pc \in Before /\ bot'[p] = bot[p]
    <3>1. bot'[p] = "off" /\ out'[p] = << >> /\ ~cache'[p]
      BY <2>2 DEF CInv, Unspawned, TaskStep
    <3>2. Len(out'[p]) = 0
      BY <3>1
    <3> QED
      BY <3>1, <3>2 DEF Follows, Known
  <2> QED
    BY <1>2, <2>1, <2>2 DEF TaskStep, Running
<1> QED
  BY <1>1, <1>2 DEF AllFollow

(* Kills: of the session, of pending sign-ins, of what runs. *)
LEMMA KillsFollow ==
  ASSUME CInv, UNCHANGED <<task, cache>>,
         sessions' \in {sessions, None} \cup pendingQr, pendingQr' \subseteq pendingQr,
         \A p \in Process : \/ Same(p) /\ out'[p] = out[p]
                            \/ /\ life'[p] = "dead"
                               /\ p \in {sessions} \cup pendingQr \/ Running(p)
  PROVE  Unspawned' /\ AllFollow'
<1>1. ASSUME NEW p \in Process, Running(p)' PROVE Follows(p)'
  BY <1>1, FollowsFrame DEF CInv, Running
<1>2. Unspawned'
  BY SessionsAssumption DEF CInv, Unspawned, Same, Running, Process
<1> QED
  BY <1>1, <1>2 DEF AllFollow

(* A daemon tells the reader what became of its connection. *)
Tells(p) ==
  \E b \in Bot, lines \in Seq(Line) :
    /\ Writes(p, lines) /\ bot' = [bot EXCEPT ![p] = b]
    /\ Truthful(lines, bot[p], b)
    /\ UNCHANGED <<sessions, pendingQr, life, cache, task>>

LEMMA OneLine ==
  ASSUME NEW a, NEW kind
  PROVE  Some(<<a>>, kind) <=> a.kind = kind
<1>1. Len(<<a>>) = 1 /\ <<a>>[1] = a
  OBVIOUS
<1>2. 1..1 = {1}
  OBVIOUS
<1> QED
  BY <1>1, <1>2 DEF Some

LEMMA TwoLines ==
  ASSUME NEW a, NEW b, NEW kind
  PROVE  Some(<<a, b>>, kind) <=> a.kind = kind \/ b.kind = kind
<1>1. Len(<<a, b>>) = 2 /\ <<a, b>>[1] = a /\ <<a, b>>[2] = b
  OBVIOUS
<1>2. 1..2 = {1, 2}
  OBVIOUS
<1> QED
  BY <1>1, <1>2 DEF Some

LEMMA ThreeLines ==
  ASSUME NEW a, NEW b, NEW c, NEW kind
  PROVE  Some(<<a, b, c>>, kind) <=> a.kind = kind \/ b.kind = kind \/ c.kind = kind
<1>1. Len(<<a, b, c>>) = 3 /\ <<a, b, c>>[1] = a /\ <<a, b, c>>[2] = b /\ <<a, b, c>>[3] = c
  OBVIOUS
<1>2. 1..3 = {1, 2, 3}
  OBVIOUS
<1> QED
  BY <1>1, <1>2 DEF Some

LEMMA NoLine == \A kind : ~Some(<< >>, kind)
BY DEF Some

LEMMA AnswersTell ==
  ASSUME NEW p \in Process, NEW t \in Task, NEW b \in Bot, NEW lines \in Seq(Line),
         Answers(p, t, b, lines), Truthful(lines, bot[p], b)
  PROVE  Tells(p)
BY DEF Answers, Tells

LEMMA ReportsTell ==
  ASSUME NEW p \in Process, NEW b \in Bot, NEW lines \in Seq(Line),
         Reports(p, b, lines), Truthful(lines, bot[p], b)
  PROVE  Tells(p)
BY DEF Reports, Tells

LEMMA DaemonTells ==
  ASSUME TypeOK, NEW p \in Process, Daemon(p), ~Crash(p)
  PROVE  Tells(p)
<1>k. /\ \A t : Answer("ok", t).kind = "ok" /\ Answer("fail", t).kind = "fail"
      /\ \A kind : Event(kind).kind = kind
  BY DEF Answer, Event
<1>b. bot[p] \in Bot /\ {"on", "refused", "off", "reconnecting", "stopped"} \subseteq Bot
  BY DEF TypeOK, Bot
<1>l. /\ \A t \in Task : Answer("ok", t) \in Line /\ Answer("fail", t) \in Line
      /\ \A kind \in {"on", "off", "reconnecting", "token"} : Event(kind) \in Line
  BY LineType
<1>1. ASSUME NEW t \in Task, Refuse(p, t) PROVE Tells(p)
  <2> DEFINE f == Answer("fail", t)
  <2>1. /\ <<f>> \in Seq(Line) /\ <<Event("off"), f>> \in Seq(Line)
        /\ <<Event("reconnecting"), f>> \in Seq(Line)
    BY <1>l, ShortSeq
  <2>2. /\ Truthful(<<f>>, bot[p], bot[p])
        /\ Truthful(<<Event("off"), f>>, bot[p], "refused")
        /\ Truthful(<<Event("reconnecting"), f>>, bot[p], "reconnecting")
    BY <1>k, OneLine, TwoLines DEF Truthful
  <2> QED
    BY <1>1, <1>b, <2>1, <2>2, AnswersTell DEF Refuse
<1>2. ASSUME NEW t \in Task, Grant(p, t) PROVE Tells(p)
  <2> DEFINE o == Answer("ok", t)
  <2>1. /\ <<o>> \in Seq(Line) /\ <<Event("off"), o>> \in Seq(Line)
        /\ <<Event("on"), o>> \in Seq(Line) /\ <<Event("on"), o, Event("token")>> \in Seq(Line)
    BY <1>l, ShortSeq
  <2>2. /\ Truthful(<<o>>, bot[p], bot[p]) /\ Truthful(<<o>>, bot[p], "stopped")
        /\ Truthful(<<Event("off"), o>>, bot[p], "stopped")
        /\ Truthful(<<Event("on"), o>>, bot[p], "on")
        /\ Truthful(<<Event("on"), o, Event("token")>>, bot[p], "on")
    BY <1>k, OneLine, TwoLines, ThreeLines DEF Truthful
  <2> QED
    BY <1>2, <1>b, <2>1, <2>2, AnswersTell DEF Grant
<1>3. ASSUME Authenticated(p) \/ Connection(p) PROVE Tells(p)
  <2>1. /\ << >> \in Seq(Line) /\ <<Event("on")>> \in Seq(Line) /\ <<Event("off")>> \in Seq(Line)
        /\ <<Event("reconnecting")>> \in Seq(Line)
        /\ <<Event("on"), Event("token")>> \in Seq(Line)
    BY <1>l, ShortSeq
  <2>2. /\ Truthful(<< >>, bot[p], bot[p])
        /\ Truthful(<<Event("on")>>, bot[p], "on")
        /\ Truthful(<<Event("on"), Event("token")>>, bot[p], "on")
        /\ Truthful(<<Event("off")>>, bot[p], "off")
        /\ Truthful(<<Event("off")>>, bot[p], "refused")
        /\ Truthful(<<Event("reconnecting")>>, bot[p], "reconnecting")
    BY <1>k, OneLine, TwoLines, NoLine DEF Truthful
  <2> QED
    BY <1>3, <1>b, <2>1, <2>2, ReportsTell DEF Authenticated, Connection
<1> QED
  BY <1>1, <1>2, <1>3 DEF Daemon

(* The reader of p takes a line: what it will have learnt stays the same. *)
Hears(p) ==
  /\ out[p] # << >> /\ out' = [out EXCEPT ![p] = Tail(@)]
  /\ cache' = [cache EXCEPT ![p] =
       IF Head(out[p]).kind \in {"on", "off"} THEN Head(out[p]).kind = "on" ELSE @]

LEMMA HearsKeeps ==
  ASSUME TypeOK, NEW p \in Process, Hears(p)
  PROVE  Known(out'[p], cache'[p]) <=> Known(out[p], cache[p])
<1>1. out[p] \in Seq(Line) /\ cache[p] \in BOOLEAN /\ out[p] # << >>
  BY DEF TypeOK, Hears
<1>2. out'[p] = Tail(out[p])
  BY DEF TypeOK, Hears
<1>3. cache'[p] = IF Head(out[p]).kind \in {"on", "off"}
                    THEN Head(out[p]).kind = "on" ELSE cache[p]
  BY DEF TypeOK, Hears
<1>4. cache'[p] \in BOOLEAN
  BY <1>1, <1>3
<1> QED
  BY <1>1, <1>2, <1>3, <1>4, KnownRead

LEMMA TellsFollows ==
  ASSUME CInv, NEW p \in Process, Tells(p)
  PROVE  Unspawned' /\ AllFollow'
<1>1. PICK b \in Bot, lines \in Seq(Line) :
        /\ Writes(p, lines) /\ bot' = [bot EXCEPT ![p] = b]
        /\ Truthful(lines, bot[p], b)
        /\ UNCHANGED <<sessions, pendingQr, life, cache, task>>
  BY DEF Tells
<1>2. /\ Running(p) /\ out'[p] = out[p] \o lines /\ bot'[p] = b
      /\ \A q \in Process \ {p} : out'[q] = out[q] /\ bot'[q] = bot[q]
  BY <1>1 DEF Writes, CInv, TypeOK
<1>3. Unspawned'
  BY <1>1, <1>2 DEF CInv, Unspawned, Running, Process
<1>4. Follows(p)'
  <2>1. /\ ~Some(lines, "on") /\ ~Some(lines, "off") =>
             (Known(out'[p], cache'[p]) <=> Known(out[p], cache[p]))
        /\ Some(lines, "on") /\ ~Some(lines, "off") => Known(out'[p], cache'[p])
        /\ Some(lines, "off") /\ ~Some(lines, "on") => ~Known(out'[p], cache'[p])
    <3>1. out[p] \in Seq(Line) /\ cache[p] \in BOOLEAN /\ cache'[p] = cache[p]
      BY <1>1 DEF CInv, TypeOK
    <3> QED
      BY <1>2, <3>1, KnownWrite
  <2>2. Follows(p)
    BY <1>2 DEF CInv, AllFollow
  <2> QED
    BY <1>1, <1>2, <2>1, <2>2 DEF Truthful, Follows
<1>5. ASSUME NEW q \in Process, q # p, Running(q)' PROVE Follows(q)'
  BY <1>1, <1>2, <1>5, FollowsFrame DEF CInv, Same
<1> QED
  BY <1>3, <1>4, <1>5 DEF AllFollow

LEMMA ReaderFollows ==
  ASSUME CInv, NEW p \in Process, Reader(p)
  PROVE  Unspawned' /\ AllFollow'
<1>t. TypeOK /\ sessions \in Process \cup {None}
  BY DEF CInv, TypeOK
<1>1. CASE Eof(p)
  <2>1. /\ UNCHANGED <<sessions, pendingQr, life, bot, out, cache>>
        /\ \A t \in Task : /\ task'[t].pc \in Before => task[t].pc \in Before
                           /\ task'[t].target = task[t].target
    <3>1. \A t \in Task : task[t] \in Command
      BY <1>t DEF TypeOK
    <3> QED
      BY <1>1, <3>1 DEF Eof, Unmoved, Before, Command
  <2>2. Unspawned'
    BY <2>1 DEF CInv, Unspawned
  <2>3. AllFollow'
    BY <2>1, FollowsFrame DEF CInv, AllFollow, Running, Same
  <2> QED
    BY <2>2, <2>3
<1>2. CASE ReadAnswer(p) \/ ReadStatus(p) \/ ReadToken(p)
  <2>1. Hears(p)
    <3>1. CASE ReadStatus(p)
      <4>1. /\ Head(out[p]).kind \in {"on", "off", "reconnecting"} /\ out[p] # << >>
            /\ out' = [out EXCEPT ![p] = Tail(@)]
            /\ cache' = [cache EXCEPT ![p] = IF Head(out[p]).kind = "reconnecting" THEN @
                                               ELSE Head(out[p]).kind = "on"]
        BY <3>1 DEF ReadStatus, Reads
      <4> QED
        BY <4>1 DEF Hears
    <3>2. CASE ReadAnswer(p) \/ ReadToken(p)
      <4>1. /\ Head(out[p]).kind \in {"ok", "fail", "token"} /\ out[p] # << >>
            /\ out' = [out EXCEPT ![p] = Tail(@)] /\ cache' = cache
        BY <3>2 DEF ReadAnswer, ReadToken, Reads
      <4>2. cache' = [cache EXCEPT ![p] = @]
        BY <4>1, <1>t DEF TypeOK
      <4> QED
        BY <4>1, <4>2 DEF Hears
    <3> QED
      BY <1>2, <3>1, <3>2
  <2>2. /\ sessions' \in {sessions} \cup pendingQr /\ pendingQr' \subseteq pendingQr
        /\ \A q \in Process : Same(q) \/ (life'[q] = "dead" /\ q = sessions)
    <3>1. CASE UNCHANGED <<sessions, pendingQr>> /\ Unmoved
      BY <3>1 DEF Unmoved, Same
    <3>2. CASE /\ p \in pendingQr /\ pendingQr' = pendingQr \ {p} /\ sessions' = p
               /\ Lives(Current, {})
      <4>1. \A q \in Process : Same(q) \/ (life'[q] = "dead" /\ q \in Current)
        <5> SUFFICES ASSUME NEW q \in Process
                     PROVE  Same(q) \/ (life'[q] = "dead" /\ q \in Current)
          OBVIOUS
        <5> QED
          BY <1>t, <3>2, LivesSame
      <4> QED
        BY <3>2, <4>1 DEF Current
    <3> QED
      BY <1>2, <3>1, <3>2 DEF ReadAnswer, ReadStatus, ReadToken
  <2>3. \A t \in Task : /\ task'[t].pc \in Before => task[t].pc \in Before
                        /\ task'[t].target = task[t].target
    <3>1. CASE task' = task
      BY <3>1
    <3>2. CASE ReadAnswer(p)
      <4> DEFINE u == Head(out[p]).task
      <4>1. \A t \in Task : task[t] \in Command
        BY <1>t DEF TypeOK
      <4>2. PICK b : task' \in {task, [task EXCEPT ![u] = [@ EXCEPT !.pc = "answered", !.ok = b]]}
        BY <3>2 DEF ReadAnswer
      <4>3. ASSUME NEW t \in Task
            PROVE  /\ task'[t].target = task[t].target
                   /\ task'[t].pc \in {task[t].pc, "answered"}
        <5>1. task'[t] = task[t] \/ task'[t] = [task[t] EXCEPT !.pc = "answered", !.ok = b]
          BY <4>2, <1>t DEF TypeOK
        <5> QED
          BY <4>1, <5>1 DEF Command
      <4> QED
        BY <4>3 DEF Before
    <3> QED
      BY <1>2, <3>1, <3>2 DEF ReadStatus, ReadToken
  <2>4. Unspawned'
    <3> SUFFICES ASSUME NEW t \in Task, task'[t].pc \in Before
                 PROVE  /\ life'[t] = "unborn" /\ bot'[t] = "off"
                        /\ out'[t] = << >> /\ ~cache'[t]
                        /\ t # sessions' /\ t \notin pendingQr'
                        /\ \A u \in Task : task'[u].target # t
      BY DEF Unspawned
    <3>1. /\ life[t] = "unborn" /\ bot[t] = "off" /\ out[t] = << >> /\ ~cache[t]
          /\ t # sessions /\ t \notin pendingQr
          /\ \A u \in Task : task[u].target # t
      BY <2>3 DEF CInv, Unspawned
    <3>2. t # p /\ out'[t] = out[t] /\ cache'[t] = cache[t]
      BY <2>1, <3>1, <1>t DEF Hears, TypeOK, Process
    <3> QED
      BY <2>2, <2>3, <3>1, <3>2 DEF Same, Process
  <2>5. ASSUME NEW q \in Process, Running(q)' PROVE Follows(q)'
    <3>1. Same(q) /\ Running(q)
      BY <2>2, <2>5 DEF Running, Same
    <3>2. CASE q = p
      <4>1. Known(out'[p], cache'[p]) <=> Known(out[p], cache[p])
        BY <1>t, <2>1, HearsKeeps
      <4> QED
        BY <3>1, <3>2, <4>1 DEF CInv, AllFollow, Follows, Same
    <3>3. CASE q # p
      <4>1. out'[q] = out[q] /\ cache'[q] = cache[q]
        BY <2>1, <3>3, <1>t DEF Hears, TypeOK
      <4> QED
        BY <2>5, <3>1, <4>1, FollowsFrame DEF CInv
    <3> QED
      BY <3>2, <3>3
  <2> QED
    BY <2>4, <2>5 DEF AllFollow
<1> QED
  BY <1>1, <1>2 DEF Reader

LEMMA KillerFollows ==
  ASSUME CInv, KillAll \/ KillByName \/ \E p \in Process : Crash(p) \/ CancelQr(p)
  PROVE  Unspawned' /\ AllFollow'
<1>t. TypeOK
  BY DEF CInv
<1>1. PICK killed \in SUBSET Process :
        /\ Lives(killed, {})
        /\ killed \subseteq {q \in Process : q = sessions \/ q \in pendingQr \/ Running(q)}
        /\ \A q \in Process \ killed : out'[q] = out[q]
  <2>1. CASE KillAll \/ KillByName
    BY <2>1, <1>t DEF KillAll, KillByName, Current, TypeOK
  <2>2. ASSUME NEW p \in Process, Crash(p) \/ CancelQr(p)
        PROVE  \E killed \in SUBSET Process :
                 /\ Lives(killed, {})
                 /\ killed \subseteq {q \in Process : q = sessions \/ q \in pendingQr \/ Running(q)}
                 /\ \A q \in Process \ killed : out'[q] = out[q]
    <3>1. Lives({p}, {}) /\ (p \in pendingQr \/ Running(p))
      BY <2>2 DEF Crash, CancelQr
    <3>2. \A q \in Process \ {p} : out'[q] = out[q]
      BY <2>2, <1>t DEF Crash, CancelQr, TypeOK
    <3> QED
      BY <3>1, <3>2
  <2> QED
    BY <2>1, <2>2
<1>2. \A q \in Process : Same(q) \/ (life'[q] = "dead" /\ q \in killed)
  <2> SUFFICES ASSUME NEW q \in Process PROVE Same(q) \/ (life'[q] = "dead" /\ q \in killed)
    OBVIOUS
  <2> QED
    BY <1>t, <1>1, LivesSame
<1>3. ASSUME NEW q \in killed PROVE life'[q] = "dead"
  BY <1>1, <1>3 DEF Lives
<1>4. /\ UNCHANGED <<task, cache>> /\ sessions' \in {sessions, None}
      /\ pendingQr' \subseteq pendingQr
  BY DEF KillAll, KillByName, Crash, CancelQr
<1> QED
  BY <1>1, <1>2, <1>3, <1>4, KillsFollow

LEMMA CacheStep == CInv /\ [Next]_vars => CInv'
<1> SUFFICES ASSUME CInv, [Next]_vars PROVE Unspawned' /\ AllFollow'
  BY TypeStep DEF CInv
<1>1. ASSUME NEW t \in Task, Issue(t) \/ Continue(t) \/ Timeout(t)
      PROVE  Unspawned' /\ AllFollow'
  BY <1>1, TaskSteps, TaskFollows DEF CInv
<1>2. ASSUME NEW p \in Process, Daemon(p) \/ Reader(p) \/ CancelQr(p)
      PROVE  Unspawned' /\ AllFollow'
  BY <1>2, DaemonTells, TellsFollows, ReaderFollows, KillerFollows DEF CInv
<1>3. ASSUME KillAll \/ KillByName PROVE Unspawned' /\ AllFollow'
  BY <1>3, KillerFollows
<1>4. ASSUME UNCHANGED vars PROVE Unspawned' /\ AllFollow'
  <2>1. UNCHANGED <<sessions, pendingQr, life, bot, out, cache, task>>
    BY <1>4 DEF vars
  <2>2. Unspawned'
    BY <2>1 DEF CInv, Unspawned
  <2> QED
    BY <2>1, <2>2, FollowsFrame DEF CInv, AllFollow, Running, Same
<1> QED
  BY <1>1, <1>2, <1>3, <1>4 DEF Next

(* Through logons, refusals, kicks, reconnects and kills, the SteamID64 a  *)
(* reader will have cached when it has caught up is there exactly while    *)
(* the daemon is signed in, for any number of unread lines.                *)
THEOREM CacheFollows == Spec => []CacheFollowsBot
<1>1. Init => CInv
  <2> SUFFICES ASSUME Init PROVE Unspawned /\ AllFollow
    BY InitType DEF CInv
  <2> QED
    BY SessionsAssumption DEF Init, Unspawned, AllFollow, Running, Process
<1>2. CInv => CacheFollowsBot
  BY DEF CInv, AllFollow, Follows, Known, CacheFollowsBot, KnownAfter
<1> QED
  BY <1>1, <1>2, CacheStep, PTL DEF Spec

-----------------------------------------------------------------------------
(* Who waits is heard.  The answer to t is due from p: the daemon works on *)
(* the request, or the answer is in the pipe.                              *)
Piped(s, t) == \E i \in 1..Len(s) : s[i].task = t

Due(p, t) == t \in handling[p] \/ Piped(out[p], t)

Attends(t) ==
  task[t].pc = "wait" =>
    /\ task[t].target \notin closed
    /\ Running(task[t].target) => Due(task[t].target, t)

(* No command waits at a process whose output has ended, and a daemon that *)
(* runs owes each command that waits at it an answer.                      *)
Attended == \A t \in Task : Attends(t)

ClosedDead == \A p \in closed : life[p] = "dead"

AInv == CInv /\ ClosedDead /\ Attended

LEMMA PipedWrite ==
  ASSUME NEW s \in Seq(Line), NEW lines \in Seq(Line), NEW t,
         Piped(s, t) \/ Piped(lines, t)
  PROVE  Piped(s \o lines, t)
<1> DEFINE w == s \o lines
<1>1. /\ Len(s) \in Nat /\ Len(lines) \in Nat /\ Len(w) = Len(s) + Len(lines)
      /\ \A i \in 1..Len(w) : w[i] = IF i <= Len(s) THEN s[i] ELSE lines[i - Len(s)]
  BY ConcatProperties, LenProperties
<1> HIDE DEF w
<1>2. CASE Piped(s, t)
  <2>1. PICK i \in 1..Len(s) : s[i].task = t
    BY <1>2 DEF Piped
  <2>2. i \in 1..Len(w) /\ i <= Len(s)
    BY <1>1
  <2>3. w[i] = s[i]
    BY <1>1, <2>2
  <2> QED
    BY <2>1, <2>2, <2>3 DEF Piped, w
<1>3. CASE Piped(lines, t)
  <2>1. PICK i \in 1..Len(lines) : lines[i].task = t
    BY <1>3 DEF Piped
  <2>2. /\ i + Len(s) \in 1..Len(w) /\ ~(i + Len(s) <= Len(s))
        /\ (i + Len(s)) - Len(s) = i
    BY <1>1
  <2>3. w[i + Len(s)] = lines[i]
    BY <1>1, <2>2
  <2> QED
    BY <2>1, <2>2, <2>3 DEF Piped, w
<1> QED
  BY <1>2, <1>3

LEMMA PipedRead ==
  ASSUME NEW s \in Seq(Line), s # << >>, NEW t, Piped(s, t), Head(s).task # t
  PROVE  Piped(Tail(s), t)
<1> DEFINE r == Tail(s)
<1>1. /\ Len(s) \in Nat \ {0} /\ Len(r) = Len(s) - 1
      /\ \A i \in 1..Len(r) : r[i] = s[i + 1]
      /\ Head(s) = s[1]
  BY HeadTailProperties, EmptySeq
<1> HIDE DEF r
<1>2. PICK i \in 1..Len(s) : s[i].task = t
  BY DEF Piped
<1>3. i # 1
  BY <1>1, <1>2
<1>4. i - 1 \in 1..Len(r) /\ (i - 1) + 1 = i
  BY <1>1, <1>3
<1>5. r[i - 1] = s[i]
  BY <1>1, <1>4
<1> QED
  BY <1>2, <1>4, <1>5 DEF Piped, r

(* What keeps a command attended: it waits as before, at a process that is *)
(* open and alive as before, and whose answer stays due.                   *)
LEMMA AttendsFrame ==
  ASSUME NEW t \in Task, Attends(t),
         task'[t].pc = "wait" =>
           /\ task'[t] = task[t] /\ task[t].target \notin closed' \ closed
           /\ Running(task[t].target)' =>
                /\ Running(task[t].target)
                /\ Due(task[t].target, t) => Due(task[t].target, t)'
  PROVE  Attends(t)'
BY DEF Attends

(* Kills and births: who lives on keeps its requests. *)
LEMMA LivesHandle ==
  ASSUME TypeOK, NEW killed, NEW born, Lives(killed, born), NEW p \in Process
  PROVE  /\ Running(p)' => handling'[p] = handling[p]
         /\ life[p] = "dead" /\ p \notin born => life'[p] = "dead"
BY DEF TypeOK, Lives, Running

(* A step of command t closes no stream, takes no request off a process    *)
(* that lives on, and makes t wait only by sending it one that is alive.   *)
Addresses(t) ==
  /\ UNCHANGED closed
  /\ \A p \in Process : Running(p)' => handling[p] \subseteq handling'[p]
  /\ task'[t].pc = "wait" =>
       /\ Running(task'[t].target) /\ task'[t].target \in Process
       /\ t \in handling'[task'[t].target]

LEMMA TaskAddresses ==
  ASSUME TypeOK, NEW t \in Task, Issue(t) \/ Continue(t) \/ Timeout(t)
  PROVE  Addresses(t)
<1>p. task[t] \in Command
  BY DEF TypeOK
<1>l. ASSUME NEW killed, NEW born, Lives(killed, born)
      PROVE  \A p \in Process : Running(p)' => handling[p] \subseteq handling'[p]
  <2> SUFFICES ASSUME NEW p \in Process, Running(p)' PROVE handling[p] \subseteq handling'[p]
    OBVIOUS
  <2> QED
    BY <1>l, LivesHandle
<1>u. Unmoved => \A p \in Process : Running(p)' => handling[p] \subseteq handling'[p]
  BY DEF Unmoved
<1>1. CASE Login(t) \/ BeginQr(t)
  <2>1. task'[t].pc = "send"
    BY <1>1, BeginEffect DEF Login, BeginQr
  <2> QED
    BY <1>1, <1>l, <2>1 DEF Login, BeginQr, Addresses
<1>2. CASE LoginFails(t)
  <2>1. task'[t].pc = "done"
    BY <1>2, <1>p DEF LoginFails, TypeOK, Command
  <2>2. Lives(Current, {}) /\ UNCHANGED closed
    BY <1>2 DEF LoginFails
  <2> QED
    BY <1>l, <2>1, <2>2 DEF Addresses
<1>3. CASE Logout(t) \/ Use(t) \/ Resume(t)
  <2>1. task'[t].pc \in {"send", "queued"}
    BY <1>3, BeginEffect DEF Logout, Use, Resume
  <2> QED
    BY <1>3, <1>u, <2>1 DEF Logout, Use, Resume, Addresses
<1>4. CASE ResumeLock(t) \/ ResumeCheck(t) \/ ResumeFails(t) \/ Timeout(t)
  <2>1. task'[t].pc # "wait"
    BY <1>4, StepEffect DEF ResumeLock, ResumeCheck, ResumeFails, Timeout
  <2> QED
    BY <1>4, <1>u, <2>1 DEF ResumeLock, ResumeCheck, ResumeFails, Timeout, Addresses
<1>5. CASE ResumeSpawn(t)
  <2>0. PICK target \in {sessions, t} :
          task' = [task EXCEPT ![t] = [@ EXCEPT !.pc = "send", !.target = target]]
    BY <1>5 DEF ResumeSpawn
  <2>1. task'[t].pc = "send"
    BY <2>0, <1>p DEF TypeOK, Command
  <2> QED
    BY <1>5, <1>l, <1>u, <2>1 DEF ResumeSpawn, Addresses
<1>6. CASE Send(t)
  <2> DEFINE p == task[t].target
  <2>1. p \in Process /\ task[t].pc = "send" /\ UNCHANGED <<closed, life>>
    BY <1>6, <1>p DEF Send, Command
  <2>2. CASE Running(p)
    <3>1. /\ handling' = [handling EXCEPT ![p] = @ \cup {t}]
          /\ task' = [task EXCEPT ![t].pc = "wait"]
      BY <1>6, <2>2 DEF Send
    <3>2. task'[t].target = p
      BY <3>1, <1>p DEF TypeOK, Command
    <3>3. t \in handling'[p] /\ \A q \in Process : handling[q] \subseteq handling'[q]
      BY <2>1, <3>1 DEF TypeOK
    <3> QED
      BY <2>1, <2>2, <3>2, <3>3 DEF Addresses
  <2>3. CASE ~Running(p)
    <3>1. UNCHANGED handling /\ task' = [task EXCEPT ![t].pc = "answered"]
      BY <1>6, <2>3 DEF Send
    <3>2. task'[t].pc = "answered"
      BY <3>1, <1>p DEF TypeOK, Command
    <3> QED
      BY <2>1, <3>1, <3>2 DEF Addresses
  <2> QED
    BY <2>2, <2>3
<1>7. CASE Finish(t)
  <2>1. task'[t].pc = "done"
    BY <1>7, <1>p DEF Finish, TypeOK, Command
  <2>2. UNCHANGED closed /\ \E killed : Lives(killed, {})
    BY <1>7 DEF Finish
  <2> QED
    BY <1>l, <2>1, <2>2 DEF Addresses
<1> QED
  BY <1>1, <1>2, <1>3, <1>4, <1>5, <1>6, <1>7 DEF Issue, Continue

LEMMA TaskAttends ==
  ASSUME AInv, NEW t \in Task, TaskStep(t), Addresses(t)
  PROVE  ClosedDead' /\ Attended'
<1>t. TypeOK /\ Unspawned /\ ClosedDead /\ Attended
  BY DEF AInv, CInv
<1>1. ClosedDead'
  <2> SUFFICES ASSUME NEW p \in closed PROVE life'[p] = "dead"
    BY DEF ClosedDead, Addresses
  <2>1. p \in Process /\ life[p] = "dead"
    BY <1>t DEF TypeOK, ClosedDead
  <2>2. ~(p = t /\ task[t].pc \in Before)
    BY <1>t, <2>1 DEF Unspawned
  <2> QED
    BY <2>1, <2>2 DEF TaskStep, Same
<1>2. ASSUME NEW u \in Task, u # t PROVE Attends(u)'
  <2> DEFINE p == task[u].target
  <2> SUFFICES ASSUME task'[u].pc = "wait"
               PROVE  /\ task'[u] = task[u] /\ p \notin closed' \ closed
                      /\ Running(p)' => Running(p) /\ (Due(p, u) => Due(p, u)')
    BY <1>t, AttendsFrame DEF Attended
  <2>1. task'[u] = task[u] /\ closed' = closed /\ UNCHANGED out
    BY <1>2 DEF TaskStep, Moves, Addresses
  <2>2. p \in Process
    <3>1. task[u] \in Command /\ task[u].pc = "wait"
      BY <1>t, <2>1 DEF TypeOK
    <3> QED
      BY <3>1 DEF Command
  <2>3. ~(p = t /\ task[t].pc \in Before)
    BY <1>t DEF Unspawned
  <2>4. Running(p)' => Running(p)
    BY <2>1, <2>2, <2>3 DEF TaskStep, Same, Running
  <2>5. Running(p)' => handling[p] \subseteq handling'[p]
    BY <2>1, <2>2 DEF Addresses
  <2> QED
    BY <2>1, <2>4, <2>5 DEF Due
<1>3. Attends(t)'
  BY <1>t DEF Addresses, ClosedDead, Running, Attends, Due
<1> QED
  BY <1>1, <1>2, <1>3 DEF Attended

(* A daemon drops a request only with its answer in the pipe. *)
Serves(p) ==
  \E done \in SUBSET Task, lines \in Seq(Line) :
    /\ Writes(p, lines) /\ UNCHANGED <<life, closed, task>>
    /\ handling' = [handling EXCEPT ![p] = @ \ done]
    /\ \A t \in done : Piped(lines, t)

LEMMA DaemonServes ==
  ASSUME TypeOK, NEW p \in Process, Daemon(p), ~Crash(p)
  PROVE  Serves(p)
<1>l. /\ \A t \in Task : Answer("ok", t) \in Line /\ Answer("fail", t) \in Line
      /\ \A kind \in {"on", "off", "reconnecting", "token"} : Event(kind) \in Line
  BY LineType
<1>a. ASSUME NEW t \in Task, NEW b, NEW lines \in Seq(Line), Answers(p, t, b, lines),
             Piped(lines, t)
      PROVE  Serves(p)
  <2>1. {t} \in SUBSET Task /\ \A u \in {t} : Piped(lines, u)
    BY <1>a
  <2> QED
    BY <1>a, <2>1 DEF Answers, Serves
<1>1. ASSUME NEW t \in Task, NEW kind \in {"ok", "fail"}, NEW e \in {"on", "off", "reconnecting"}
      PROVE  LET a == Answer(kind, t)
             IN  /\ <<a>> \in Seq(Line) /\ Piped(<<a>>, t)
                 /\ <<Event(e), a>> \in Seq(Line) /\ Piped(<<Event(e), a>>, t)
                 /\ <<Event(e), a, Event("token")>> \in Seq(Line)
                 /\ Piped(<<Event(e), a, Event("token")>>, t)
  <2> DEFINE a == Answer(kind, t)
  <2>1. a.task = t
    BY DEF Answer
  <2>2. a \in Line /\ Event(e) \in Line /\ Event("token") \in Line
    BY <1>l
  <2> HIDE DEF a
  <2>3. /\ Len(<<a>>) = 1 /\ <<a>>[1] = a
        /\ Len(<<Event(e), a>>) = 2 /\ <<Event(e), a>>[2] = a
        /\ Len(<<Event(e), a, Event("token")>>) = 3
        /\ <<Event(e), a, Event("token")>>[2] = a
    OBVIOUS
  <2>4. 1 \in 1..1 /\ 2 \in 1..2 /\ 2 \in 1..3
    OBVIOUS
  <2>5. Piped(<<a>>, t) /\ Piped(<<Event(e), a>>, t) /\ Piped(<<Event(e), a, Event("token")>>, t)
    BY <2>1, <2>3, <2>4 DEF Piped
  <2> QED
    BY <2>2, <2>5, ShortSeq DEF a
<1>2. ASSUME NEW t \in Task, Refuse(p, t) PROVE Serves(p)
  BY <1>1, <1>2, <1>a DEF Refuse
<1>3. ASSUME NEW t \in Task, Grant(p, t) PROVE Serves(p)
  BY <1>1, <1>3, <1>a DEF Grant
<1>4. ASSUME Authenticated(p) \/ Connection(p) PROVE Serves(p)
  <2>1. PICK b \in Bot, lines \in Seq(Line) : Reports(p, b, lines)
    <3>1. Seq(Plain) \subseteq Seq(Line)
      BY SeqMonotonic, LineType
    <3> QED
      BY <1>4, <3>1, AuthenticatedShape, ConnectionShape
  <2>2. handling' = [handling EXCEPT ![p] = @ \ {}]
    BY <2>1 DEF Reports, TypeOK
  <2>3. {} \in SUBSET Task /\ \A t \in {} : Piped(lines, t)
    OBVIOUS
  <2>4. Writes(p, lines) /\ UNCHANGED <<life, closed, task>>
    BY <2>1 DEF Reports
  <2> QED
    BY <2>2, <2>3, <2>4 DEF Serves
<1> QED
  BY <1>2, <1>3, <1>4 DEF Daemon

LEMMA ServesAttends ==
  ASSUME AInv, NEW p \in Process, Serves(p)
  PROVE  ClosedDead' /\ Attended'
<1>t. TypeOK /\ ClosedDead /\ Attended
  BY DEF AInv, CInv
<1>1. PICK done \in SUBSET Task, lines \in Seq(Line) :
        /\ Writes(p, lines) /\ UNCHANGED <<life, closed, task>>
        /\ handling' = [handling EXCEPT ![p] = @ \ done]
        /\ \A t \in done : Piped(lines, t)
  BY DEF Serves
<1>2. /\ out[p] \in Seq(Line) /\ out'[p] = out[p] \o lines
      /\ handling'[p] = handling[p] \ done
      /\ \A q \in Process \ {p} : out'[q] = out[q] /\ handling'[q] = handling[q]
  BY <1>t, <1>1 DEF Writes, TypeOK
<1>3. ASSUME NEW t \in Task, Due(p, t) PROVE Due(p, t)'
  BY <1>1, <1>2, <1>3, PipedWrite DEF Due
<1>4. ASSUME NEW t \in Task PROVE Attends(t)'
  <2>1. task[t].pc = "wait" => task[t].target \in Process
    <3>1. task[t] \in Command
      BY <1>t DEF TypeOK
    <3> QED
      BY <3>1 DEF Command
  <2>2. ASSUME NEW q \in Process, Due(q, t) PROVE Due(q, t)'
    BY <1>2, <1>3, <2>2 DEF Due
  <2> QED
    BY <1>t, <1>1, <2>1, <2>2, AttendsFrame DEF Attended, Running
<1> QED
  BY <1>t, <1>1, <1>4 DEF ClosedDead, Attended

(* The reader takes a line: a command goes on waiting only if the line is  *)
(* not its answer.                                                         *)
Takes(p) ==
  /\ out[p] # << >> /\ out' = [out EXCEPT ![p] = Tail(@)] /\ UNCHANGED closed
  /\ \A t \in Task : task'[t].pc = "wait" => task'[t] = task[t] /\ Head(out[p]).task # t
  /\ \A q \in Process : /\ Running(q)' => Running(q) /\ handling'[q] = handling[q]
                        /\ life[q] = "dead" => life'[q] = "dead"

LEMMA ReaderTakes ==
  ASSUME TypeOK, NEW p \in Process, ReadAnswer(p) \/ ReadStatus(p) \/ ReadToken(p)
  PROVE  Takes(p)
<1> DEFINE l == Head(out[p])
<1>1. out[p] # << >> /\ out' = [out EXCEPT ![p] = Tail(@)] /\ UNCHANGED closed
  BY DEF ReadAnswer, ReadStatus, ReadToken, Reads
<1>2. l \in Line
  BY <1>1, HeadTailProperties DEF TypeOK
<1>3. \A q \in Process : /\ Running(q)' => Running(q) /\ handling'[q] = handling[q]
                         /\ life[q] = "dead" => life'[q] = "dead"
  <2>1. CASE Unmoved
    BY <2>1 DEF Unmoved, Running
  <2>2. ASSUME Lives(Current, {}), NEW q \in Process
        PROVE  /\ Running(q)' => Running(q) /\ handling'[q] = handling[q]
               /\ life[q] = "dead" => life'[q] = "dead"
    BY <2>2, LivesHandle, LivesEffect
  <2> QED
    BY <2>1, <2>2 DEF ReadAnswer, ReadStatus, ReadToken
<1>4. CASE ReadAnswer(p)
  <2>1. l.task \in Task
    BY <1>2, <1>4 DEF ReadAnswer, Reads, Line
  <2>2. task[l.task].pc # "wait" => task' = task
    BY <1>4 DEF ReadAnswer
  <2>3. task[l.task].pc = "wait" =>
          task' = [task EXCEPT ![l.task] = [@ EXCEPT !.pc = "answered", !.ok = l.kind = "ok"]]
    BY <1>4 DEF ReadAnswer
  <2>4. task[l.task] \in Command
    BY <2>1 DEF TypeOK
  <2>5. task'[l.task].pc # "wait" /\ \A t \in Task \ {l.task} : task'[t] = task[t]
    <3>1. CASE task[l.task].pc # "wait"
      BY <2>2, <3>1
    <3>2. CASE task[l.task].pc = "wait"
      <4>1. PICK ok : task' = [task EXCEPT ![l.task] =
                                 [@ EXCEPT !.pc = "answered", !.ok = ok]]
        BY <2>3, <3>2
      <4>2. task'[l.task] = [task[l.task] EXCEPT !.pc = "answered", !.ok = ok]
        BY <2>1, <4>1 DEF TypeOK
      <4>3. task'[l.task].pc = "answered"
        BY <2>4, <4>2 DEF Command
      <4> QED
        BY <4>1, <4>3 DEF TypeOK
    <3> QED
      BY <3>1, <3>2
  <2> QED
    BY <1>1, <1>3, <2>5 DEF Takes
<1>5. CASE ReadStatus(p) \/ ReadToken(p)
  <2>1. l.task = None /\ UNCHANGED task
    BY <1>2, <1>5 DEF ReadStatus, ReadToken, Reads, Line
  <2> QED
    BY <1>1, <1>3, <2>1, SessionsAssumption DEF Takes
<1> QED
  BY <1>4, <1>5

LEMMA TakesAttends ==
  ASSUME AInv, NEW p \in Process, Takes(p)
  PROVE  ClosedDead' /\ Attended'
<1>t. TypeOK /\ ClosedDead /\ Attended
  BY DEF AInv, CInv
<1>1. /\ out[p] \in Seq(Line) /\ out[p] # << >> /\ out'[p] = Tail(out[p])
      /\ \A q \in Process \ {p} : out'[q] = out[q]
  BY <1>t DEF Takes, TypeOK
<1>2. ASSUME NEW t \in Task PROVE Attends(t)'
  <2>1. task[t].pc = "wait" => task[t].target \in Process
    <3>1. task[t] \in Command
      BY <1>t DEF TypeOK
    <3> QED
      BY <3>1 DEF Command
  <2>2. ASSUME task'[t].pc = "wait", NEW q \in Process, Running(q)', Due(q, t)
        PROVE  Due(q, t)'
    <3>1. handling'[q] = handling[q] /\ Head(out[p]).task # t
      BY <2>2 DEF Takes
    <3>2. Piped(out[q], t) => Piped(out'[q], t)
      BY <1>1, <3>1, PipedRead
    <3> QED
      BY <2>2, <3>1, <3>2 DEF Due
  <2> QED
    BY <1>t, <2>1, <2>2, AttendsFrame DEF Attended, Takes
<1>3. ClosedDead'
  BY <1>t DEF Takes, ClosedDead, TypeOK
<1> QED
  BY <1>2, <1>3 DEF Attended

(* The end of the output leaves nobody waiting. *)
LEMMA EofAttends ==
  ASSUME AInv, NEW p \in Process, Eof(p)
  PROVE  ClosedDead' /\ Attended'
<1>t. TypeOK /\ ClosedDead /\ Attended
  BY DEF AInv, CInv
<1>1. /\ life[p] = "dead" /\ closed' = closed \cup {p}
      /\ UNCHANGED <<life, handling, out>>
  BY DEF Eof, Unmoved
<1>2. ASSUME NEW t \in Task, task'[t].pc = "wait"
      PROVE  task'[t] = task[t] /\ task[t].target # p
  <2>1. task[t] \in Command
    BY <1>t DEF TypeOK
  <2>2. task'[t] = IF task[t].pc = "wait" /\ task[t].target = p
                     THEN [task[t] EXCEPT !.pc = "answered"] ELSE task[t]
    BY DEF Eof
  <2>3. [task[t] EXCEPT !.pc = "answered"].pc = "answered"
    BY <2>1 DEF Command
  <2> QED
    BY <1>2, <2>2, <2>3
<1>3. ASSUME NEW t \in Task PROVE Attends(t)'
  BY <1>t, <1>1, <1>2, AttendsFrame DEF Attended, Running, Due
<1> QED
  BY <1>t, <1>1, <1>3 DEF ClosedDead, Attended

LEMMA KillerAttends ==
  ASSUME AInv, KillAll \/ KillByName \/ \E p \in Process : Crash(p) \/ CancelQr(p)
  PROVE  ClosedDead' /\ Attended'
<1>t. TypeOK /\ ClosedDead /\ Attended
  BY DEF AInv, CInv
<1>1. UNCHANGED <<closed, task>>
  BY DEF KillAll, KillByName, Crash, CancelQr
<1>2. PICK killed : Lives(killed, {}) /\ \A q \in Process : q \notin killed => out'[q] = out[q]
  <2>1. CASE KillAll \/ KillByName
    BY <2>1 DEF KillAll, KillByName
  <2>2. ASSUME NEW p \in Process, Crash(p) \/ CancelQr(p)
        PROVE  Lives({p}, {}) /\ \A q \in Process : q \notin {p} => out'[q] = out[q]
    BY <2>2, <1>t DEF Crash, CancelQr, TypeOK
  <2> QED
    BY <2>1, <2>2
<1>3. ASSUME NEW q \in Process
      PROVE  /\ Running(q)' => Running(q) /\ handling'[q] = handling[q] /\ q \notin killed
             /\ life[q] = "dead" => life'[q] = "dead"
  BY <1>t, <1>2, LivesHandle, LivesEffect
<1>4. ASSUME NEW t \in Task PROVE Attends(t)'
  <2>1. task[t].pc = "wait" => task[t].target \in Process
    <3>1. task[t] \in Command
      BY <1>t DEF TypeOK
    <3> QED
      BY <3>1 DEF Command
  <2>2. ASSUME NEW q \in Process, Running(q)', Due(q, t) PROVE Due(q, t)'
    BY <1>2, <1>3, <2>2 DEF Due
  <2> QED
    BY <1>t, <1>1, <1>3, <2>1, <2>2, AttendsFrame DEF Attended
<1>5. ClosedDead'
  BY <1>t, <1>1, <1>3 DEF ClosedDead, TypeOK
<1> QED
  BY <1>4, <1>5 DEF Attended

LEMMA AttendedStep == AInv /\ [Next]_vars => AInv'
<1> SUFFICES ASSUME AInv, [Next]_vars PROVE ClosedDead' /\ Attended'
  BY CacheStep DEF AInv
<1>t. TypeOK
  BY DEF AInv, CInv
<1>1. ASSUME NEW t \in Task, Issue(t) \/ Continue(t) \/ Timeout(t)
      PROVE  ClosedDead' /\ Attended'
  BY <1>1, <1>t, TaskSteps, TaskAddresses, TaskAttends
<1>2. ASSUME NEW p \in Process, Daemon(p) \/ Reader(p) \/ CancelQr(p)
      PROVE  ClosedDead' /\ Attended'
  <2>1. CASE Daemon(p) /\ ~Crash(p)
    BY <1>t, <2>1, DaemonServes, ServesAttends
  <2>2. CASE Crash(p) \/ CancelQr(p)
    BY <2>2, KillerAttends
  <2>3. CASE Reader(p)
    BY <1>t, <2>3, ReaderTakes, TakesAttends, EofAttends DEF Reader
  <2> QED
    BY <1>2, <2>1, <2>2, <2>3
<1>3. ASSUME KillAll \/ KillByName PROVE ClosedDead' /\ Attended'
  BY <1>3, KillerAttends
<1>4. ASSUME UNCHANGED vars PROVE ClosedDead' /\ Attended'
  BY <1>4 DEF vars, AInv, ClosedDead, Attended, Attends, Running, Due
<1> QED
  BY <1>1, <1>2, <1>3, <1>4 DEF Next

(* A request is never lost: while its daemon lives, the daemon works on it *)
(* or its answer is in the pipe, and the end of a daemon's output leaves   *)
(* no request waiting.  What is due reaches its command (DeadAnswered)     *)
(* because the reader runs.                                                *)
THEOREM WaitersHeard == Spec => []Attended
<1>1. Init => AInv
  <2> SUFFICES ASSUME Init PROVE AInv
    OBVIOUS
  <2>1. CInv
    BY InitType, SessionsAssumption
       DEF Init, CInv, Unspawned, AllFollow, Running, Process
  <2> QED
    BY <2>1 DEF Init, AInv, ClosedDead, Attended, Attends
<1>2. AInv => Attended
  BY DEF AInv
<1> QED
  BY <1>1, <1>2, AttendedStep, PTL DEF Spec
=============================================================================
