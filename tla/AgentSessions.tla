---------------------------- MODULE AgentSessions ---------------------------
(***************************************************************************)
(* The agent sessions of ONE account key: the sign-in commands             *)
(* (src-tauri/src/steam_agent/manager.rs), the daemon process each of them *)
(* may spawn, the request/response pipe to it and the reader of its stdout *)
(* (process.rs), and what the daemon reports (libs/SteamUtility/Daemon).   *)
(*                                                                         *)
(* A command is a task that runs once.  The process it spawns, if any, and *)
(* the one request it sends bear its name.  What a process wrote stays     *)
(* readable after its death; then its reader sees the end of the stream.   *)
(* The child is also killed when its last handle is dropped; NoStray shows *)
(* that it is dead by then.                                                *)
(***************************************************************************)
EXTENDS Naturals, Sequences

CONSTANTS
  Task,      \* commands: sign in, resume, sign out, QR sign-in, any other
  None,
  MaxLines   \* bound: a daemon with so many unread lines writes no more

Process == Task

ASSUME SessionsAssumption == None \notin Task /\ MaxLines \in Nat

VARIABLES
  sessions,   \* sessions[key]: the process of the account, or None
  pendingQr,  \* processes of QR sign-ins that have no account yet
  life,       \* life[p]: is the process running
  closed,     \* processes whose reader has seen the end of stdout
  bot,        \* bot[p]: the daemon's connection to Steam
  handling,   \* handling[p]: requests the daemon is working on
  waiting,    \* daemons whose sign-in waits for the user
  out,        \* out[p]: lines of stdout that are not read yet
  cache,      \* cache[p]: AgentProcess::steam_id is Some
  tag,        \* tag[p]: AgentProcess::account_key, "qr" for a placeholder
  lock,       \* the resume lock of the key
  task,       \* task[t]: where command t stands
  updating    \* the pre-update cleanup is between its passes

vars == <<sessions, pendingQr, life, closed, bot, handling, waiting, out, cache, tag,
          lock, task, updating>>

Kind == {"login", "resume", "logout", "qr", "use"}

Command == [pc : {"new"}, kind : {None}, target : {None}, ok : {FALSE}]
             \cup [pc : {"queued", "check", "spawn"}, kind : {"resume"}, target : {None},
                   ok : {FALSE}]
             \cup [pc : {"send", "wait", "answered"}, kind : Kind, target : Process,
                   ok : BOOLEAN]
             \cup [pc : {"done"}, kind : Kind, target : {None}, ok : {FALSE}]

(* A line is the answer to a task's request, or an event. *)
Line == [kind : {"ok", "fail"}, task : Task]
          \cup [kind : {"on", "off", "reconnecting", "token"}, task : {None}]

Event(kind) == [kind |-> kind, task |-> None]
Answer(kind, t) == [kind |-> kind, task |-> t]

TypeOK ==
  /\ sessions \in Process \cup {None}
  /\ pendingQr \subseteq Process
  /\ life \in [Process -> {"unborn", "running", "dead"}]
  /\ closed \subseteq Process
  /\ bot \in [Process -> {"off", "refused", "on", "reconnecting", "stopped"}]
  /\ waiting \subseteq Process
  /\ handling \in [Process -> SUBSET Task]
  /\ out \in [Process -> Seq(Line)]
  /\ cache \in [Process -> BOOLEAN]
  /\ tag \in [Process -> {"none", "qr", "key"}]
  /\ lock \in Task \cup {None}
  /\ task \in [Task -> Command]
  /\ updating \in BOOLEAN

Init ==
  /\ sessions = None
  /\ pendingQr = {}
  /\ life = [p \in Process |-> "unborn"]
  /\ closed = {}
  /\ bot = [p \in Process |-> "off"]
  /\ handling = [p \in Process |-> {}]
  /\ waiting = {}
  /\ out = [p \in Process |-> << >>]
  /\ cache = [p \in Process |-> FALSE]
  /\ tag = [p \in Process |-> "none"]
  /\ lock = None
  /\ task = [t \in Task |-> [pc |-> "new", kind |-> None, target |-> None, ok |-> FALSE]]
  /\ updating = FALSE

-----------------------------------------------------------------------------
Running(p) == life[p] = "running"
Current == {sessions} \ {None}

(* Processes are killed, and others started, in one step.  What a killed   *)
(* daemon was doing is lost; what it wrote is not.                         *)
Lives(killed, born) ==
  /\ life' = [p \in Process |-> IF p \in killed THEN "dead"
                                ELSE IF p \in born THEN "running" ELSE life[p]]
  /\ bot' = [p \in Process |-> IF p \in killed THEN "off" ELSE bot[p]]
  /\ handling' = [p \in Process |-> IF p \in killed THEN {} ELSE handling[p]]
  /\ waiting' = waiting \ killed

Unmoved == UNCHANGED <<life, bot, handling, waiting>>

Begin(t, kind, pc, target) ==
  /\ task[t].pc = "new"
  /\ task' = [task EXCEPT ![t] =
       [pc |-> pc, kind |-> kind, target |-> target, ok |-> FALSE]]

Step(t, from, to) ==
  /\ task[t].pc = from
  /\ task' = [task EXCEPT ![t] = [@ EXCEPT !.pc = to]]

-----------------------------------------------------------------------------
(* Mutant: a sign-in that replaces a session leaves its process running. *)
MutLoginLeaks(t) ==
  /\ Begin(t, "login", "send", t)
  /\ Lives({}, {t})
  /\ sessions' = t
  /\ tag' = [tag EXCEPT ![t] = "key"]
  /\ UNCHANGED <<pendingQr, closed, out, cache, lock, updating>>

(* login -> respawn: under the lock of the map the old process is killed   *)
(* and a new one takes its place.                                          *)
Login(t) ==
  /\ Begin(t, "login", "send", t)
  /\ Lives(Current, {t})
  /\ sessions' = t
  /\ tag' = [tag EXCEPT ![t] = "key"]
  /\ UNCHANGED <<pendingQr, closed, out, cache, lock, updating>>

(* The old process is gone even if the new one cannot be started. *)
LoginFails(t) ==
  /\ task[t].pc = "new"
  /\ task' = [task EXCEPT ![t] = [@ EXCEPT !.pc = "done", !.kind = "login"]]
  /\ Lives(Current, {})
  /\ sessions' = None
  /\ UNCHANGED <<pendingQr, closed, out, cache, tag, lock, updating>>

(* begin_qr_login spawns a process that no map holds until it answers. *)
BeginQr(t) ==
  /\ Begin(t, "qr", "send", t)
  /\ Lives({}, {t})
  /\ tag' = [tag EXCEPT ![t] = "qr"]
  /\ UNCHANGED <<sessions, pendingQr, closed, out, cache, lock, updating>>

(* Mutant: a sign-out does not look whether there is a session. *)
MutLogoutUnchecked(t) ==
  /\ Begin(t, "logout", "send", sessions)
  /\ sessions' = None
  /\ Unmoved
  /\ UNCHANGED <<pendingQr, closed, out, cache, tag, lock, updating>>

(* logout takes the session out of the map before it asks the daemon. *)
Logout(t) ==
  /\ sessions # None
  /\ Begin(t, "logout", "send", sessions)
  /\ sessions' = None
  /\ Unmoved
  /\ UNCHANGED <<pendingQr, closed, out, cache, tag, lock, updating>>

(* Any command that only uses the session (idle_set, achievements, ...). *)
Use(t) ==
  /\ sessions # None
  /\ Begin(t, "use", "send", sessions)
  /\ Unmoved
  /\ UNCHANGED <<sessions, pendingQr, closed, out, cache, tag, lock, updating>>

(* login_with_token: the resume lock, held to the end of the call. *)
Resume(t) ==
  /\ Begin(t, "resume", "queued", None)
  /\ Unmoved
  /\ UNCHANGED <<sessions, pendingQr, closed, out, cache, tag, lock, updating>>

(* Mutant: resumes are not serialised. *)
MutResumeUnlocked(t) ==
  /\ Step(t, "queued", "check")
  /\ lock' = t
  /\ Unmoved
  /\ UNCHANGED <<sessions, pendingQr, closed, out, cache, tag, updating>>

ResumeLock(t) ==
  /\ lock = None
  /\ Step(t, "queued", "check")
  /\ lock' = t
  /\ Unmoved
  /\ UNCHANGED <<sessions, pendingQr, closed, out, cache, tag, updating>>

(* A session with a known SteamID64 counts as resumed, and so does nothing *)
(* more; and without a saved token the call fails.                         *)
ResumeCheck(t) ==
  /\ \/ /\ Step(t, "check", "done")
        /\ lock' = None
     \/ /\ \A p \in Current : ~cache[p]
        /\ Step(t, "check", "spawn")
        /\ UNCHANGED lock
  /\ Unmoved
  /\ UNCHANGED <<sessions, pendingQr, closed, out, cache, tag, updating>>

(* get_or_spawn: by now a sign-in may have brought another process. *)
ResumeSpawn(t) ==
  \/ /\ sessions # None
     /\ task[t].pc = "spawn"
     /\ task' = [task EXCEPT ![t] = [@ EXCEPT !.pc = "send", !.target = sessions]]
     /\ Unmoved
     /\ UNCHANGED <<sessions, pendingQr, closed, out, cache, tag, lock, updating>>
  \/ /\ sessions = None
     /\ task[t].pc = "spawn"
     /\ task' = [task EXCEPT ![t] = [@ EXCEPT !.pc = "send", !.target = t]]
     /\ Lives({}, {t})
     /\ sessions' = t
     /\ tag' = [tag EXCEPT ![t] = "key"]
     /\ UNCHANGED <<pendingQr, closed, out, cache, lock, updating>>

(* ... or the executable cannot be started. *)
ResumeFails(t) ==
  /\ sessions = None
  /\ Step(t, "spawn", "done")
  /\ lock' = None
  /\ Unmoved
  /\ UNCHANGED <<sessions, pendingQr, closed, out, cache, tag, updating>>

-----------------------------------------------------------------------------
(* send_request.  Its sender is in the pending map while it waits; writing *)
(* to a process that is gone fails at once.                                *)
Send(t) ==
  LET p == task[t].target
  IN  /\ task[t].pc = "send"
      /\ IF Running(p)
           THEN /\ handling' = [handling EXCEPT ![p] = @ \cup {t}]
                /\ task' = [task EXCEPT ![t].pc = "wait"]
           ELSE /\ task' = [task EXCEPT ![t].pc = "answered"]
                /\ UNCHANGED handling
      /\ UNCHANGED <<sessions, pendingQr, life, closed, bot, waiting, out, cache, tag,
                     lock, updating>>

(* The deadline of a request: an answer that comes later finds no sender. *)
Timeout(t) ==
  /\ Step(t, "wait", "answered")
  /\ Unmoved
  /\ UNCHANGED <<sessions, pendingQr, closed, out, cache, tag, lock, updating>>

(* What a command does with its answer.  (A sign-in that succeeded also    *)
(* sends the saved persona state, whose outcome it ignores.)               *)
Finish(t) ==
  LET kind == task[t].kind
      failedQr == kind = "qr" /\ ~task[t].ok
  IN  /\ task[t].pc = "answered"
      /\ task' = [task EXCEPT ![t] = [@ EXCEPT !.pc = "done", !.target = None, !.ok = FALSE]]
      /\ lock' = IF kind = "resume" THEN None ELSE lock
      /\ pendingQr' = IF kind = "qr" /\ task[t].ok THEN pendingQr \cup {t} ELSE pendingQr
      /\ Lives(IF kind = "logout" \/ failedQr THEN {task[t].target} ELSE {}, {})
      /\ UNCHANGED <<sessions, closed, out, cache, tag, updating>>

-----------------------------------------------------------------------------
(* The daemon works on its requests concurrently, and writes lines.        *)
Writes(p, lines) ==
  /\ Running(p)
  /\ Len(out[p]) < MaxLines
  /\ out' = [out EXCEPT ![p] = @ \o lines]

Answers(p, t, newBot, lines) ==
  /\ t \in handling[p]
  /\ Writes(p, lines)
  /\ handling' = [handling EXCEPT ![p] = @ \ {t}]
  /\ bot' = [bot EXCEPT ![p] = newBot]
  /\ UNCHANGED <<sessions, pendingQr, life, closed, cache, tag, lock, task, updating>>

SignsIn(t) == task[t].kind \in {"login", "resume"}

(* A request fails by itself, because Steam refuses the logon it made, or  *)
(* because the connection is lost meanwhile.                               *)
Refuse(p, t) ==
  /\ \/ Answers(p, t, bot[p], <<Answer("fail", t)>>)
     \/ /\ SignsIn(t) /\ bot[p] # "stopped"
        /\ Answers(p, t, "refused", <<Event("off"), Answer("fail", t)>>)
     \/ /\ SignsIn(t) /\ bot[p] # "stopped"
        /\ Answers(p, t, "reconnecting", <<Event("reconnecting"), Answer("fail", t)>>)
  /\ UNCHANGED waiting

(* A logon is announced before the request that made it is answered; a     *)
(* sign-in that needs the user (a guard code, a QR scan) is answered first.*)
Grant(p, t) ==
  \/ /\ task[t].kind = "use"
     /\ Answers(p, t, bot[p], <<Answer("ok", t)>>)
     /\ UNCHANGED waiting
  \/ /\ task[t].kind = "logout"
     /\ \/ Answers(p, t, "stopped", <<Answer("ok", t)>>)
        \/ Answers(p, t, "stopped", <<Event("off"), Answer("ok", t)>>)
     /\ UNCHANGED waiting
  \/ /\ task[t].kind \in {"login", "qr"} /\ bot[p] # "stopped"
     /\ Answers(p, t, bot[p], <<Answer("ok", t)>>)
     /\ waiting' = waiting \cup {p}
  \/ /\ task[t].kind = "login" /\ bot[p] # "stopped"
     /\ Answers(p, t, "on", <<Event("on"), Answer("ok", t), Event("token")>>)
     /\ UNCHANGED waiting
  \/ /\ task[t].kind = "resume" /\ bot[p] # "stopped"
     /\ Answers(p, t, "on", <<Event("on"), Answer("ok", t)>>)
     /\ UNCHANGED waiting

Reports(p, to, lines) ==
  /\ Writes(p, lines)
  /\ bot' = [bot EXCEPT ![p] = to]
  /\ UNCHANGED <<sessions, pendingQr, life, closed, handling, cache, tag, lock, task,
                 updating>>

(* The end of a sign-in that waits for the user, who sees only a prompt    *)
(* that its command has returned: a logon, a logon Steam refuses, or none. *)
Authenticated(p) ==
  /\ p \in waiting /\ bot[p] # "stopped" /\ task[p].pc = "done"
  /\ waiting' = waiting \ {p}
  /\ \/ Reports(p, "on", <<Event("on"), Event("token")>>)
     \/ Reports(p, "refused", <<Event("off")>>)
     \/ Reports(p, bot[p], << >>)

(* SteamBot.OnDisconnected and OnLoggedOn: with saved logon details a lost *)
(* connection is retried, whether the logon was accepted or refused; a     *)
(* kick forgets them.                                                      *)
Connection(p) ==
  /\ \/ bot[p] \in {"on", "refused", "reconnecting"}
        /\ Reports(p, "reconnecting", <<Event("reconnecting")>>)
     \/ bot[p] = "reconnecting" /\ Reports(p, "on", <<Event("on")>>)
     \/ bot[p] = "reconnecting" /\ Reports(p, "refused", <<Event("off")>>)
     \/ bot[p] \in {"on", "off"} /\ Reports(p, "off", <<Event("off")>>)
  /\ UNCHANGED waiting

(* A daemon may die between two of the lines of a step. *)
Crash(p) ==
  /\ Running(p)
  /\ Lives({p}, {})
  /\ \E n \in 0..Len(out[p]) : out' = [out EXCEPT ![p] = SubSeq(@, 1, n)]
  /\ UNCHANGED <<sessions, pendingQr, closed, cache, tag, lock, task, updating>>

-----------------------------------------------------------------------------
(* The reader of p takes its next line. *)
Reads(p, kinds) ==
  /\ p \notin closed
  /\ out[p] # << >>
  /\ Head(out[p]).kind \in kinds
  /\ out' = [out EXCEPT ![p] = Tail(@)]

ReadAnswer(p) ==
  LET l == Head(out[p])
  IN  /\ Reads(p, {"ok", "fail"})
      /\ task' = IF task[l.task].pc = "wait"
                   THEN [task EXCEPT ![l.task] =
                           [@ EXCEPT !.pc = "answered", !.ok = l.kind = "ok"]]
                   ELSE task
      /\ Unmoved
      /\ UNCHANGED <<sessions, pendingQr, closed, cache, tag, lock, updating>>

(* Mutant: only a resolved SteamID64 updates the cache. *)
MutReadStatusKeeps(p) ==
  /\ Reads(p, {"on", "off", "reconnecting"})
  /\ cache' = [cache EXCEPT ![p] = @ \/ Head(out[p]).kind = "on"]
  /\ Unmoved
  /\ UNCHANGED <<sessions, pendingQr, closed, tag, lock, task, updating>>

(* should_update_steam_id: a reconnect in progress keeps the cached id. *)
ReadStatus(p) ==
  LET kind == Head(out[p]).kind
  IN  /\ Reads(p, {"on", "off", "reconnecting"})
      /\ cache' = [cache EXCEPT ![p] = IF kind = "reconnecting" THEN @ ELSE kind = "on"]
      /\ Unmoved
      /\ UNCHANGED <<sessions, pendingQr, closed, tag, lock, task, updating>>

(* refresh_token.  A saved token resolves the account of a QR sign-in:     *)
(* promote_pending_qr_session moves its process into the map in place of   *)
(* the one there, and the reader adopts the key in any case.  A token that *)
(* cannot be saved changes nothing.  The process leaves pendingQr under    *)
(* one lock and enters the map under another; in between only cancel_qr    *)
(* could miss it, and misses nothing a cancellation before or after would  *)
(* change: both are one step, taken with the second lock.                  *)
ReadToken(p) ==
  /\ Reads(p, {"token"})
  /\ \/ /\ tag[p] = "qr"
        /\ tag' = [tag EXCEPT ![p] = "key"]
        /\ IF p \in pendingQr
             THEN /\ pendingQr' = pendingQr \ {p}
                  /\ sessions' = p
                  /\ Lives(Current, {})
             ELSE Unmoved /\ UNCHANGED <<sessions, pendingQr>>
     \/ Unmoved /\ UNCHANGED <<sessions, pendingQr, tag>>
  /\ UNCHANGED <<closed, cache, lock, task, updating>>

(* Mutant: the requests still pending are forgotten. *)
MutEofForgets(p) ==
  /\ life[p] = "dead" /\ p \notin closed /\ out[p] = << >>
  /\ closed' = closed \cup {p}
  /\ Unmoved
  /\ UNCHANGED <<sessions, pendingQr, out, cache, tag, lock, task, updating>>

(* The end of stdout: every pending request is answered with a failure.    *)
(* Nothing else learns that the process is gone.  (The reader would also   *)
(* leave at a line that cannot be decoded, but the daemon writes plain     *)
(* ASCII: its serializer escapes the rest.)                                *)
Eof(p) ==
  /\ life[p] = "dead" /\ p \notin closed /\ out[p] = << >>
  /\ closed' = closed \cup {p}
  /\ task' = [t \in Task |->
       IF task[t].pc = "wait" /\ task[t].target = p
         THEN [task[t] EXCEPT !.pc = "answered"] ELSE task[t]]
  /\ Unmoved
  /\ UNCHANGED <<sessions, pendingQr, out, cache, tag, lock, updating>>

-----------------------------------------------------------------------------
CancelQr(p) ==
  /\ p \in pendingQr
  /\ pendingQr' = pendingQr \ {p}
  /\ Lives({p}, {})
  /\ UNCHANGED <<sessions, closed, out, cache, tag, lock, task, updating>>

(* The pre-update cleanup: kill_all empties the map; a later pass kills    *)
(* every process by name, or as many as it can.                            *)
KillAll ==
  /\ ~updating
  /\ updating' = TRUE
  /\ sessions' = None
  /\ Lives(Current, {})
  /\ UNCHANGED <<pendingQr, closed, out, cache, tag, lock, task>>

KillByName ==
  /\ updating
  /\ updating' = FALSE
  /\ \E killed \in SUBSET {p \in Process : Running(p)} : Lives(killed, {})
  /\ UNCHANGED <<sessions, pendingQr, closed, out, cache, tag, lock, task>>

-----------------------------------------------------------------------------
Issue(t) ==
  Login(t) \/ LoginFails(t) \/ BeginQr(t) \/ Logout(t) \/ Use(t) \/ Resume(t)

Continue(t) ==
  \/ ResumeLock(t) \/ ResumeCheck(t) \/ ResumeSpawn(t) \/ ResumeFails(t)
  \/ Send(t) \/ Finish(t)

Daemon(p) ==
  \/ \E t \in Task : Refuse(p, t) \/ Grant(p, t)
  \/ Authenticated(p) \/ Connection(p) \/ Crash(p)

Reader(p) == ReadAnswer(p) \/ ReadStatus(p) \/ ReadToken(p) \/ Eof(p)

Next ==
  \/ \E t \in Task : Issue(t) \/ Continue(t) \/ Timeout(t)
  \/ \E p \in Process : Daemon(p) \/ Reader(p) \/ CancelQr(p)
  \/ KillAll \/ KillByName

(* Tokio runs the readers.  Nothing is assumed of daemons, and deadlines   *)
(* are left out: what follows must not rest on them.                       *)
Spec == Init /\ [][Next]_vars /\ \A p \in Process : WF_vars(Reader(p))

-----------------------------------------------------------------------------
(* A command will kill p, or put it in a map, when it has its answer. *)
Held(p) ==
  \E t \in Task :
    /\ task[t].target = p /\ task[t].pc \in {"send", "wait", "answered"}
    /\ task[t].kind = "logout" \/ task[t].kind = "qr"

(* Whatever overlaps - sign-ins, QR promotions and their cancellation,     *)
(* resumes, sign-outs - no daemon runs that nothing will ever stop: two    *)
(* live daemons of one account would keep kicking each other.              *)
NoStray == \A p \in Process : Running(p) => p = sessions \/ p \in pendingQr \/ Held(p)

(* The process in the map and those waiting for a scan are different, and  *)
(* the one in the map tags its events with the account's key, or the pages *)
(* would never see them.                                                   *)
TagsMatch == sessions # None => tag[sessions] = "key" /\ sessions \notin pendingQr

(* AgentManager::resume_locks: overlapping resumes never have two requests *)
(* waiting.                                                                *)
ResumesSerialised ==
  \A t, u \in Task :
    /\ task[t].kind = "resume" /\ task[t].pc \in {"check", "spawn", "send", "wait"}
    /\ task[u].kind = "resume" /\ task[u].pc \in {"check", "spawn", "send", "wait"}
    => t = u

(* What the cache will be when the reader has caught up. *)
KnownAfter(p) ==
  LET n == Len(out[p])
  IN  \/ cache[p] /\ \A i \in 1..n : out[p][i].kind # "off"
      \/ \E i \in 1..n :
           out[p][i].kind = "on" /\ \A j \in i..n : out[p][j].kind # "off"

(* Through logons, refusals, kicks and reconnects the cached SteamID64 of a*)
(* running daemon follows its connection.                                  *)
CacheFollowsBot ==
  \A p \in Process : Running(p) =>
    /\ bot[p] = "on" => KnownAfter(p)
    /\ bot[p] \in {"off", "refused"} => ~KnownAfter(p)

(* The requests pending at a process that exits are answered, without      *)
(* waiting for their deadline.                                             *)
DeadAnswered ==
  \A t \in Task :
    (task[t].pc = "wait" /\ ~Running(task[t].target)) ~> task[t].pc # "wait"
=============================================================================
