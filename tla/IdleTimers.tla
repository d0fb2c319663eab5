----------------------------- MODULE IdleTimers -----------------------------
(***************************************************************************)
(* Manual idling and auto-idle of one account: the commands of the Games   *)
(* and Idling pages (src-tauri/src/idling/commands.rs, auto_idle/          *)
(* commands.rs), the "max idle time" timers that end what they started     *)
(* (idling/auto_stop.rs) and the evictions of the max-playtime poll        *)
(* (max_playtime/enforcement.rs).                                          *)
(*                                                                         *)
(* Claims are changed atomically here (the registry's lock; IdleClaims     *)
(* says what becomes of the announcements), but each command, timer and    *)
(* poll is a task that awaits between its steps, and all of them           *)
(* interleave.  Everything is keyed by SteamID64, so one account suffices. *)
(***************************************************************************)
EXTENDS ClaimSets

CONSTANTS
  Manual, AutoIdle,  \* the two owners whose games are timed
  Limited,           \* games with an effective max idle time
  Command,           \* the commands the pages issue: a task each
  None               \* "no game"

Timed == {Manual, AutoIdle}

ASSUME TimersAssumption ==
  /\ Timed \subseteq Owner /\ Manual # AutoIdle
  /\ Limited \subseteq App
  /\ None \notin App

VARIABLES
  claims,     \* claims[o]: the games owner o claims
  gens,       \* generations[o][g]
  timers,     \* spawned timers that have not woken yet
  fired,      \* timers past their check that have not released their game yet
  evicting,   \* games a poll found over the cap and has not released yet
  cmd,        \* cmd[c]: where the task of command c stands
  over,       \* history: timers, waiting or fired, whose session has ended
  unwatched   \* history: games left claimed without a timer, by a named cause

vars == <<claims, gens, timers, fired, evicting, cmd, over, unwatched>>

Timer == [owner : Timed, app : App, gen : Nat]
Eviction == [owner : Timed, app : App]

(* pc: the next step of the command; app: the game clicked; games: what    *)
(* was read, or what remains to be scheduled.                              *)
PC == {"new", "bumpManual", "bumpAuto", "release", "read", "write",
       "scheduleManual", "writeAuto", "scheduleAuto", "done"}
Task == [pc : PC, app : App \cup {None}, games : SUBSET App]

At(pc) == [pc |-> pc, app |-> None, games |-> {}]

TypeOK ==
  /\ claims \in OwnerClaims
  /\ gens \in [Timed -> [App -> Nat]]
  /\ timers \subseteq Timer
  /\ fired \subseteq Timer
  /\ evicting \subseteq Eviction
  /\ cmd \in [Command -> Task]
  /\ over \subseteq timers \cup fired
  /\ unwatched \in [Timed -> SUBSET App]

-----------------------------------------------------------------------------
(* A timer acts only if its generation is still the current one. *)
Current(tm) == tm.gen = gens[tm.owner][tm.app]

Watched(o, g) == \E tm \in timers : tm.owner = o /\ tm.app = g /\ Current(tm)

Bump(o, g) == gens' = [gens EXCEPT ![o][g] = @ + 1]

(* Every change of the claims goes through here.  It keeps the histories:  *)
(* which timers have outlived their session, and which games were left     *)
(* without a timer (`holes` adds to them).  `used` holds the timer whose   *)
(* release this is, if it is one.                                          *)
SetClaims(oc, holes, used) ==
  LET ended == {tm \in timers \cup fired : tm.app \in claims[tm.owner] \ oc[tm.owner]} IN
  /\ claims' = oc
  /\ fired' = fired \ used
  /\ over' = (over \cup ended) \ used
  /\ unwatched' = [o \in Timed |-> (unwatched[o] \cup holes[o]) \cap oc[o]]
  /\ UNCHANGED <<gens, timers>>

NoGames == [o \in Timed |-> {}]
Just(o, games) == [NoGames EXCEPT ![o] = games]

Goto(c, pc) == cmd' = [cmd EXCEPT ![c].pc = pc]
Finish(c)   == cmd' = [cmd EXCEPT ![c] = At("done")]

-----------------------------------------------------------------------------
Init ==
  /\ claims = Nobody
  /\ gens = [o \in Timed |-> [g \in App |-> 0]]
  /\ timers = {}
  /\ fired = {}
  /\ over = {}
  /\ evicting = {}
  /\ cmd = [c \in Command |-> At("new")]
  /\ unwatched = NoGames

-----------------------------------------------------------------------------
(* toggle_manual_idle on a game some owner claims is a stop.  It           *)
(* invalidates the timers of both owners before it releases the game.      *)
ToggleStop(c, g) ==
  /\ cmd[c].pc = "new"
  /\ g \in Union(claims)
  /\ cmd' = [cmd EXCEPT ![c] = [pc |-> "bumpManual", app |-> g, games |-> {}]]
  /\ UNCHANGED <<claims, gens, timers, fired, evicting, over, unwatched>>

BumpManual(c) ==
  /\ cmd[c].pc = "bumpManual"
  /\ Bump(Manual, cmd[c].app)
  /\ Goto(c, "bumpAuto")
  /\ UNCHANGED <<claims, timers, fired, evicting, over, unwatched>>

BumpAuto(c) ==
  /\ cmd[c].pc = "bumpAuto"
  /\ Bump(AutoIdle, cmd[c].app)
  /\ Goto(c, "release")
  /\ UNCHANGED <<claims, timers, fired, evicting, over, unwatched>>

Release(c) ==
  LET oc == WithoutApp(claims, cmd[c].app)
  IN  /\ cmd[c].pc = "release"
      /\ SetClaims(oc, NoGames, {})
      /\ Finish(c)
      /\ UNCHANGED evicting

(* toggle_manual_idle on an unclaimed game below its playtime cap is a     *)
(* start.  The manual claim is read, then written back with the game       *)
(* added: two separate locked accesses.                                    *)
ToggleStart(c, g) ==
  /\ cmd[c].pc = "new"
  /\ g \notin Union(claims)
  /\ cmd' = [cmd EXCEPT ![c] = [pc |-> "read", app |-> g, games |-> {}]]
  /\ UNCHANGED <<claims, gens, timers, fired, evicting, over, unwatched>>

ReadManual(c) ==
  /\ cmd[c].pc = "read"
  /\ cmd' = [cmd EXCEPT ![c].pc = "write", ![c].games = claims[Manual]]
  /\ UNCHANGED <<claims, gens, timers, fired, evicting, over, unwatched>>

(* Games of the stale read that are no longer claimed come back, without a *)
(* timer.  If the announcement fails the command returns early: the claim  *)
(* stays and no timer is set.                                              *)
WriteManual(c) ==
  LET g == cmd[c].app
      oc == WithOwner(claims, Manual, cmd[c].games \cup {g})
      back == cmd[c].games \ claims[Manual]
  IN  /\ cmd[c].pc = "write"
      /\ \/ /\ SetClaims(oc, Just(Manual, back), {})
            /\ cmd' = [cmd EXCEPT ![c].pc = "scheduleManual", ![c].games = {g}]
         \/ /\ SetClaims(oc, Just(Manual, back \cup {g}), {})
            /\ Finish(c)
      /\ UNCHANGED evicting

(* start_auto_idle_games: the enabled games of the queue below their       *)
(* playtime cap replace the auto-idle claim.                               *)
StartAuto(c, games) ==
  /\ cmd[c].pc = "new"
  /\ cmd' = [cmd EXCEPT ![c] = [pc |-> "writeAuto", app |-> None, games |-> games]]
  /\ UNCHANGED <<claims, gens, timers, fired, evicting, over, unwatched>>

WriteAuto(c) ==
  LET games == cmd[c].games
      oc == WithOwner(claims, AutoIdle, games)
  IN  /\ cmd[c].pc = "writeAuto"
      /\ \/ /\ SetClaims(oc, NoGames, {})
            /\ IF games = {} THEN Finish(c) ELSE Goto(c, "scheduleAuto")
         \/ /\ SetClaims(oc, Just(AutoIdle, games), {})
            /\ Finish(c)
      /\ UNCHANGED evicting

(* Mutant: the timer captures the generation before it is bumped. *)
MutScheduleOldGeneration(c, o, g) ==
  /\ cmd[c].pc = IF o = Manual THEN "scheduleManual" ELSE "scheduleAuto"
  /\ g \in cmd[c].games
  /\ Bump(o, g)
  /\ timers' = timers \cup
       IF g \in Limited
         THEN {[owner |-> o, app |-> g, gen |-> gens[o][g]]}
         ELSE {}
  /\ unwatched' = [unwatched EXCEPT ![o] = @ \ {g}]
  /\ IF cmd[c].games = {g} THEN Finish(c)
       ELSE cmd' = [cmd EXCEPT ![c].games = @ \ {g}]
  /\ UNCHANGED <<claims, fired, evicting, over>>

(* Mutant: a start does not bump; only a stop does. *)
MutScheduleWithoutBump(c, o, g) ==
  /\ cmd[c].pc = IF o = Manual THEN "scheduleManual" ELSE "scheduleAuto"
  /\ g \in cmd[c].games
  /\ timers' = timers \cup
       IF g \in Limited
         THEN {[owner |-> o, app |-> g, gen |-> gens[o][g]]}
         ELSE {}
  /\ unwatched' = [unwatched EXCEPT ![o] = @ \ {g}]
  /\ IF cmd[c].games = {g} THEN Finish(c)
       ELSE cmd' = [cmd EXCEPT ![c].games = @ \ {g}]
  /\ UNCHANGED <<claims, gens, fired, evicting, over>>

(* schedule_if_capped: bump, then arm a timer if the game has a limit.     *)
(* (Another bump between the two would leave a timer that never acts, as   *)
(* if it came after.)                                                      *)
Schedule(c, o, g) ==
  /\ cmd[c].pc = IF o = Manual THEN "scheduleManual" ELSE "scheduleAuto"
  /\ g \in cmd[c].games
  /\ Bump(o, g)
  /\ timers' = timers \cup
       IF g \in Limited
         THEN {[owner |-> o, app |-> g, gen |-> gens[o][g] + 1]}
         ELSE {}
  /\ unwatched' = [unwatched EXCEPT ![o] = @ \ {g}]
  /\ IF cmd[c].games = {g} THEN Finish(c)
       ELSE cmd' = [cmd EXCEPT ![c].games = @ \ {g}]
  /\ UNCHANGED <<claims, fired, evicting, over>>

(* The settings cannot be read: the command returns early, and this game   *)
(* and those after it get no timer; this one's old timer is invalid.       *)
ScheduleFails(c, o, g) ==
  /\ cmd[c].pc = IF o = Manual THEN "scheduleManual" ELSE "scheduleAuto"
  /\ g \in cmd[c].games
  /\ Bump(o, g)
  /\ unwatched' = [unwatched EXCEPT ![o] = @ \cup (cmd[c].games \cap claims[o])]
  /\ Finish(c)
  /\ UNCHANGED <<claims, timers, fired, evicting, over>>

(* resolve_steam_id fails (the account's daemon is gone) or so does the     *)
(* playtime check: the command returns early and no claim changes.  A stop *)
(* has bumped both generations by then, so its game stays and has no timer.*)
CommandFails(c) ==
  /\ cmd[c].pc \in {"release", "read", "write", "writeAuto"}
  /\ unwatched' = IF cmd[c].pc = "release"
       THEN [o \in Timed |-> unwatched[o] \cup ({cmd[c].app} \cap claims[o])]
       ELSE unwatched
  /\ Finish(c)
  /\ UNCHANGED <<claims, gens, timers, fired, evicting, over>>

-----------------------------------------------------------------------------
(* stop_owner_idling and stop_all_idling: the claims go, the generations   *)
(* stay.                                                                   *)
StopOwner(o) ==
  /\ claims[o] # {}
  /\ SetClaims(WithoutOwner(claims, o), NoGames, {})
  /\ UNCHANGED <<evicting, cmd>>

(* Mutant: the owner entries go with their games. *)
MutStopAllDropsEntries ==
  /\ Union(claims) # {}
  /\ claims' = [o \in {} |-> {}]
  /\ UNCHANGED <<gens, timers, fired, evicting, cmd, over, unwatched>>

StopAll ==
  /\ Union(claims) # {}
  /\ SetClaims(Nobody, NoGames, {})
  /\ UNCHANGED <<evicting, cmd>>

(* The card farmer and the achievement unlocker set their own claim.       *)
SessionClaim(o, games) ==
  /\ o \notin Timed /\ claims[o] # games
  /\ SetClaims(WithOwner(claims, o, games), NoGames, {})
  /\ UNCHANGED <<evicting, cmd>>

-----------------------------------------------------------------------------
(* The deadline: a timer whose generation is no longer current does        *)
(* nothing; any other goes on to release its game, and is not checked      *)
(* again however long that takes.                                          *)
Wake(tm) ==
  /\ timers' = timers \ {tm}
  /\ IF Current(tm)
       THEN fired' = fired \cup {tm} /\ UNCHANGED over
       ELSE over' = over \ {tm} /\ UNCHANGED fired
  /\ UNCHANGED <<claims, gens, evicting, cmd, unwatched>>

(* A poll of max_playtime::enforcement finds a claimed game over its cap.  *)
FoundOverCap(o, g) ==
  /\ g \in claims[o]
  /\ evicting' = evicting \cup {[owner |-> o, app |-> g]}
  /\ UNCHANGED <<claims, gens, timers, fired, cmd, over, unwatched>>

(* release_app_id_from_owner, by a timer or by the poll: whoever started   *)
(* the game, it is taken from the owner.                                   *)
Evict(e) ==
  /\ evicting' = evicting \ {e}
  /\ SetClaims(WithoutAppOf(claims, e.owner, e.app), NoGames, {e})
  /\ UNCHANGED cmd

(* The account's daemon is gone: the release fails, and the timer that     *)
(* wanted it is used up.                                                   *)
EvictFails(e) ==
  /\ evicting' = evicting \ {e}
  /\ fired' = fired \ {e}
  /\ over' = over \ {e}
  /\ unwatched' = [unwatched EXCEPT ![e.owner] = @ \cup ({e.app} \cap claims[e.owner])]
  /\ UNCHANGED <<claims, gens, timers, cmd>>

Releasing == evicting \cup fired

-----------------------------------------------------------------------------
Issue(c) ==
  \/ \E g \in App : ToggleStop(c, g) \/ ToggleStart(c, g)
  \/ \E games \in SUBSET App : StartAuto(c, games)

Continue(c) ==
  \/ BumpManual(c) \/ BumpAuto(c) \/ Release(c)
  \/ ReadManual(c) \/ WriteManual(c) \/ WriteAuto(c)
  \/ CommandFails(c)
  \/ \E o \in Timed, g \in App : Schedule(c, o, g) \/ ScheduleFails(c, o, g)

Next ==
  \/ \E c \in Command : Issue(c) \/ Continue(c)
  \/ \E o \in Timed : StopOwner(o)
  \/ StopAll
  \/ \E o \in Owner, games \in SUBSET App : SessionClaim(o, games)
  \/ \E tm \in timers : Wake(tm)
  \/ \E o \in Timed, g \in App : FoundOverCap(o, g)
  \/ \E e \in Releasing : Evict(e) \/ EvictFails(e)

Spec == Init /\ [][Next]_vars

(* A task that can run is run by tokio, and a sleep ends.  What the user   *)
(* does and what the poll finds is owed to nobody.                         *)
Fairness ==
  /\ \A c \in Command : WF_vars(Continue(c))
  /\ WF_vars(\E tm \in timers : Wake(tm))
  /\ \A o \in Timed, g \in App :
       WF_vars(\E e \in Releasing : e.owner = o /\ e.app = g /\ (Evict(e) \/ EvictFails(e)))

FairSpec == Spec /\ Fairness

-----------------------------------------------------------------------------
(* A command is about to give the game its timer, or about to release it.  *)
BeingScheduled(o, g) ==
  \E c \in Command :
    /\ cmd[c].pc = IF o = Manual THEN "scheduleManual" ELSE "scheduleAuto"
    /\ g \in cmd[c].games

BeingStopped(g) ==
  \E c \in Command : cmd[c].pc \in {"bumpAuto", "release"} /\ cmd[c].app = g

BeingEvicted(o, g) == \E e \in Releasing : e.owner = o /\ e.app = g

(* A limited game that is claimed is watched by a live timer, or a task    *)
(* holds it, or it is one of the named holes: written back by the start of *)
(* another game, or left by a start, a stop or a release that failed       *)
(* halfway.  No interleaving opens another one.                            *)
LimitEnforced ==
  \A o \in Timed : \A g \in claims[o] \cap Limited :
    \/ Watched(o, g)
    \/ BeingScheduled(o, g) \/ BeingStopped(g) \/ BeingEvicted(o, g)
    \/ g \in unwatched[o]

(* A timer whose own session is over is out of date once the start of the  *)
(* next session of its game is through, save where that start failed or    *)
(* came from a stale read: all timers still asleep are disarmed by then,   *)
(* however the session before has ended (schedule_if_capped).  It does not *)
(* help against the ones past their check; see NeverFiresAgainstNew.       *)
OldTimersOutdated ==
  \A tm \in over :
    Current(tm) /\ tm.app \in claims[tm.owner]
      => BeingScheduled(tm.owner, tm.app) \/ tm.app \in unwatched[tm.owner]

(* The documented contract (auto_stop.rs:70-74): the start of a session    *)
(* bumps the generation, so that the timer of a start before it "can never *)
(* fire against this new session".  The code checks the generation once,   *)
(* before it resolves the account and takes the registry's lock.           *)
NeverFiresAgainstNew ==
  [][\A tm \in over :
       tm \in fired \ fired' /\ tm.app \in claims[tm.owner] \ claims'[tm.owner]
         => BeingScheduled(tm.owner, tm.app) \/ tm.app \in unwatched[tm.owner]]_vars

(* A limited game does not stay claimed for ever, except through a hole.   *)
LimitReached ==
  \A o \in Timed : \A g \in Limited :
    g \in claims[o] ~> g \notin claims[o] \/ g \in unwatched[o]
=============================================================================
