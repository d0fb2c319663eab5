# Formal model of Steam Game Idler

Steam Game Idler keeps Steam accounts "playing" games: by hand, from an
auto-idle list, while it farms trading cards, or while it unlocks achievements.
The TLA+ modules here model the parts of the program where these activities meet
and race - the Rust backend, the C# daemons it drives, and the React pages that
command and show it - check them with TLC on small instances, and prove the
central facts with TLAPS for every instance.

Paths below are relative to `src/`: `src-tauri/src/` is the backend (short: `rs:`),
`libs/SteamUtility/` the daemon, `src/` the user interface (short: `ts:`).

## 1. The system

| Component | Source | State it keeps | Operations |
|---|---|---|---|
| Idle-claims registry | `rs:idling/claims.rs` | per account, per owner: the claimed games | `replace_owner_claim`, `release_app_id`, `release_app_id_from_owner`, `clear_owner`, `clear_all`, `clear` |
| Idle backends | `rs:idling/manager.rs` (CLI mode), `libs/.../IdlingManager.cs` (agent mode) | the games that really idle | `set_games` / `idle_set`, poller, `kill_all` |
| Idling commands | `rs:idling/commands.rs` | none | `toggle_manual_idle`, `stop_all_idling`, `stop_owner_idling` |
| Max-idle-time timers | `rs:idling/auto_stop.rs` | a generation per (account, game, owner), sleeping tasks | `bump`, `schedule_if_capped`, the task's wake-up |
| Max-playtime enforcement | `rs:max_playtime/enforcement.rs` | baseline per claimed game | one poll a minute, evicts |
| Card farmer | `rs:card_farming/manager.rs` | one session per account: stop flag, wake permit, exclusions, lists | `start`, `stop`, `remove_active_game`, `run_cycle` |
| Achievement unlocker | `rs:achievement_unlocker/manager.rs` | one session per account: stop flag, idling set, exclusions, the pass and its workers; the stored queue | `start`, `stop`, `remove_active_game`, `run_loop`, its workers |
| Agent manager | `rs:steam_agent/manager.rs` | sessions, pending QR sign-ins, resume locks | `login`, `login_with_token`, `logout`, QR promotion, `kill_all` |
| Agent IPC client | `rs:steam_agent/process.rs` | pending requests by id, cached SteamID, cached idle set | `send_request`, the stdout reader, `handle_session_superseded` |
| Daemon | `libs/SteamUtility/Daemon/` | connection, log-on, back-off, idle set | request lines, Steam callbacks |
| Pre-update cleanup | `rs:updater.rs` | none | `kill_all_steam_utility_processes` |
| Stored lists | `rs:favorites/`, `auto_idle/`, `card_farming/`, `achievement_unlocker/cache.rs` | per account: favorites, auto-idle list, unlock queue, whitelist, blacklist | read, add, remove, enable, reorder, clear, each under a lock |
| Signed-in accounts | `ts:shared/stores/sessionStore.ts`, `shared/hooks/useSessionBootstrap.ts`, `AccountSwitcher`, `signOutAccount` | the accounts and the active one, and their copy in localStorage | resume at startup, sign-in, switch, sign-out, the cap of a subscription |
| Dashboard views | `ts:shared/stores/{idling,cardFarming,achievementUnlocker}Store.ts` and their sync hooks | per account: what the backend last reported; a copy of the active one | events, reads on activation, answers of commands, "Done" |
| Game lists on the pages | `useFavorites`, `useAutoIdle`, `useAchievementUnlockerQueue`, `useCardFarmingWhitelist`, `useCardFarmingBlacklist`, `gameListsBus` | the list shown, whether it loads, the cards that wait | load, add, toggle, remove, drag, bulk actions, context menu |
| Steam Community cookies | `rs:steam_community/`, `ts:shared/stores/steamCookiesStore.ts`, `useAutoConnectSteamCookies`, `useCardFarming`, `useInventory`, `useSteamCredentialsSettings` | the set saved per account, its cache, the set a page goes on with | check, connect, request, save, acquire, clear; expiry in a request or in mid-cycle |
| Scrapers, inventory, free games, shell, other pages, docs site | the rest | - | HTTP, files, markup |

How they interact. Four *owners* - the manual toggle, auto-idle, the card farmer
and the unlocker - never talk to a backend. Each replaces its own claim in the
registry; the registry announces the *union* of the account's claims, capped at
32 games, to the account's backend: the daemon of an agent account, which takes
the whole set or nothing, or the child processes of the one CLI-mode account,
which start and die one by one. Timers, the max-playtime poll and the stop
buttons take games back through the same registry, and the stop button of one
game also tells the card farmer and the unlocker, which keep their own lists.
The managers chain into each other when they run out of work. Everything in the
backend runs as tokio tasks on several threads: between two awaits any other
task may run.

The user interface is one JavaScript thread: a step ends at an `await`, and what
crosses are answers, events, timers and the user. It keeps copies - of who is
signed in, of what the backend runs, of the lists the backend stores - and its
commands carry the copies back. The account may change under every page.

What is hard:

* every call of the registry changes the claims under a lock and announces after
  dropping it, so announcements are overtaken;
* commands read a claim, await, and write it back;
* timers are never cancelled, only outdated;
* sessions are flagged, not aborted, and deregister themselves late; the workers
  of the unlocker share an idling set and read the exclusions under another lock;
* daemons exit, sign out and are kicked while calls are in flight, and failed
  calls are not retried;
* the resumes of a startup answer late, after the splash has given up on them;
* answers and events reach a page that has turned to another account, and lists
  are written back whole;
* the cleanup before an update runs while all this goes on.

What makes each component correct: the backend idles the union of the claims;
a game with a limit does not idle for ever; a new session disarms the timers of
the old ones; an account has one cycle, which can be stopped, ends when stopped, and
takes its claim along; a game taken out of a session stays out; no daemon is
left behind; no account is forgotten but by its sign-out; a page that becomes active heals; a list
loses nothing and mixes no accounts; a cookie set that was struck off is not
tried again. The `hazards` in `PROJECT.json` give each
danger at its line, with the property that watches it.

## 2. Modules

| Module | Models |
|---|---|
| `ClaimSets` | the claims of one account: union, cap, what each mutator does |
| `IdleClaims` | the registry for all accounts, its calls in two parts, the backends' answers and losses, the wipe before an update |
| `IdleBoard` | abstract: a backend only ever takes a union of all claims that is still on offer; `IdleClaims` refines it |
| `IdleTimers` | commands, timers and evictions for one account |
| `FarmingSession` | the card farmer of one account: registry, cycles, stop button |
| `UnlockerSession` | the unlocker of one account: session, passes, workers, stop button, queue |
| `AgentSessions` | the sign-in commands of one account key, the daemons they spawn, the pipes and their readers |
| `KeyOrder` | finite sets of keys in the order in which they were added |
| `SignedInAccounts` | who is signed in: store, localStorage, startup, switcher, cap |
| `AccountViews` | what the dashboard shows of an account's automations |
| `GameLists` | one of the five lists: file, page, bus and commands in flight |
| `CookieSessions` | the Steam Community cookies of all accounts: saved, cached, and in use by a page |
| `*Proofs` | proofs about the module, or group of modules, of that name |
| `CardFarmingProofs` | proofs about `FarmingSession` and about `CookieSessions`; the farmer's names carry its name so that both can be extended |
| `MC*` | TLC instances: symmetry sets, model values, functions as constants |

### IdleClaims

`claims[a][o]` is the registry's map. `call[t]` is a task between the end of the
locked part and the answer of the backend: it carries the union it computed.
Each mutator is one action (`ReplaceOwnerClaim`, ...), all built on `Claim`; a call
ends in `Announce`, `AnnounceFails` (agent mode) or `AnnouncePartly` (CLI mode). The
backend is the set `playing[a]`; `LoseGames` is a dead process or daemon.
`KillAll` and `Clear` are the two halves of the pre-update cleanup, between which
other calls run. `blame[a]` is history: the last reason the backend may differ
from the claims. Games have no names, a missing owner is an empty one, and which
games survive the cap is arbitrary, as it is in the code's hash maps. Callers
that fail to resolve an account change nothing and are left out.

`IdleBoard` is what is left of the registry for a backend, under the locking the
code really has: `wanted` is the union of the claims, `offers` are the unions computed
and not yet answered, `playing` what idles. A backend takes one of the offers,
perhaps not the newest; it never takes a set that was no union of all owners'
claims, nor one that no call in flight still carries. The map is `wanted`, `offers`
and `playing` as defined at the end of `IdleClaims`.

### IdleTimers

Claims change atomically here; what is interleaved are the *callers*. Each
`Command` is one Tauri command with a program counter, one action per await:
a stop is `ToggleStop`, `BumpManual`, `BumpAuto`, `Release`; a start is
`ToggleStart`, `ReadManual`, `WriteManual`, `Schedule`; auto-idle is `StartAuto`,
`WriteAuto`, `Schedule` per game. Every fallible step has its failure
(`ScheduleFails`, `CommandFails`, the second disjuncts of the writes). Timers sleep
in `timers` and `Wake` into `fired` if their generation is current (`auto_stop.rs:95`);
from there nothing asks for the generation again until the game is released
(`:103`). The poll puts games into `evicting` (`FoundOverCap`), and `Evict` or
`EvictFails` ends the release of either. Time is abstracted: a sleeping timer may
wake at any moment. `over` and `unwatched` are histories used by the properties only.
`LimitEnforced` has named holes, and two of them are visible to a user: a start in
flight writes a game back that was evicted while it waited
(`rs:idling/commands.rs:162`), and stop-all bumps no generation, so its timers stay
current for the next claim.

A timer of an earlier session is harmless as long as it sleeps: the start of the
next session makes it outdated (`OldTimersOutdated`). One past its check is not: if
the game is stopped and started again before it has resolved the account and got
the registry's lock, it ends the new session. `timers_late` shows this against the
doc of `schedule_if_capped` (`NeverFiresAgainstNew`).

### FarmingSession

`entry` is the account's slot in the manager's map. `Start` and `Insert` are the
two lock acquisitions of `start`; the cycle runs from the spawn on. The cycle's
program counter follows `run_cycle` and `run_restart_cycle`; each wait (`WaitEnds`)
ends on time, by the stop flag or by a wake permit. `Click` tasks run
`toggle_manual_idle`'s stop: `StopGame`, `Exclude`, `Untrack`, `ReleaseGame`. Every
announcement may fail before it changed the claim. Which games are eligible is
arbitrary at each pass (the filters are data); `select_phase` picks any nonempty
subset of them. `FarmingSpec` lets starts and stops overlap, and then two cycles can
run: `crossed` is history, set by a start that meets another start between its check
and its insertion, or a stopped task that has not ended, and cleared once all cycles
have ended. `SequentialSpec` is the page's own button. The pass in flight may idle an excluded
game once more; what is checked is that it ends there.

### UnlockerSession

`registered` and `stopped` are the slot in the map and the flag; `loop`, `backlog` and
`ready` are `run_loop`'s pass; each `worker[w]` walks a game through `unlock_game`.
`apps` is the shared idling set, `excluded` the exclusions, `claim` the owner's claim in
the registry. `Top`, `Scan`, `ScanEnds`, `UnlockEnds`, `Ending` and `Remove` are the loop;
`Take` to `Dequeue` the worker, with each wait ended by time or by the stop. Reading
the exclusions (`Starting`, `Head`) and adding to the idling set (`Idle`) are two
steps, as their two locks make them. Settings, schedule, delays and playtime caps
are arbitrary outcomes of `Starting` and `Head`; the retries of an unlock are one
action; a game is scanned at once. One session runs at a time: overlapping
sessions are the subject of `FarmingSession`, whose manager has the same shape.
`out` and `leaked` are histories: games whose exclusion no worker can have missed,
and claims whose release has failed, which nothing in a session makes up for.

### AgentSessions

A `task` is one command of `AgentManager` with a program counter; the process it
may spawn and the request it sends bear its name. `sessions`, `pendingQr` and `lock`
are the manager's fields for the key; `life`, `bot`, `handling` and `waiting` are
the daemon (running, its connection, the requests it works on, a sign-in that
waits for the user); `out`, `closed`, `cache` and `tag` are its pipe and what
`process.rs` keeps: unread lines, the end of the stream, `steam_id`, `account_key`.
Commands begin with `Login`, `BeginQr`, `Logout`, `Use` (any command that only needs
the session) or `Resume`, go through `Send`, and end in `Finish` after an answer, a
`Timeout` or the end of the stream. `Refuse`, `Grant`, `Authenticated` and
`Connection` are the daemon; each may write several lines in its order. The reader
is `ReadAnswer`, `ReadStatus`, `ReadToken` and `Eof`; a QR sign-in is promoted by
`ReadToken`. `Crash`, `CancelQr`, `KillAll` and `KillByName` end processes;
`LoginFails` and `ResumeFails` are daemons that cannot be started. Map
operations that hold a lock across a kill are one step. The code also kills a
child when its last handle is dropped; `NoStray` shows that nothing rests on
that. `ReadToken` takes the promotion's two locks (`manager.rs:248`, `:256`) in one
step: in between, only `cancel_qr_login` could look for the entry (`:237`), and it finds
nothing once the promotion has taken its entry, and `kill_all` (`:733`) looks at the
sessions, as it does before or after the step. `Eof` is the reader's only end: it
also stops at a line that is no UTF-8 (`process.rs:218`), but the daemon's serializer
writes ASCII only (`IpcServer.cs:20-31`, no encoder is set), and a failing read of a
pipe is a failure of the operating system. A daemon that exited leaves its SteamID64 in the cache: `CacheFollowsBot`
speaks of running ones. Not in this model: the saved-token store (whether it has
a token, or can save one, is arbitrary), guard codes, which Steam account a QR
scan resolves (always this one), and the effect of a kick on the other managers.

### SignedInAccounts

`stored` is localStorage, `accounts` and `active` the session store, all of them
ordered listings (`KeyOrder`), because the cap counts in the order of addition.
`boot` follows `useSessionBootstrap`: `BootStart` asks every account the cached tier
admits, `RaceEnds` is the four-second race, `GraceEnds` the longer wait when
nothing came back, `LateEnds` the stragglers; `outcome[k]` is what a resume came to,
which may be never. `SignsIn` is any form that succeeds, also one that has been
left; `RequestSwitch` / `SwitchChecked` and `RequestSignOut` / `SignOutEnds` are the
switcher's rows with their awaits; `Wipe` is the sweep after the last sign-out,
`TierChecked` and `Enforce` the subscription and the cap, `Restart` a crash or a
quit at any moment.

Two answers of stragglers go wrong in the code, and `AccountsKept` names them as
its only exceptions. `LateFailure`: the user has signed in by hand meanwhile, and the
failure of the old resume forgets what the sign-in stored
(`useSessionBootstrap.ts:249`). `LateReturn`: the account has been signed out
meanwhile, and its resume, answered before that, lists it again, unpersisted
(`:253`). All the stragglers are taken up together, when the last of them has
answered, which leaves time for both.

### AccountViews

`feature` picks one of the three stores at the start: they are alike but for the
named operators `SetAppIds`, `UpdateFarming`, ... . `session[k]` is what the backend
runs; in idling, that is the processes or what the daemon last reported, and
`claimed[k]` the claims registry, which is read apart from it (`get_idle_claims`) and
keeps its games when a process dies (`Exits`), an announcement fails or comes late
(`Reclaims`, `Idles`). `entries`, `view` and `dismissed` are the store; `calls` are commands and reads in
flight, `events` what is on its way to the global listener. `Activate` runs the
three effects of an account change in their order: the cancellable reads are
dropped, the listener goes, new reads are asked for; `Listen` is the round trip
after which Tauri knows the new listener. `ServeAutoIdle` answers with what idles, or,
for an agent account, with what was asked for, which the daemon may not have done
yet. Elapsed-time stamps are left
out. `calm` is history: nothing has changed since the account became active.

### GameLists

`list` picks one of the five. `saved` are the files, `shown`, `loading` and `pending`
the hook's state, `calls` the commands in flight: `Serve` runs one under the list's
lock, `Return` hands the answer to the page that asked if it is still there.
`Switch` keeps the old list until the load is back, as four of the hooks do.
`Reorder` is every write of a whole list (drag, "Add all", "Clear"), `Prune` a run
that takes a game off. `HandleBlacklist` is two commands: when the blacklist's has
ended, well or not, `Moved` asks for the game's removal from the whitelist of the
account for which the user had clicked. A list is the set of its games: the order itself and the
enabled flag of auto-idle are abstracted. `own` and `calm` are histories.

### CookieSessions

`saved` is the credential store, `entries` and `shown` are `steamCookiesStore`, `page` is
the mounted one of the two pages with the set it goes on with (`ref`), `calls` the
commands in flight and the events of an expired cycle: it reports the expiry
(`card_farming/manager.rs:718`) and, after it has let go of its claim, its end
(`:807`), with the flag still set (`Follows`). A command carries its set
and its account; `Serve`, `EnsureValid`, `ServeRead` and `ServeWrite` run it in the
backend, `ReturnRead`, `ReturnWrite`, `Connected`, `Refused`, `Done`, `Removed` and `Expired`
take its answer. The account changes in `Turn`; the effects it sets off run in
React's order, the page's `AutoConnect` before `Sync` of the shell around it, and
nothing comes between them (`Quiet`). Steam may accept or refuse a set at any
time, and the subscription may change between any two steps, so neither is kept
as state. What a user pastes for an account, and what the sign-in window
acquires, is taken to belong to it. That is an assumption about the user: the
panel's form (`SteamCookiesConnectPanel.tsx:123`, `:138-147`) keeps its text when the
account changes under a mounted page, so what is submitted then may have been
filled in for the account before; the backend saves any set Steam accepts. `blamed` is history: the cache and the store
of an account may differ because a set could not be saved, an event was lost, the
settings' own sign-in ended in an expired session (`useSteamCredentialsSettings.ts:112`
handles no expiry), or two commands crossed.

The model also shows what is *not* promised: because the page's effect runs first,
a page that is still mounted when the account changes connects the new account
with the set cached for the old one. If Steam refuses it, what is struck off is
the set saved for the *new* account. Nothing foreign is ever kept, though
(`SetsStayOwn`).

## 3. What the runs check

| Run | Checks | Result |
|---|---|---|
| `claims` | `DriftExplained`, `WithinCap`, `ImplementsBoard`, `TypeOK` | hold: overlapping calls cost agreement only through an overtaken announcement; the cap is never exceeded; a backend takes only unions of all claims that a call in flight carries |
| `claims_stale` | `NoLastingStaleUnion` | **violated**: two calls announce in the opposite order of their changes |
| `timers` | `LimitEnforced`, `OldTimersOutdated`, `LimitReached`, `TypeOK` | hold: outside the named holes no interleaving leaves a limited game unwatched; a new session outdates the timers of earlier ones that still sleep; a limited game does not stay claimed for ever |
| `timers_late` | `NeverFiresAgainstNew` | **violated**: a timer past its check ends the session started after a stop in between |
| `farming` | `NoOrphanClaim`, `OneReachableCycle`, `StopEnds`, `ExclusionSettles`, `FarmingTypeOK` | hold when starts wait for what went before: one cycle, always reachable, that ends when stopped; overlapping starts are the proofs' part |
| `unlocker` | `ClaimOwned`, `OutStaysOut`, `SessionEnds`, `TypeOK` | hold: a claimed game has a worker or click that lets go of it unless a release failed; an excluded game stays out; a session ends |
| `sessions` | `NoStray`, `ResumesSerialised`, `CacheFollowsBot`, `DeadAnswered`, `TypeOK` | hold: however two commands overlap with crashes, kicks, cancellations and an update, every running daemon is one somebody will stop, the cached SteamID64 follows the connection, and requests to a dead daemon are answered |
| `accounts` | `AccountsListed`, `AccountsKept`, `StartupEnds`, `CapSettles`, `TypeOK` | hold: but for the two late answers no account is lost or listed unpersisted, the splash ends though resumes never answer, stragglers still join, and the dashboard settles within the cap |
| `views` | `ActivationHeals`, `RunningIsArmed`, `NoResurrection`, `TypeOK` | hold: whatever events are lost and answers late, an account that becomes active is shown as the backend has it, claims and games apart; a second session shows its summary though the first one's was dismissed |
| `lists` | `NothingStuck`, `OneAtATime`, `UnorderedIsOwn`, `NothingLost`, `TypeOK` | hold: for a user who waits for every answer the list shown is the list saved and nothing is lost; nothing waits for ever, and unordered lists never mix accounts |
| `lists_foreign` | `ListIsOwn` | **violated**: "Add all" right after a switch writes the old account's queue into the new one's file |
| `cookies` | `SetsStayOwn`, `ChecksEnd`, `CacheTrue`, `TypeOK` | hold: however connects, settings, switches and expiries cross, no set is kept for another account, the check of a shown account ends, and the cache does not hold what was struck off |

The violated ones are statements of the code's own comments; `findings` in
`PROJECT.json` quotes each of them and says what the code does instead.

Bounds. *claims*: an agent and a CLI account, two owners, two games, cap 1, two
overlapping calls: two owners exceed the cap, an announcement is overtaken by
another, every failure occurs. A third concurrent call adds only more orders of
the same pairwise race. *timers*: one limited game, two
owners with timers and one without, three commands, each run once: enough for
start, stop and restart to overlap. Games meet only in the claim they share, and
the proofs hold for any number. *farming*: two starts, two games, one stop
button; a third session repeats the second. *unlocker*: two games, two workers,
one stop button; one game has two achievements and an override of one, the other
is done before its override (`MCUnlockerSession`); one mishap (`MaxMishaps`): a
failed call, an achievement that cannot be unlocked, a queue edited meanwhile.
Sessions follow each other without bound. *sessions*: two commands of any kind,
each with its daemon; a daemon writes only when its last line has been read
(`MaxLines`), but up to three lines at once; three commands exceed what a run may
take, and the proofs hold for any number. *accounts*: two agent accounts and a
local one, of which two are known at a time (`MaxKnown`), with caps 1 and 2: the
cap locks one, a third takes the place of one that was signed out. *views*: two
accounts and two sessions in all (`MaxCycle`), of one account or of both; in idling one set
of games that owners claim and give up any number of times (`MaxSets`); three commands in
flight (the page asks for another only while three more could be), one event on its
way: an event, a read and an answer can cross a switch and a switch back. *lists*: two
accounts, two games, two commands in flight, so an answer of one account meets a
command of the other. *cookies*: an agent account and a local one, each with a
set; the user asks when nothing is in flight and moves about while one command is
(`MaxCalls`), so a request, the new account's check and its automatic connect are
in flight together; an account is signed out meanwhile only if it is the last,
for with others left that crosses the same calls as a switch. Where commands, sessions or clicks are used up the system
may come to rest; the configurations of these modules (*timers*, *farming*,
*unlocker*, *sessions*) turn the deadlock check off, the others keep it.

Fairness. Safety needs none. `IdleTimers!FairSpec` assumes that a command in
progress continues, that a sleeping timer wakes and that a begun release ends:
tokio runs what can run, `sleep` returns, and each IPC request has a timeout. No
fairness is assumed of users, of the poll, or that a call succeeds.
`AgentSessions` assumes only that readers read: no daemon need answer and no
deadline need pass for `DeadAnswered`. `FarmingSession` assumes that a cycle
takes its next step - its waits are bounded and its HTTP and IPC calls return -
and that begun clicks and starts continue. `UnlockerSession` assumes only that
*some* task of the session goes on (`SessionStep`), and that mishaps are finitely
many: with an error in every pass a session need not end. `SignedInAccounts`
assumes that the timers of the bootstrap fire and that React runs the effect of
the cap; a resume need not ever answer. `AccountViews`, `GameLists` and
`CookieSessions` assume nothing.

`SequentialSpec` is the environment of the page's own button, which is disabled
while a start or stop is under way; `FarmingSpec` adds what the app can do as well: the
automatic start at launch, the next-task chain, the kick of a superseded session,
`stop_all_idling`. The two liveness properties are checked under the first only, whose
state space is small enough for them; `FarmingTypes`, `NoOrphanClaim`,
`OneReachableCycle` and the safety half of `ExclusionSettles` are proved under
`FarmingSpec`.

## 4. What is proved

Proved by TLAPS, for any accounts, owners, games, tasks, workers and caps:

* `IdleClaimsProofs`: `TypeCorrect`; `CapRespected` (with the strengthening that
  every *waiting* union is already capped: a call carries its set across the
  await); `DriftAlwaysExplained`, inductive as it stands given the types;
  `RegistryImplementsBoard`: every step of the registry, with its lock dropped as in
  the code, is a step of `IdleBoard` or leaves it alone. What makes it more than a
  renaming is that an answered call may or may not take its offer along, as another
  task may carry the same union.
* `IdleTimersProofs`: `TypeCorrect`; `LimitAlwaysEnforced`, one lemma per action:
  each step that ends a watch - a bump, a wake-up, a finished schedule - hands
  the game to the task, eviction or hole named in the invariant;
  `OldTimersStayOutdated`, which needs that no timer is ahead of its game's
  generation (`TimersBehind`), so that one bump disarms them all.
* `CardFarmingProofs`, of the farmer: `FarmingTypes`;
  `NoClaimOrphaned` for any number of overlapping cycles; `OneCycle`, over
  overlapping starts and stops too: the invariant is claimed wherever nothing has
  crossed, together with `OnTheWay` (at most one start is between its check and its
  insertion, and the registry is empty until then), and comes back when the last of
  the crossed cycles has ended; and `BarredStaysOut`, the safety half of `ExclusionSettles`: once a
  stop is through (`ToldExcluded`: the click that releases a game has put it among
  the exclusions) and the pass that may have read them before it is over
  (`PassOver`), no step lets the session idle the game again.
* `CardFarmingProofs`, of the cookies, for any number of accounts, sets and
  commands in flight: `CookieTypes`, which needs that whoever is heard is still
  mounted (`Heard`); `SetsKeptOwn`, with `Owns`: what a command is about to save or
  cache belongs to its account, and what a page merely goes on with is never
  saved; `ChecksAnswered`, inductive given the types, because only a return that
  fills the entry, or a change of the account, takes a check away; and
  `CacheHonest`, whose invariant `TrueInv` says that two commands of an account that is
  not blamed never cross (`Apart`) and, command by command, what each leaves true
  while it is under way (`Sound`): the two sides agree, or the command brings what is saved,
  or it is about to save what is cached, or it carries the order to drop it. Each action is
  first reduced to what it does to commands, cache and store (`Navigates`, `Asks`,
  `Served`, `Returned`), and the invariants are proved of those four.
* `UnlockerSessionProofs`: `UnlockerTypeOK`, `ClaimIsOwned`, `MaxRespected` and
  `ExclusionHolds` from one invariant, `IInv`: each worker's record is sound for
  where it stands (`AllSound`), workers beyond the width are unused (`Unused`), the
  idling set belongs to workers (`AppsOwned`) - that is what makes the cleanup's test
  of the set enough - and a game in `out` has no worker about to idle it.
* `AgentSessionsProofs`: `TypeCorrect`, and `NoneStrays`, `SessionsTagged` and
  `OneResume` from one invariant, `SInv`. It adds that a command which has not
  begun has no process (`Fresh`), that a sign-in talks to its own process only
  (`OwnProcess`), that a QR sign-in waiting for its code is in no map and has
  written no token (`QrApart`), that a pending one bears the placeholder
  (`PendingTagged`), and that a resume holds the lock (`LockHeld`). `NoStray` needs
  all but the last: a token that were read while its sign-in still waits for the
  code would find nothing to promote, and the process would be filed too late.
  `CacheFollows` has an invariant of its own, `CInv`: what the reader will hold once
  it has read the lines in the pipe (`Known`) tells whether the running daemon is connected
  (`AllFollow`), and the process of a command that has not spawned it has written
  nothing and is nobody's target (`Unspawned`). Its steps are those of the daemon,
  whose last line is what counts, of the reader, which moves the head of the pipe
  into the cache, and of the kills, after which a process no longer runs.
  `WaitersHeard`, the safety half of `DeadAnswered`, builds on it (`AInv`): a
  request is dropped by its daemon only with the answer in the pipe (`Serves`), taken
  from the pipe only by the command it answers (`Takes`), and the end of the
  output, which comes only after the daemon's death (`ClosedDead`), answers the rest.
* `SignedInAccountsProofs`: `AccountsTypeOK`, `AllAreListed` and `AccountsStay`, the last with `LateFailure` and
  `LateReturn` as its only exceptions. The invariant adds to the types what the startup still
  owes (`Startup`): what is stored and not yet listed is waiting or already resumed.
* `AccountViewsProofs`: `ViewsTypeOK`, `ViewIsEntry`, `Armed`, `Heals` and
  `NoComeback`. `Heals` is the hard one: `CalmCarries` says what each answer in
  flight for the active account must hold while nothing has changed, store by
  store (`ByFeature`), so that no order of their arrival can undo the right one.
* `GameListsProofs`: `ListsTypeOK`, `CardsWait`, `WaitingShowsSaved`,
  `UnorderedNeverMixed` and `WaitingLosesNothing`, from one invariant that ties each
  waiting card to the one call it waits for.

Assumptions are those of the modules' named `ASSUME`s: finitely many games or
keys where sets are counted, natural bounds, CLI accounts among the accounts,
agent accounts among all of them, `None`, `Nothing` and `Free` outside the sets they extend,
limited games among the games.

Only model-checked: the liveness properties - `LimitReached`, `StopEnds`,
`ExclusionSettles`, `DeadAnswered`, `StartupEnds`, `CapSettles`, `SessionEnds` - because
fairness and `ENABLED` are out of the prover's reach. Every invariant and every
safety property that a passing run checks is also proved. Proved but not run: `ShownIsEntry` (a page shows the entry of the
active account, `ViewIsEntry`) and `WithinMax` (no pass unlocks more of a game than
its override, save that 0 allows one, `MaxRespected`), and the safety halves of two
liveness properties, `BarredStaysOut` and `WaitersHeard`. Not provable
with the installed backends at all: induction over data and `RECURSIVE` operators;
the modules use neither.

## 5. What is not modelled, and why

Parts of modelled components, listed as `partly` in `PROJECT.json`: the child
processes of CLI mode and their poller; the poll's baselines; the eligibility
filters, `select_phase` and the chaining of one manager into the other; guard
codes, several keys, `handle_session_superseded` and the idle-set cache of the
agent; the daemon's back-off and its resend after a reconnect. They are next in
line: a superseded session against the claims registry and both managers first,
then the daemon's `idle_set`, then the pure algorithms (`cap_by_key`, cap
precedence, schedule and refund windows) against reference definitions.

Left out for good: HTTP scrapers, the inventory and market, free games, VDF and
registry readers, binary parsers, Steamworks interop, the keyring, the sign-in
window, the shell, the documentation site, and the pages as such: I/O and presentation,
without the kind of state a model checker reaches. Settings are read and written
one value at a time; in the models what a run reads from them is arbitrary.

How much of the code that is. Of the 41,600 lines of TypeScript, hooks and stores
are some 9,000, and the modules above stand for the ones that hold shared state
across awaits; the rest of the TypeScript is markup, texts, icons, tables and the
documentation site, which has no behaviour to check. The other modules stand for
Rust and C#, where the core of the program is.
