--------------------------- MODULE CookieSessions ---------------------------
(***************************************************************************)
(* Steam Community cookies.  The credential store of the system keeps one  *)
(* set per account, steamCookiesStore caches it, the card farming and      *)
(* inventory pages connect with it and go on with the set that worked, and *)
(* the backend strikes a set off when Steam has signed it out.             *)
(***************************************************************************)
EXTENDS Naturals, FiniteSets

CONSTANTS
  Account,
  Agent,    \* accounts signed in to through a daemon, which has cookies of its own
  Cookie,   \* cookie sets
  Owner,    \* Owner[c]: the account Steam knows the set by
  MaxCalls, \* a bound: the user acts while fewer commands are in flight, and
            \* moves about while no more are
  None

ASSUME CookiesAssumption ==
  /\ Agent \subseteq Account /\ None \notin Account \cup Cookie
  /\ Owner \in [Cookie -> Account]
  /\ MaxCalls \in Nat

Of(k) == {c \in Cookie : Owner[c] = k}

VARIABLES
  accounts, \* who is signed in
  active,   \* sessionStore.account
  saved,    \* the credential store
  entries,  \* steamCookiesStore.entries
  shown,    \* its accountKey; its other fields are the copy of that entry
  page,     \* the mounted one of the two pages
  sync,     \* the account has changed, the effect of DashboardShell is due
  calls,    \* commands and an event in flight
  blamed    \* history: accounts whose cache and credential store may differ

session == <<accounts, active>>
store == <<entries, shown>>
vars == <<session, saved, store, page, sync, calls, blamed>>

Maybe(S) == S \cup {None}

Entry == [checked : BOOLEAN, cookies : Maybe(Cookie)]
Blank == [checked |-> FALSE, cookies |-> None]

(* ref: manualCookiesRef; connected: hasVerifiedConnection of the          *)
(* inventory; init: it reads its cache; loaded: hasLoaded; tried:          *)
(* attemptedKeyRef.                                                        *)
Page == [name : {"none", "farming", "inventory"}, ref : Maybe(Cookie), connected : BOOLEAN,
         init : BOOLEAN, loaded : BOOLEAN, tried : Maybe(Account)]
NoPage == [name |-> "none", ref |-> None, connected |-> FALSE, init |-> FALSE,
           loaded |-> FALSE, tried |-> None]

(* with: the set a command carries, or has read.  heard: the page or the   *)
(* effect that asked is still there; of an event, that it is the first to  *)
(* say so.  dead: the session is expired, or could not be confirmed.       *)
Call == [what : {"check", "load", "connect", "submit", "use", "auto", "set", "validate",
                 "acquire", "clear", "expiry", "ended"},
         of : Account, with : Maybe(Cookie), heard : BOOLEAN,
         answer : {"none", "ok", "dead", "error"}]

TypeOK ==
  /\ accounts \subseteq Account /\ active \in Maybe(accounts)
  /\ saved \in [Account -> Maybe(Cookie)]
  /\ entries \in [Account -> Entry] /\ shown \in Maybe(Account)
  /\ page \in Page /\ (active = None => page = NoPage)
  /\ sync \in BOOLEAN
  /\ calls \subseteq Call
  /\ blamed \subseteq Account

Init ==
  /\ accounts = {} /\ active = None
  /\ saved \in {s \in [Account -> Maybe(Cookie)] : \A k \in Account : s[k] \in Maybe(Of(k))}
  /\ entries = [k \in Account |-> Blank] /\ shown = None
  /\ page = NoPage /\ sync = FALSE
  /\ calls = {} /\ blamed = {}

-----------------------------------------------------------------------------
View == IF shown = None THEN Blank ELSE entries[shown]
OnPage == page.name # "none"

(* The effect of useAutoConnectSteamCookies is due.  Effects run with the  *)
(* change they react to, the page's before those of DashboardShell around  *)
(* it; nothing else reaches the pages in between.                          *)
Due == OnPage /\ View.checked /\ page.tried # active
Quiet == ~sync /\ ~Due
Acts == Quiet /\ active # None /\ Cardinality(calls) < MaxCalls
Moves == Quiet /\ Cardinality(calls) <= MaxCalls

Ask(what, c) == [what |-> what, of |-> active, with |-> c, heard |-> TRUE, answer |-> "none"]

(* Sends new, with rest in flight: two commands of one account may cross.  *)
Sends(rest, new) ==
  /\ calls' = rest \cup new
  /\ blamed' = blamed \cup {c.of : c \in {d \in new : \E r \in rest : r.of = d.of}}

UpdateEntry(k, e) == entries' = [entries EXCEPT ![k] = e] /\ UNCHANGED shown
Caches(k, c) == UpdateEntry(k, [checked |-> TRUE, cookies |-> c])

(* Mutant: the whole entry goes. *)
MutClearSavedSteamCookies(k) == UpdateEntry(k, Blank)

(* clearSavedSteamCookies *)
ClearSavedSteamCookies(k) == UpdateEntry(k, [entries[k] EXCEPT !.cookies = None])

(* The page goes back to its connect panel. *)
Drop(p) == [p EXCEPT !.ref = None, !.connected = FALSE, !.loaded = FALSE]

-----------------------------------------------------------------------------
(* The account changes: a sign-in, a switch, the fallback of the cap, or   *)
(* the sign-out of the active one.  The check under way is cancelled.  A   *)
(* mounted page keeps what it has; the inventory reads its cache, and card *)
(* farming drops what it has if a cycle of either account had expired.     *)
Turn(k) ==
  /\ active' = k /\ sync' = TRUE
  /\ calls' = {c \in calls : c.what # "check"}
  /\ CASE page.name = "none"      -> page' = page
       [] page.name = "inventory" -> page' = [page EXCEPT !.init = TRUE]
       [] page.name = "farming"   -> page' \in {page, Drop(page)}

Deaf(c) == [c EXCEPT !.heard = c.heard /\ c.what \notin {"connect", "submit", "use"}]

(* Mutant: the page stays. *)
MutTurnOff ==
  /\ active' = None /\ sync' = FALSE
  /\ calls' = {Deaf(c) : c \in {d \in calls : d.what # "check"}}
  /\ UNCHANGED page

(* Nobody is left: the pages go. *)
TurnOff ==
  /\ active' = None /\ sync' = FALSE
  /\ calls' = {Deaf(c) : c \in {d \in calls : d.what # "check"}}
  /\ page' = NoPage

SignIn(k) ==
  /\ Moves
  /\ accounts' = accounts \cup {k}
  /\ Turn(k)
  /\ UNCHANGED <<saved, store, blamed>>

Switch(k) ==
  /\ Moves /\ k \in accounts \ {active}
  /\ Turn(k)
  /\ UNCHANGED <<accounts, saved, store, blamed>>

(* What is cached and saved for the account stays.  A bound: with as many  *)
(* calls in flight as there can be, only the last account is signed out.   *)
SignOut(k) ==
  /\ Moves /\ k \in accounts
  /\ accounts = {k} \/ Cardinality(calls) < MaxCalls
  /\ accounts' = accounts \ {k}
  /\ IF k # active THEN UNCHANGED <<active, sync, calls, page>>
       ELSE IF accounts' = {} THEN TurnOff ELSE \E j \in accounts' : Turn(j)
  /\ UNCHANGED <<saved, store, blamed>>

(* useSteamCookiesSync *)
Sync ==
  /\ sync /\ ~Due /\ sync' = FALSE
  /\ shown' = active /\ UNCHANGED entries
  /\ Sends(calls, IF entries[active].checked THEN {} ELSE {Ask("check", None)})
  /\ UNCHANGED <<session, saved, page>>

(* useAutoConnectSteamCookies *)
AutoConnect ==
  /\ Due
  /\ page' = [page EXCEPT !.tried = active]
  /\ \E gamer \in BOOLEAN :
       Sends(calls, IF active \in Agent /\ gamer THEN {Ask("connect", None)}
                      ELSE IF View.cookies # None THEN {Ask("connect", View.cookies)} ELSE {})
  /\ UNCHANGED <<session, saved, store, sync>>

OpenPage(name) ==
  /\ Moves /\ active # None /\ ~OnPage
  /\ page' = [NoPage EXCEPT !.name = name, !.init = name = "inventory"]
  /\ UNCHANGED <<session, saved, store, sync, calls, blamed>>

(* The init effect of the inventory. *)
ShowCache(cached) ==
  /\ Quiet /\ page.init
  /\ page' = [page EXCEPT !.init = FALSE, !.loaded = page.loaded \/ cached]
  /\ UNCHANGED <<session, saved, store, sync, calls, blamed>>

ClosePage ==
  /\ Moves /\ OnPage
  /\ page' = NoPage
  /\ calls' = {Deaf(c) : c \in calls}
  /\ UNCHANGED <<session, saved, store, sync, blamed>>

-----------------------------------------------------------------------------
(* What the pages show beyond the connect panel. *)
WillAutoVerify(gamer) == (active \in Agent /\ gamer) \/ View.cookies # None
Beyond(gamer) ==
  IF page.name = "farming" THEN page.connected
                           ELSE page.loaded /\ (page.connected \/ WillAutoVerify(gamer))

(* enforceCookieGate; a request without a set takes automatic cookies.     *)
Gated(ask, gamer, rest) ==
  IF ask.with # None \/ gamer
    THEN Sends(rest, {ask}) /\ UNCHANGED <<page, store>>
    ELSE /\ page' = IF ask.heard THEN Drop(page) ELSE page
         /\ ClearSavedSteamCookies(ask.of)
         /\ calls' = rest /\ UNCHANGED blamed

(* The connect panel, which is there when nothing else is: automatic, or a *)
(* set the user has pasted, which is taken to belong to the account (a     *)
(* text pasted before a switch that leaves the panel mounted would not).   *)
Submit(c) ==
  /\ Acts /\ OnPage /\ View.checked
  /\ \E gamer \in BOOLEAN : ~Beyond(gamer) /\ (c = None => gamer)
  /\ IF c = None THEN Sends(calls, {Ask("connect", None)})
                 ELSE c \in Of(active) /\ Sends(calls, {Ask("submit", c)})
  /\ UNCHANGED <<session, saved, store, page, sync>>

(* start, refreshBrowse, listItems and removeListings; the refresh of the  *)
(* inventory connects again.                                               *)
Use ==
  /\ Acts /\ OnPage
  /\ \E gamer \in BOOLEAN, what \in {"use"} \cup IF page.name = "inventory" THEN {"connect"} ELSE {} :
       Beyond(gamer) /\ Gated(Ask(what, page.ref), gamer, calls)
  /\ UNCHANGED <<session, saved, sync>>

(* useAutoFarmCards, for a local account. *)
AutoFarm ==
  /\ Acts /\ active \notin Agent
  /\ entries[active].checked /\ entries[active].cookies # None
  /\ Sends(calls, {Ask("auto", entries[active].cookies)})
  /\ UNCHANGED <<session, saved, store, page, sync>>

(* The Steam credentials of the settings, and the panel's Clear button. *)
Settings(what, c) ==
  /\ Acts
  /\ what = "acquire" => active \notin Agent
  /\ c \in IF what = "validate" THEN Of(active) ELSE {None}
  /\ Sends(calls, {Ask(what, c)})
  /\ UNCHANGED <<session, saved, store, page, sync>>

-----------------------------------------------------------------------------
Answers(c, answer) == calls' = (calls \ {c}) \cup {[c EXCEPT !.answer = answer]}
Open(c, whats) == c \in calls /\ c.answer = "none" /\ c.what \in whats

Requests == {"connect", "submit", "use", "auto"}

(* session::resolve and the request after it: the session may be expired   *)
(* or unconfirmed ("dead"), and anything else may go wrong ("error").      *)
Serve(c) ==
  /\ Open(c, Requests)
  /\ \E answer \in {"ok", "dead", "error"} : Answers(c, answer)
  /\ UNCHANGED <<session, saved, store, page, sync, blamed>>

(* credentials::clear, whose failure is ignored. *)
StrikesOff(k) == saved' \in {saved, [saved EXCEPT ![k] = None]}

(* ensure_valid strikes off what is saved for the account; automatic       *)
(* cookies can be found dead as well, but those of a daemon are not tried. *)
EnsureValid(c) ==
  /\ Open(c, Requests \cup {"acquire"})
  /\ c.with # None \/ c.of \notin Agent
  /\ StrikesOff(c.of)
  /\ Answers(c, "dead")
  /\ UNCHANGED <<session, store, page, sync, blamed>>

(* get_steam_credentials *)
ServeRead(c) ==
  /\ Open(c, {"check", "load"})
  /\ calls' = (calls \ {c}) \cup {[c EXCEPT !.answer = "ok", !.with = saved[c.of]]}
  /\ UNCHANGED <<session, saved, store, page, sync, blamed>>

(* set_, validate_and_save_, acquire_and_save_ and clear_steam_credentials *)
ServeWrite(c, d) ==
  /\ Open(c, {"set", "validate", "acquire", "clear"})
  /\ d \in IF c.what = "acquire" THEN Of(c.of) ELSE {c.with}
  /\ saved' = [saved EXCEPT ![c.of] = d]
  /\ calls' = (calls \ {c}) \cup {[c EXCEPT !.answer = "ok", !.with = d]}
  /\ UNCHANGED <<session, store, page, sync, blamed>>

(* Everything else that goes wrong with them: nothing is written. *)
ServeFails(c) ==
  /\ Open(c, {"check", "load", "set", "validate", "acquire", "clear"})
  /\ Answers(c, "error")
  /\ UNCHANGED <<session, saved, store, page, sync, blamed>>

(* A farming cycle finds its session signed out: it strikes off what is    *)
(* saved and says so, then and with the event of its end.                  *)
CycleExpires(k) ==
  /\ Cardinality(calls) < MaxCalls
  /\ StrikesOff(k)
  /\ Sends(calls, {[what |-> "expiry", of |-> k, with |-> None, heard |-> TRUE, answer |-> "dead"]})
  /\ UNCHANGED <<session, store, page, sync>>

-----------------------------------------------------------------------------
Back(c, whats) == Quiet /\ c \in calls /\ c.answer # "none" /\ c.what \in whats
Gone(c) == calls' = calls \ {c} /\ UNCHANGED blamed
Dead(c) == c.answer = "dead"

ReturnRead(c) ==
  /\ Back(c, {"check", "load"})
  /\ IF c.answer = "ok" THEN Caches(c.of, c.with)
       ELSE IF c.what = "check" THEN Caches(c.of, None) ELSE UNCHANGED store
  /\ Gone(c)
  /\ UNCHANGED <<session, saved, page, sync>>

(* validate and acquire of useSteamCredentialsSettings, clear of           *)
(* useSavedSteamCookies; of a failure they only tell the user, and of a    *)
(* failed set_steam_credentials nobody hears.                              *)
ReturnWrite(c) ==
  /\ Back(c, {"set", "validate", "acquire", "clear"})
  /\ IF c.answer = "ok" /\ c.what # "set" THEN Caches(c.of, c.with) ELSE UNCHANGED store
  /\ calls' = calls \ {c}
  /\ blamed' = blamed \cup IF c.answer = "dead" \/ (c.answer = "error" /\ c.what = "set")
                             THEN {c.of} ELSE {}
  /\ UNCHANGED <<session, saved, page, sync>>

(* Mutant: what is saved is saved for the account of the moment. *)
MutSave(c) ==
  LET k == IF active = None THEN c.of ELSE active
  IN  Caches(k, c.with) /\ Sends(calls \ {c}, {[Ask("set", c.with) EXCEPT !.of = k]})

(* handleSubmit saves a pasted set that has worked. *)
Save(c) ==
  /\ Caches(c.of, c.with)
  /\ Sends(calls \ {c}, {[Ask("set", c.with) EXCEPT !.of = c.of]})

(* connect: the page goes on with the set that has worked, whatever        *)
(* account is active by now.                                               *)
Connected(c) ==
  /\ Back(c, {"connect", "submit"}) /\ c.answer = "ok"
  /\ page' = IF c.heard THEN [page EXCEPT !.ref = c.with, !.connected = TRUE,
                                 !.loaded = page.name = "inventory"] ELSE page
  /\ IF c.what = "submit" THEN Save(c) ELSE Gone(c) /\ UNCHANGED store
  /\ UNCHANGED <<session, saved, sync>>

(* Only the card farming page stays beyond its panel, when it connects.    *)
PageDrops(c) ==
  page' = IF ~c.heard THEN page
          ELSE IF page.name = "farming" /\ c.what # "use" THEN [page EXCEPT !.ref = None]
          ELSE Drop(page)

(* Mutant: only the page drops it. *)
MutRefused(c) ==
  /\ Back(c, {"connect", "submit", "use"}) /\ c.answer # "ok"
  /\ IF Dead(c) THEN PageDrops(c) ELSE UNCHANGED page
  /\ UNCHANGED store
  /\ Gone(c)
  /\ UNCHANGED <<session, saved, sync>>

(* A set that is dead, or cannot be confirmed, is dropped by the page and  *)
(* the cache.                                                              *)
Refused(c) ==
  /\ Back(c, {"connect", "submit", "use"}) /\ c.answer # "ok"
  /\ IF Dead(c) THEN PageDrops(c) /\ ClearSavedSteamCookies(c.of) ELSE UNCHANGED <<page, store>>
  /\ Gone(c)
  /\ UNCHANGED <<session, saved, sync>>

(* The end of a request that changes nothing here, or of the automatic     *)
(* start.                                                                  *)
Done(c) ==
  /\ Back(c, {"use", "auto"}) /\ (c.what = "use" => c.answer = "ok")
  /\ IF Dead(c) THEN ClearSavedSteamCookies(c.of) ELSE UNCHANGED store
  /\ Gone(c)
  /\ UNCHANGED <<session, saved, page, sync>>

(* removeListings refreshes the inventory of the account it was for.       *)
Removed(c) ==
  /\ Back(c, {"use"}) /\ c.answer = "ok" /\ (c.heard => page.name = "inventory")
  /\ \E gamer \in BOOLEAN :
       Gated([c EXCEPT !.what = "connect", !.answer = "none",
                       !.with = IF c.heard THEN page.ref ELSE c.with], gamer, calls \ {c})
  /\ UNCHANGED <<session, saved, sync>>

(* The event of the cycle's end comes after the one of the expiry. *)
Follows(c, first) ==
  calls' = (calls \ {c}) \cup IF c.what = "expiry" THEN {[c EXCEPT !.what = "ended", !.heard = first]} ELSE {}

(* useCardFarmingSync clears the cache at both events, the page's effect   *)
(* sees only the first that is heard.                                      *)
Expired(c) ==
  /\ Back(c, {"expiry", "ended"})
  /\ ClearSavedSteamCookies(c.of)
  /\ page' = IF c.heard /\ page.name = "farming" /\ c.of = active
               THEN [page EXCEPT !.ref = None, !.connected = FALSE] ELSE page
  /\ Follows(c, FALSE) /\ UNCHANGED blamed
  /\ UNCHANGED <<session, saved, sync>>

(* ... unless an event is lost. *)
ExpiryLost(c) ==
  /\ c \in calls /\ c.what \in {"expiry", "ended"}
  /\ Follows(c, TRUE)
  /\ blamed' = blamed \cup IF c.what = "ended" /\ c.heard THEN {c.of} ELSE {}
  /\ UNCHANGED <<session, saved, store, page, sync>>

-----------------------------------------------------------------------------
User ==
  \/ \E k \in Account : SignIn(k) \/ Switch(k) \/ SignOut(k)
  \/ \E name \in {"farming", "inventory"} : OpenPage(name)
  \/ ClosePage \/ Use \/ \E c \in Maybe(Cookie) : Submit(c)
  \/ \E what \in {"load", "validate", "acquire", "clear"}, c \in Maybe(Cookie) : Settings(what, c)

Backend(c) ==
  \/ Serve(c) \/ EnsureValid(c) \/ ServeRead(c) \/ ServeFails(c)
  \/ \E d \in Maybe(Cookie) : ServeWrite(c, d)

Return(c) ==
  \/ ReturnRead(c) \/ ReturnWrite(c) \/ Connected(c) \/ Refused(c) \/ Done(c)
  \/ Removed(c) \/ Expired(c) \/ ExpiryLost(c)

Next ==
  \/ User \/ \E cached \in BOOLEAN : ShowCache(cached)
  \/ Sync \/ AutoConnect \/ AutoFarm
  \/ \E k \in Account : CycleExpires(k)
  \/ \E c \in calls : Backend(c) \/ Return(c)

Spec == Init /\ [][Next]_vars

-----------------------------------------------------------------------------
(* No set is ever kept for another account than its own, wherever the user *)
(* has gone while it was tried, although a page that outlives an account   *)
(* does connect the next one with the set it finds (useSavedSteamCookies,  *)
(* useAutoConnectSteamCookies).                                            *)
SetsStayOwn ==
  \A k \in Account : {saved[k], entries[k].cookies} \subseteq Maybe(Of(k))

(* "A failed check must not be treated as haven't checked yet forever"     *)
(* (useSteamCookiesSync): an account whose set is not known is being       *)
(* asked for, whatever was cancelled or struck off.                        *)
ChecksEnd ==
  active # None /\ ~sync /\ ~entries[active].checked
    => \E c \in calls : c.what = "check" /\ c.of = active

(* Once nothing is on its way, the cache holds what is saved or nothing: a *)
(* set that was struck off is not tried again.  Except where a set could   *)
(* not be saved, both events were lost, the settings' own sign-in found the    *)
(* session dead, or two commands of the account have crossed.              *)
CacheTrue ==
  \A k \in Account \ blamed :
    (\A c \in calls : c.of # k) => entries[k].cookies \in Maybe({saved[k]})
=============================================================================
