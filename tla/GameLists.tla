------------------------------ MODULE GameLists ------------------------------
(***************************************************************************)
(* The lists of games an account keeps (src/src): favorites, the auto-idle *)
(* list, the achievement unlocker's queue, card farming's whitelist and    *)
(* blacklist.  Each has a file per account, a page that shows it and       *)
(* commands that answer with the whole list.  The lists do not touch each  *)
(* other, so a behaviour follows one of them.  A list is the set of its    *)
(* games: its order is kept and lost together with its members.            *)
(***************************************************************************)
EXTENDS Naturals, FiniteSets

CONSTANTS
  Account,
  Game,
  MaxCalls, \* a bound: commands in flight
  None

ASSUME ListsAssumption == None \notin Account /\ MaxCalls \in Nat

List == {"favorites", "autoIdle", "queue", "whitelist", "blacklist"}
Ordered == {"favorites", "autoIdle", "queue"}  \* lists that are dragged into an order
Pruned == {"queue", "whitelist"}               \* lists a run takes games off
OnBus == List \ {"blacklist"}                  \* lists the context menu can add to

VARIABLES
  list,    \* which of the lists
  saved,   \* the file of each account
  account, \* sessionStore.account
  open,    \* the page is mounted
  shown,   \* what it shows
  loading, \* isLoading
  pending, \* pendingAppIds
  calls,   \* commands in flight
  own,     \* history: the games the user has put on each account's list
  calm     \* history: since the page turned to this account, one thing at a time

page == <<account, open>>
hook == <<shown, loading, pending>>
vars == <<list, saved, page, hook, calls, own, calm>>

(* An answer is heard by the page that asked, unless it has gone or, for a *)
(* load, turned to another account; what the menu adds is put on the bus.  *)
(* A "move" is an addition to the blacklist seen from the whitelist.       *)
Call == [of : Account, games : SUBSET Game, heard : BOOLEAN, served : BOOLEAN, answer : SUBSET Game,
         what : {"load", "refresh", "add", "put", "remove", "enable", "clear", "order", "menu", "move"}]

(* The calls during which a card is disabled. *)
OfCard(c) == c.heard /\ c.what \in {"put", "remove", "enable"}

TypeOK ==
  /\ list \in List
  /\ saved \in [Account -> SUBSET Game]
  /\ account \in Account \cup {None}
  /\ open \in BOOLEAN
  /\ shown \subseteq Game
  /\ loading \in BOOLEAN
  /\ pending \subseteq Game
  /\ calls \subseteq Call
  /\ own \in [Account -> SUBSET Game]
  /\ calm \in BOOLEAN

Init ==
  /\ list \in List
  /\ saved = [k \in Account |-> {}] /\ own = saved
  /\ account = None /\ open = FALSE
  /\ shown = {} /\ loading = TRUE /\ pending = {}
  /\ calls = {} /\ calm = FALSE

Ask(what, games) ==
  [of |-> account, what |-> what, games |-> games, heard |-> TRUE, served |-> FALSE, answer |-> {}]

Room(cs) == Cardinality(cs) <= MaxCalls

-----------------------------------------------------------------------------
(* The page's effect: the load it has asked for before is cancelled.       *)
Uncancelled == {c \in calls : c.what # "load"}

Load(k, others) ==
  /\ loading' = TRUE
  /\ calls' = others \cup {[Ask("load", {}) EXCEPT !.of = k]} /\ Room(calls')
  /\ calm' = (others = {})

Open ==
  /\ ~open /\ account # None
  /\ open' = TRUE /\ shown' = {} /\ pending' = {}
  /\ Load(account, calls)
  /\ UNCHANGED <<list, saved, account, own>>

(* Nobody hears the answers the page has asked for. *)
Deaf(c) == IF c.what = "menu" THEN c ELSE [c EXCEPT !.heard = FALSE]

Close ==
  /\ open /\ open' = FALSE
  /\ shown' = {} /\ loading' = TRUE /\ pending' = {}
  /\ calls' = {Deaf(c) : c \in {d \in Uncancelled : d.served => d.what = "menu"}}
  /\ calm' = FALSE
  /\ UNCHANGED <<list, saved, account, own>>

(* The page keeps the list it shows until the new account's is there. *)
Switch(k) ==
  /\ account' = k
  /\ IF open THEN Load(k, Uncancelled) ELSE UNCHANGED <<loading, calls, calm>>
  /\ UNCHANGED <<list, saved, open, shown, pending, own>>

(* Mutant: the effect asks although nobody is signed in. *)
MutSignedOut ==
  /\ account # None /\ account' = None
  /\ shown' = {} /\ loading' = open /\ calm' = FALSE
  /\ calls' = Uncancelled \cup IF open THEN {[Ask("load", {}) EXCEPT !.of = None]} ELSE {}
  /\ UNCHANGED <<list, saved, open, pending, own>>

SignedOut ==
  /\ account # None /\ account' = None
  /\ shown' = {} /\ calls' = Uncancelled
  /\ loading' = IF open THEN FALSE ELSE loading
  /\ calm' = FALSE
  /\ UNCHANGED <<list, saved, open, pending, own>>

-----------------------------------------------------------------------------
(* What the user does.  pend: the games whose cards wait for the answer.   *)
Does(call, pend) ==
  /\ account # None
  /\ calls' = calls \cup {call} /\ Room(calls')
  /\ pending' = pending \cup pend
  /\ calm' = (calm /\ calls = {})

Owns(games) == own' = [own EXCEPT ![account] = @ \cup games]

Rest == UNCHANGED <<list, saved, page, loading>>

(* The form that adds a game by hand. *)
AddGame(g) ==
  /\ open /\ list # "blacklist" /\ g \notin shown
  /\ Does(Ask("add", {g}), {}) /\ Owns({g})
  /\ Rest /\ UNCHANGED shown

(* toggleFavorite, toggleQueued, toggleWhitelisted: by the list as shown. *)
Toggle(g) ==
  /\ open /\ list # "blacklist" /\ g \notin pending
  /\ IF g \in shown THEN Does(Ask("remove", {g}), {g}) /\ UNCHANGED own
                    ELSE Does(Ask("put", {g}), {g}) /\ Owns({g})
  /\ Rest /\ UNCHANGED shown

RemoveGame(g) ==
  /\ open /\ ~loading /\ g \in shown \ pending
  /\ Does(Ask("remove", {g}), {g})
  /\ Rest /\ UNCHANGED <<shown, own>>

(* setEnabled *)
SetEnabled(g) ==
  /\ open /\ list = "autoIdle" /\ ~loading /\ g \in shown \ pending
  /\ Does(Ask("enable", {g}), {g})
  /\ Rest /\ UNCHANGED <<shown, own>>

(* addToBlacklist, from a card of the games with drops. *)
AddToBlacklist(g) ==
  /\ open /\ list = "blacklist" /\ g \notin shown \cup pending
  /\ Does(Ask("put", {g}), {g}) /\ Owns({g})
  /\ Rest /\ UNCHANGED shown

(* handleBlacklist of a whitelisted game, whatever its card is waiting     *)
(* for: once the blacklist's command has ended, the game is to leave the   *)
(* whitelist too.                                                          *)
HandleBlacklist(g) ==
  /\ open /\ list = "whitelist" /\ g \in shown
  /\ Does(Ask("move", {g}), {})
  /\ Rest /\ UNCHANGED <<shown, own>>

(* reorder shows the new list at once and has it written as it is. *)
Reorder(games) ==
  /\ open /\ list \in Ordered
  /\ shown' = games
  /\ Does(Ask("order", games), {})
  /\ Rest

(* Mutant: what is dragged is the list the search has left. *)
MutDrag == ~loading /\ Cardinality(shown) > 1 /\ (\E games \in SUBSET shown : Reorder(games)) /\ UNCHANGED own

Drag == ~loading /\ Cardinality(shown) > 1 /\ Reorder(shown) /\ UNCHANGED own

(* handleAddAllToQueue, for the games the search has left. *)
AddAllToQueue(games) ==
  /\ list = "queue" /\ games \cap shown = {} /\ games # {}
  /\ Reorder(shown \cup games) /\ Owns(games)

Clear ==
  /\ shown # {} /\ UNCHANGED own
  /\ IF list \in Ordered THEN Reorder({})
       ELSE open /\ Does(Ask("clear", {}), {}) /\ Rest /\ UNCHANGED shown

(* The page of a run that has ended reads the list again. *)
Refresh ==
  /\ open /\ list \in Pruned
  /\ Does(Ask("refresh", {}), {})
  /\ Rest /\ UNCHANGED <<shown, own>>

(* addToList of the context menu, on any page. *)
AddToList(g) ==
  /\ list \in OnBus
  /\ Does(Ask("menu", {g}), {}) /\ Owns({g})
  /\ Rest /\ UNCHANGED shown

-----------------------------------------------------------------------------
(* The commands, each under its list's lock. *)

(* Mutant: an addition writes the list the page shows. *)
MutWritten(c) ==
  CASE c.what \in {"load", "refresh", "enable"} -> saved[c.of]
    [] c.what \in {"add", "put", "menu"} -> shown \cup c.games
    [] c.what = "remove" -> saved[c.of] \ c.games
    [] c.what \in {"clear", "order"} -> c.games

Written(c) ==
  CASE c.what \in {"load", "refresh", "enable"} -> saved[c.of]
    [] c.what \in {"add", "put", "menu"} -> saved[c.of] \cup c.games
    [] c.what = "remove" -> saved[c.of] \ c.games
    [] c.what \in {"clear", "order"} -> c.games

Unserved(c) == c \in calls /\ ~c.served /\ c.what # "move"

Serve(c) ==
  /\ Unserved(c)
  /\ saved' = [saved EXCEPT ![c.of] = Written(c)]
  /\ calls' = (calls \ {c}) \cup IF c.heard /\ c.what # "order" THEN {[c EXCEPT !.served = TRUE, !.answer = Written(c)]} ELSE {}
  /\ UNCHANGED <<list, page, hook, own, calm>>

(* Mutant: only an answer ends the loading. *)
MutFail(c) ==
  /\ Unserved(c)
  /\ calls' = calls \ {c}
  /\ pending' = IF OfCard(c) THEN pending \ c.games ELSE pending
  /\ calm' = FALSE
  /\ UNCHANGED <<list, saved, page, shown, loading, own>>

(* The finally of the calls. *)
Settled(c) ==
  /\ loading' = (loading /\ c.what # "load")
  /\ pending' = IF OfCard(c) THEN pending \ c.games ELSE pending

Fail(c) ==
  /\ Unserved(c)
  /\ calls' = calls \ {c}
  /\ Settled(c)
  /\ calm' = FALSE
  /\ UNCHANGED <<list, saved, page, shown, own>>

(* Mutant: what the menu has added does not reach the page. *)
MutReturn(c) ==
  /\ c \in calls /\ c.served
  /\ calls' = calls \ {c}
  /\ shown' = IF open /\ c.what # "menu" THEN c.answer ELSE shown
  /\ Settled(c)
  /\ UNCHANGED <<list, saved, page, own, calm>>

(* Every answer is the whole list and is shown, whoever's it is. *)
Return(c) ==
  /\ c \in calls /\ c.served
  /\ calls' = calls \ {c}
  /\ shown' = IF open THEN c.answer ELSE shown
  /\ Settled(c)
  /\ UNCHANGED <<list, saved, page, own, calm>>

(* handleBlacklist goes on, whether its addition was made or failed: it    *)
(* asks for the removal, for the account of its click.                     *)
Moved(c) ==
  /\ c \in calls /\ c.what = "move"
  /\ calls' = (calls \ {c}) \cup {[c EXCEPT !.what = "remove"]}
  /\ pending' = IF c.heard THEN pending \cup c.games ELSE pending
  /\ UNCHANGED <<list, saved, page, shown, loading, own, calm>>

(* A run takes a game off the list. *)
Prune(k, g) ==
  /\ list \in Pruned /\ g \in saved[k]
  /\ saved' = [saved EXCEPT ![k] = @ \ {g}]
  /\ calm' = FALSE
  /\ UNCHANGED <<list, page, hook, calls, own>>

-----------------------------------------------------------------------------
Clicks(g) ==
  \/ AddGame(g) \/ Toggle(g) \/ RemoveGame(g) \/ SetEnabled(g)
  \/ AddToBlacklist(g) \/ HandleBlacklist(g) \/ AddToList(g)

Next ==
  \/ Open \/ Close \/ SignedOut
  \/ \E k \in Account : Switch(k) \/ \E g \in Game : Prune(k, g)
  \/ \E g \in Game : Clicks(g)
  \/ Drag \/ Clear \/ Refresh \/ \E games \in SUBSET Game : AddAllToQueue(games)
  \/ \E c \in calls : Serve(c) \/ Fail(c) \/ Return(c) \/ Moved(c)

Spec == Init /\ [][Next]_vars

-----------------------------------------------------------------------------
(* A card is disabled exactly while its request is in flight (the comment  *)
(* of toggleFavorite); only blacklisting does not wait for the whitelist's *)
(* card.                                                                   *)
DisabledExactly ==
  /\ \A g \in pending : \E c \in calls : OfCard(c) /\ g \in c.games
  /\ list # "whitelist" => \A c \in calls : OfCard(c) => c.games \subseteq pending

(* The skeletons are shown only while a load of this account is out: no    *)
(* failure, switch or cancelled load leaves them there for good.           *)
LoadingIsAsked ==
  open /\ loading => \E c \in calls : c.what = "load" /\ c.of = account

(* So nothing stays grey or empty for good: what waits, waits for a call.  *)
NothingStuck == DisabledExactly /\ LoadingIsAsked

(* If everything but the reading was quiet when the page turned to the     *)
(* account, nothing has failed and the user has waited for every answer,   *)
(* the page shows what is saved.                                           *)
OneAtATime == calm /\ calls = {} => shown = saved[account] /\ ~loading

(* ... and then a game leaves a list only when it is removed or all are:   *)
(* an order that is written back as shown loses nothing.                   *)
Takes(c, g) ==
  \/ c.what = "remove" /\ g \in c.games
  \/ c.what \in {"clear", "order"} /\ c.games = {}

NothingLost ==
  [][calm' => \A k \in Account : \A g \in saved[k] \ saved'[k] :
       \E c \in calls \ calls' : c.of = k /\ Takes(c, g)]_vars

(* A list that is never written back whole holds only games that were put  *)
(* on it for its account, however answers and accounts cross.              *)
UnorderedIsOwn == list \notin Ordered => \A k \in Account : saved[k] \subseteq own[k]

(* Any list holds only games that were put on it for its account. *)
ListIsOwn == \A k \in Account : saved[k] \subseteq own[k]
=============================================================================
