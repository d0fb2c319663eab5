-------------------------- MODULE GameListsProofs --------------------------
(***************************************************************************)
(* The game lists, for any accounts, games and number of commands in       *)
(* flight.  While things happen one at a time (calm) the one command there *)
(* is belongs to the page's account, and an order that is on its way holds *)
(* all that is saved or nothing.                                           *)
(***************************************************************************)
EXTENDS GameLists, TLAPS

(* The page disables a card for it, or will. *)
OfPage(c) == OfCard(c) \/ (c.heard /\ c.what = "move")

(* What is in flight is what the page and the user have asked for. *)
CallsAreAsked ==
  \A c \in calls :
    /\ c.what = "load" => open /\ c.of = account /\ c.heard
    /\ c.what \in {"add", "put", "menu"} => c.games \subseteq own[c.of]
    /\ c.what = "clear" => c.games = {}
    /\ list \notin Ordered => c.what # "order"
    /\ c.what = "move" => list = "whitelist" /\ ~c.served
    /\ ~open => ~OfPage(c)

(* No two requests of one card, but for the whitelist. *)
OneRequestPerCard ==
  list # "whitelist" =>
    \A c, d \in calls : OfCard(c) /\ OfCard(d) /\ c # d => c.games \cap d.games = {}

CalmIsAlone ==
  calm => /\ open /\ account # None
          /\ \A c, d \in calls : c = d
          /\ \A c \in calls : c.of = account /\ c.heard
          /\ \A c \in calls : c.served => c.what # "order" /\ c.answer = saved[account]
          /\ calls = {} => shown = saved[account]
          /\ \A c \in calls : c.what = "order" =>
               shown = c.games /\ (c.games = {} \/ saved[account] \subseteq c.games)

IInv ==
  /\ TypeOK /\ DisabledExactly /\ LoadingIsAsked /\ UnorderedIsOwn
  /\ CallsAreAsked /\ OneRequestPerCard /\ CalmIsAlone

-----------------------------------------------------------------------------
LEMMA AskTyped ==
  ASSUME account \in Account, NEW games \in SUBSET Game,
         NEW what \in {"load", "refresh", "add", "put", "remove", "enable", "clear", "order", "menu", "move"}
  PROVE  /\ Ask(what, games) \in Call
         /\ Ask(what, games).of = account /\ Ask(what, games).what = what
         /\ Ask(what, games).games = games /\ Ask(what, games).heard /\ ~Ask(what, games).served
BY DEF Ask, Call

(* The user asks for something: the call n, whose card waits for it.       *)
LEMMA AskKeeps ==
  ASSUME IInv, NEW n \in Call, NEW pend \in SUBSET Game, Does(n, pend),
         UNCHANGED <<list, saved, page, loading>>,
         n.of = account, n.heard, ~n.served, n.what # "load",
         pend = IF OfCard(n) THEN n.games ELSE {},
         open \/ ~OfPage(n), n.what = "move" => list = "whitelist",
         OfCard(n) /\ list # "whitelist" => n.games \cap pending = {},
         own' \in [Account -> SUBSET Game], \A k \in Account : own[k] \subseteq own'[k],
         n.what \in {"add", "put", "menu"} => n.games \subseteq own'[account],
         n.what = "clear" => n.games = {},
         n.what = "order" => list \in Ordered /\ shown' = n.games
                             /\ (n.games = {} \/ shown \subseteq n.games),
         n.what # "order" => shown' = shown,
         shown' \in SUBSET Game
  PROVE  IInv'
<1> USE DEF IInv
<1>1. /\ account \in Account /\ account' = account /\ open' = open /\ list' = list /\ saved' = saved
      /\ loading' = loading /\ calls' = calls \cup {n} /\ pending' = pending \cup pend
      /\ calm' = (calm /\ calls = {})
  BY DEF Does, page, TypeOK
<1>2. TypeOK'
  BY <1>1 DEF TypeOK
<1>3. DisabledExactly'
  BY <1>1 DEF DisabledExactly, OfCard
<1>4. LoadingIsAsked'
  BY <1>1 DEF LoadingIsAsked
<1>5. UnorderedIsOwn'
  BY <1>1 DEF UnorderedIsOwn, TypeOK
<1>6. CallsAreAsked'
  <2>1. ASSUME NEW c \in calls' PROVE /\ c.what = "load" => open' /\ c.of = account' /\ c.heard
                                      /\ c.what \in {"add", "put", "menu"} => c.games \subseteq own'[c.of]
                                      /\ c.what = "clear" => c.games = {}
                                      /\ list' \notin Ordered => c.what # "order"
                                      /\ c.what = "move" => list' = "whitelist" /\ ~c.served
                                      /\ ~open' => ~OfPage(c)
    <3>1. CASE c = n
      BY <1>1, <3>1
    <3>2. CASE c \in calls
      <4>1. c.of \in Account
        BY <3>2 DEF TypeOK, Call
      <4> QED BY <1>1, <3>2, <4>1 DEF CallsAreAsked
    <3> QED BY <1>1, <3>1, <3>2
  <2> QED BY <2>1 DEF CallsAreAsked, OfPage, OfCard
<1>7. OneRequestPerCard'
  <2> SUFFICES ASSUME list # "whitelist", NEW c \in calls', NEW d \in calls', OfCard(c), OfCard(d), c # d
               PROVE  c.games \cap d.games = {}
    BY <1>1 DEF OneRequestPerCard, OfCard
  <2>1. \A e \in calls : OfCard(e) => e.games \subseteq pending
    BY DEF DisabledExactly
  <2> QED BY <1>1, <2>1 DEF OneRequestPerCard
<1>8. CalmIsAlone'
  <2> SUFFICES ASSUME calm, calls = {} PROVE CalmIsAlone'
    BY <1>1 DEF CalmIsAlone
  <2>1. shown = saved[account] /\ open /\ account # None /\ calls' = {n}
    BY <1>1 DEF CalmIsAlone
  <2> QED BY <1>1, <2>1 DEF CalmIsAlone
<1> QED BY <1>2, <1>3, <1>4, <1>5, <1>6, <1>7, <1>8

LEMMA OwnsMore ==
  ASSUME TypeOK, account \in Account, NEW games \in SUBSET Game, Owns(games)
  PROVE  /\ own' \in [Account -> SUBSET Game] /\ \A k \in Account : own[k] \subseteq own'[k]
         /\ games \subseteq own'[account]
BY DEF Owns, TypeOK

LEMMA OwnsSame ==
  ASSUME TypeOK, own' = own
  PROVE  own' \in [Account -> SUBSET Game] /\ \A k \in Account : own[k] \subseteq own'[k]
BY DEF TypeOK

LEMMA CardKeeps ==
  ASSUME IInv, NEW g \in Game, Clicks(g)
  PROVE  IInv'
<1> USE DEF IInv
<1>1. account \in Account /\ TypeOK
  BY DEF Clicks, AddGame, Toggle, RemoveGame, SetEnabled, AddToBlacklist, HandleBlacklist, AddToList, Does, TypeOK
<1>2. ASSUME NEW what \in {"add", "put", "menu"}, NEW pend \in SUBSET Game, Does(Ask(what, {g}), pend), Owns({g}),
             pend = IF what = "put" THEN {g} ELSE {}, what = "put" => open /\ g \notin pending,
             UNCHANGED <<list, saved, page, loading, shown>>
      PROVE  IInv'
  <2> DEFINE n == Ask(what, {g})
  <2>1. n \in Call /\ n.of = account /\ n.what = what /\ n.games = {g} /\ n.heard /\ ~n.served
    BY <1>1, AskTyped
  <2>2. OfCard(n) = (what = "put") /\ OfPage(n) = (what = "put")
    BY <1>2, <2>1 DEF OfCard, OfPage
  <2>3. own' \in [Account -> SUBSET Game] /\ (\A k \in Account : own[k] \subseteq own'[k]) /\ {g} \subseteq own'[account]
    BY <1>1, <1>2, OwnsMore
  <2>4. shown' \in SUBSET Game
    BY <1>2 DEF TypeOK
  <2> HIDE DEF n
  <2> QED BY <1>2, <2>1, <2>2, <2>3, <2>4, AskKeeps DEF n
<1>3. ASSUME NEW what \in {"remove", "enable"}, Does(Ask(what, {g}), {g}), UNCHANGED own, open,
             list # "whitelist" => g \notin pending,
             UNCHANGED <<list, saved, page, loading, shown>>
      PROVE  IInv'
  <2> DEFINE n == Ask(what, {g})
  <2>1. n \in Call /\ n.of = account /\ n.what = what /\ n.games = {g} /\ n.heard /\ ~n.served
    BY <1>1, AskTyped
  <2>2. OfCard(n)
    BY <1>3, <2>1 DEF OfCard
  <2>3. own' \in [Account -> SUBSET Game] /\ (\A k \in Account : own[k] \subseteq own'[k])
    BY <1>1, <1>3, OwnsSame
  <2>4. shown' \in SUBSET Game
    BY <1>3 DEF TypeOK
  <2>5. Does(n, {g}) /\ open /\ {g} \subseteq Game /\ n.games = {g}
    BY <1>3, <2>1
  <2>6. list # "whitelist" => n.games \cap pending = {}
    BY <1>3, <2>1
  <2> HIDE DEF n
  <2> QED BY <1>3, <2>1, <2>2, <2>3, <2>4, <2>5, <2>6, AskKeeps
<1>4. CASE AddGame(g)
  BY <1>2, <1>4 DEF AddGame, Rest
<1>5. CASE Toggle(g)
  BY <1>2, <1>3, <1>5 DEF Toggle, Rest
<1>6. CASE RemoveGame(g)
  BY <1>3, <1>6 DEF RemoveGame, Rest
<1>7. CASE SetEnabled(g)
  BY <1>3, <1>7 DEF SetEnabled, Rest
<1>8. CASE AddToBlacklist(g)
  BY <1>2, <1>8 DEF AddToBlacklist, Rest
<1>9. CASE HandleBlacklist(g)
  <2> DEFINE n == Ask("move", {g})
  <2>1. n \in Call /\ n.of = account /\ n.what = "move" /\ n.games = {g} /\ n.heard /\ ~n.served
    BY <1>1, AskTyped
  <2>2. ~OfCard(n)
    BY <2>1 DEF OfCard
  <2>3. own' \in [Account -> SUBSET Game] /\ (\A k \in Account : own[k] \subseteq own'[k])
    BY <1>1, <1>9, OwnsSame DEF HandleBlacklist
  <2>4. Does(n, {}) /\ open /\ list = "whitelist" /\ shown' = shown /\ shown \in SUBSET Game
        /\ UNCHANGED <<list, saved, page, loading>>
    BY <1>1, <1>9 DEF HandleBlacklist, Rest, TypeOK
  <2> HIDE DEF n
  <2> QED BY <2>1, <2>2, <2>3, <2>4, AskKeeps
<1>10. CASE AddToList(g)
  BY <1>2, <1>10 DEF AddToList, Rest
<1> QED BY <1>4, <1>5, <1>6, <1>7, <1>8, <1>9, <1>10 DEF Clicks

LEMMA ReorderKeeps ==
  ASSUME IInv, NEW games \in SUBSET Game, Reorder(games), games = {} \/ shown \subseteq games,
         own' \in [Account -> SUBSET Game], \A k \in Account : own[k] \subseteq own'[k]
  PROVE  IInv'
<1> USE DEF IInv
<1>1. account \in Account /\ Does(Ask("order", games), {}) /\ list \in Ordered /\ shown' = games
      /\ UNCHANGED <<list, saved, page, loading>>
  BY DEF Reorder, Does, Rest, TypeOK
<1> DEFINE n == Ask("order", games)
<1>2. n \in Call /\ n.of = account /\ n.what = "order" /\ n.games = games /\ n.heard /\ ~n.served
  BY <1>1, AskTyped
<1>3. ~OfCard(n) /\ ~OfPage(n)
  BY <1>2 DEF OfCard, OfPage
<1> HIDE DEF n
<1> QED BY <1>1, <1>2, <1>3, AskKeeps DEF n

LEMMA WholeKeeps ==
  ASSUME IInv, Drag \/ Clear \/ Refresh \/ \E games \in SUBSET Game : AddAllToQueue(games)
  PROVE  IInv'
<1> USE DEF IInv
<1>1. account \in Account /\ shown \in SUBSET Game /\ TypeOK
  BY DEF Drag, Clear, Refresh, AddAllToQueue, Reorder, Does, TypeOK
<1>2. CASE Drag
  BY <1>1, <1>2, OwnsSame, ReorderKeeps DEF Drag
<1>3. ASSUME NEW games \in SUBSET Game, AddAllToQueue(games) PROVE IInv'
  <2>1. shown \cup games \in SUBSET Game /\ Reorder(shown \cup games) /\ Owns(games)
    BY <1>1, <1>3 DEF AddAllToQueue
  <2> QED BY <1>1, <2>1, OwnsMore, ReorderKeeps
<1>4. CASE Clear /\ list \in Ordered
  BY <1>1, <1>4, OwnsSame, ReorderKeeps DEF Clear
<1>5. ASSUME NEW what \in {"clear", "refresh"}, Does(Ask(what, {}), {}),
             UNCHANGED <<list, saved, page, loading, shown, own>>
      PROVE  IInv'
  <2> DEFINE n == Ask(what, {})
  <2>1. n \in Call /\ n.of = account /\ n.what = what /\ n.games = {} /\ n.heard /\ ~n.served
    BY <1>1, AskTyped
  <2>2. ~OfCard(n) /\ ~OfPage(n)
    BY <1>5, <2>1 DEF OfCard, OfPage
  <2>3. own' \in [Account -> SUBSET Game] /\ \A k \in Account : own[k] \subseteq own'[k]
    BY <1>1, <1>5, OwnsSame
  <2> HIDE DEF n
  <2> QED BY <1>1, <1>5, <2>1, <2>2, <2>3, AskKeeps DEF n
<1>6. CASE Clear /\ list \notin Ordered
  BY <1>5, <1>6 DEF Clear, Rest
<1>7. CASE Refresh
  BY <1>5, <1>7 DEF Refresh, Rest
<1> QED BY <1>2, <1>3, <1>4, <1>6, <1>7

-----------------------------------------------------------------------------
(* The page turns to an account. *)
LEMMA LoadKeeps ==
  ASSUME IInv, NEW k \in Account, NEW others \in SUBSET Uncancelled, Load(k, others),
         UNCHANGED <<list, saved, own>>, account' = k, open' = TRUE,
         \/ open /\ others = Uncancelled /\ UNCHANGED <<shown, pending>>
         \/ ~open /\ shown' = {} /\ pending' = {}
  PROVE  IInv'
<1> USE DEF IInv
<1> DEFINE n == [Ask("load", {}) EXCEPT !.of = k]
<1>1. /\ n \in Call /\ n.of = k /\ n.what = "load" /\ n.heard /\ ~n.served
  BY DEF Ask, Call
<1>2. ~OfCard(n)
  BY <1>1 DEF OfCard
<1>3. loading' = TRUE /\ calls' = others \cup {n} /\ calm' = (others = {})
  BY DEF Load
<1> HIDE DEF n
<1>4. others \subseteq calls /\ \A c \in calls : OfCard(c) => c \in Uncancelled
  BY DEF Uncancelled, OfCard
<1>5. TypeOK'
  BY <1>1, <1>3, <1>4 DEF TypeOK
<1>6. DisabledExactly'
  <2>1. CASE ~open
    BY <1>2, <1>3, <1>4, <2>1 DEF DisabledExactly, CallsAreAsked, OfPage, OfCard
  <2>2. CASE open /\ others = Uncancelled /\ UNCHANGED <<shown, pending>>
    BY <1>2, <1>3, <1>4, <2>2 DEF DisabledExactly, OfCard
  <2> QED BY <2>1, <2>2
<1>7. LoadingIsAsked' /\ UnorderedIsOwn'
  BY <1>1, <1>3 DEF LoadingIsAsked, UnorderedIsOwn
<1>8. CallsAreAsked'
  BY <1>1, <1>2, <1>3, <1>4 DEF CallsAreAsked, Uncancelled, OfPage, OfCard
<1>9. OneRequestPerCard'
  BY <1>2, <1>3, <1>4 DEF OneRequestPerCard, OfCard
<1>10. CalmIsAlone'
  BY <1>1, <1>3, ListsAssumption DEF CalmIsAlone
<1> QED BY <1>5, <1>6, <1>7, <1>8, <1>9, <1>10

LEMMA OpenKeeps ==
  ASSUME IInv, Open
  PROVE  IInv'
<1>1. account \in Account
  BY DEF Open, IInv, TypeOK
<1>2. calls \subseteq Uncancelled
  BY DEF Open, IInv, CallsAreAsked, Uncancelled
<1> QED BY <1>1, <1>2, LoadKeeps DEF Open

LEMMA SwitchKeeps ==
  ASSUME IInv, NEW k \in Account, Switch(k)
  PROVE  IInv'
<1> USE DEF IInv
<1>1. CASE open
  BY <1>1, LoadKeeps DEF Switch
<1>2. CASE ~open
  <2>1. account' = k /\ UNCHANGED <<list, saved, open, shown, loading, pending, calls, own, calm>>
    BY <1>2 DEF Switch
  <2>2. TypeOK' /\ DisabledExactly' /\ LoadingIsAsked' /\ UnorderedIsOwn'
    BY <1>2, <2>1 DEF TypeOK, DisabledExactly, OfCard, LoadingIsAsked, UnorderedIsOwn
  <2>3. CallsAreAsked' /\ OneRequestPerCard' /\ CalmIsAlone'
    BY <1>2, <2>1 DEF CallsAreAsked, OneRequestPerCard, CalmIsAlone, OfPage, OfCard
  <2> QED BY <2>2, <2>3
<1> QED BY <1>1, <1>2

LEMMA CloseKeeps ==
  ASSUME IInv, Close
  PROVE  IInv'
<1> USE DEF IInv
<1>1. /\ open' = FALSE /\ shown' = {} /\ loading' = TRUE /\ pending' = {} /\ calm' = FALSE
      /\ calls' = {Deaf(c) : c \in {d \in Uncancelled : d.served => d.what = "menu"}}
      /\ UNCHANGED <<list, saved, account, own>>
  BY DEF Close
<1>2. ASSUME NEW c \in calls, c.what # "load"
      PROVE  Deaf(c) \in Call /\ ~OfCard(Deaf(c)) /\ Deaf(c).what = c.what
             /\ ~OfPage(Deaf(c)) /\ Deaf(c).served = c.served
             /\ Deaf(c).games = c.games /\ Deaf(c).of = c.of
  BY <1>2 DEF Deaf, Call, OfCard, OfPage, TypeOK
<1>3. ASSUME NEW d \in calls' PROVE d \in Call /\ ~OfCard(d) /\ ~OfPage(d) /\ d.what # "load"
                                   /\ \E c \in calls : d.what = c.what /\ d.games = c.games /\ d.of = c.of
                                                       /\ d.served = c.served
  BY <1>1, <1>2 DEF Uncancelled
<1>4. TypeOK'
  BY <1>1, <1>3 DEF TypeOK
<1>5. DisabledExactly' /\ LoadingIsAsked' /\ UnorderedIsOwn' /\ OneRequestPerCard' /\ CalmIsAlone'
  BY <1>1, <1>3 DEF DisabledExactly, OfCard, LoadingIsAsked, UnorderedIsOwn, OneRequestPerCard, CalmIsAlone
<1>6. CallsAreAsked'
  BY <1>1, <1>3 DEF CallsAreAsked, OfPage, OfCard
<1> QED BY <1>4, <1>5, <1>6

LEMMA SignedOutKeeps ==
  ASSUME IInv, SignedOut
  PROVE  IInv'
<1> USE DEF IInv
<1>1. /\ account' = None /\ shown' = {} /\ calls' = Uncancelled /\ calm' = FALSE
      /\ loading' \in BOOLEAN /\ (open => ~loading')
      /\ UNCHANGED <<list, saved, open, pending, own>>
  BY DEF SignedOut, TypeOK
<1>2. calls' \subseteq calls /\ \A c \in calls : OfCard(c) => c \in calls'
  BY <1>1 DEF Uncancelled, OfCard
<1>3. TypeOK' /\ LoadingIsAsked' /\ UnorderedIsOwn' /\ CalmIsAlone'
  BY <1>1, <1>2 DEF TypeOK, LoadingIsAsked, UnorderedIsOwn, CalmIsAlone
<1>4. DisabledExactly' /\ OneRequestPerCard'
  BY <1>1, <1>2 DEF DisabledExactly, OneRequestPerCard, OfCard
<1>5. CallsAreAsked'
  BY <1>1, <1>2 DEF CallsAreAsked, Uncancelled, OfPage, OfCard
<1> QED BY <1>3, <1>4, <1>5

-----------------------------------------------------------------------------
(* The commands. *)
LEMMA WrittenTyped ==
  ASSUME TypeOK, NEW c \in calls, c.what # "move"
  PROVE  Written(c) \in SUBSET Game /\ c.of \in Account /\ c \in Call
BY DEF TypeOK, Written, Call

LEMMA WrittenOwn ==
  ASSUME IInv, NEW c \in calls, c.what # "move", list \notin Ordered
  PROVE  Written(c) \subseteq own[c.of]
<1>1. c \in Call /\ c.of \in Account
  BY WrittenTyped DEF IInv
<1>2. saved[c.of] \subseteq own[c.of]
  BY <1>1 DEF IInv, UnorderedIsOwn
<1> QED BY <1>1, <1>2 DEF IInv, CallsAreAsked, Written, Call

LEMMA ServeKeeps ==
  ASSUME IInv, NEW c \in calls, Serve(c)
  PROVE  IInv'
<1> USE DEF IInv
<1> DEFINE w == Written(c)
           a == [c EXCEPT !.served = TRUE, !.answer = w]
<1>1. w \in SUBSET Game /\ c.of \in Account /\ c \in Call /\ ~c.served /\ c.what # "move"
  BY WrittenTyped DEF Serve, Unserved
<1>2. /\ saved' = [saved EXCEPT ![c.of] = w]
      /\ calls' = (calls \ {c}) \cup IF c.heard /\ c.what # "order" THEN {a} ELSE {}
      /\ UNCHANGED <<list, account, open, shown, loading, pending, own, calm>>
  BY DEF Serve, page, hook
<1>3. a \in Call /\ a.of = c.of /\ a.games = c.games /\ a.what = c.what /\ a.heard = c.heard /\ a.served /\ a.answer = w
  BY <1>1 DEF Call
<1>4. OfCard(a) <=> OfCard(c)
  BY <1>3 DEF OfCard
<1>5. OfCard(c) => a \in calls'
  BY <1>2 DEF OfCard
<1>6. list \notin Ordered => w \subseteq own[c.of]
  BY <1>1, WrittenOwn
<1>7. c.what = "load" => a \in calls'
  BY <1>2 DEF CallsAreAsked
<1>8. saved' \in [Account -> SUBSET Game] /\ saved'[c.of] = w /\ \A k \in Account : k # c.of => saved'[k] = saved[k]
  BY <1>1, <1>2 DEF TypeOK
<1>9. calm /\ c.what = "order" => w = shown /\ c.of = account
  BY <1>1 DEF CalmIsAlone, Written
<1> HIDE DEF w, a
<1>10. TypeOK'
  BY <1>2, <1>3, <1>8 DEF TypeOK
<1>11. DisabledExactly'
  BY <1>2, <1>3, <1>4, <1>5 DEF DisabledExactly, OfCard
<1>12. LoadingIsAsked'
  BY <1>2, <1>3, <1>7 DEF LoadingIsAsked
<1>13. UnorderedIsOwn'
  BY <1>2, <1>6, <1>8 DEF UnorderedIsOwn
<1>14. CallsAreAsked'
  BY <1>1, <1>2, <1>3, <1>4 DEF CallsAreAsked, OfPage, OfCard
<1>15. OneRequestPerCard'
  BY <1>2, <1>3, <1>4 DEF OneRequestPerCard, OfCard
<1>16. CalmIsAlone'
  <2> SUFFICES ASSUME calm PROVE CalmIsAlone'
    BY <1>2 DEF CalmIsAlone
  <2>1. calls = {c} /\ c.of = account /\ c.heard /\ open /\ account # None
    BY DEF CalmIsAlone
  <2>2. CASE c.what = "order"
    BY <1>2, <1>8, <1>9, <2>1, <2>2 DEF CalmIsAlone
  <2>3. CASE c.what # "order"
    <3>1. calls' = {a}
      BY <1>2, <2>1, <2>3
    <3>2. a.of = account /\ a.heard /\ a.what # "order" /\ a.answer = saved'[account]
      BY <1>3, <1>8, <2>1, <2>3
    <3>3. account' = account /\ open' = open /\ calls' # {}
      BY <1>2, <3>1
    <3> QED BY <2>1, <3>1, <3>2, <3>3 DEF CalmIsAlone
  <2> QED BY <2>2, <2>3
<1> QED BY <1>10, <1>11, <1>12, <1>13, <1>14, <1>15, <1>16

LEMMA SettleKeeps ==
  ASSUME IInv, NEW c \in calls, Settled(c), calls' = calls \ {c}, UNCHANGED <<list, saved, page, own>>,
         shown' \in SUBSET Game, calm' \in BOOLEAN,
         calm' => calm /\ (open => shown' = c.answer) /\ c.served
  PROVE  IInv'
<1> USE DEF IInv
<1>1. c \in Call
  BY DEF TypeOK
<1>2. /\ loading' = (loading /\ c.what # "load") /\ open' = open /\ account' = account
      /\ pending' = IF OfCard(c) THEN pending \ c.games ELSE pending
  BY DEF Settled, page
<1>3. TypeOK'
  BY <1>2 DEF TypeOK, page
<1>4. DisabledExactly'
  <2>1. ASSUME NEW g \in pending' PROVE \E d \in calls' : OfCard(d) /\ g \in d.games
    <3>1. PICK d \in calls : OfCard(d) /\ g \in d.games
      BY <1>2, <2>1 DEF DisabledExactly
    <3>2. d # c
      BY <1>2, <2>1, <3>1
    <3> QED BY <3>1, <3>2
  <2>2. ASSUME list # "whitelist", NEW d \in calls', OfCard(d) PROVE d.games \subseteq pending'
    BY <1>2, <2>2 DEF DisabledExactly, OneRequestPerCard
  <2> QED BY <2>1, <2>2 DEF DisabledExactly, OfCard
<1>5. LoadingIsAsked'
  BY <1>2 DEF LoadingIsAsked
<1>6. UnorderedIsOwn' /\ CallsAreAsked' /\ OneRequestPerCard'
  BY <1>2 DEF UnorderedIsOwn, CallsAreAsked, OneRequestPerCard, OfPage, OfCard
<1>7. CalmIsAlone'
  BY <1>2 DEF CalmIsAlone
<1> QED BY <1>3, <1>4, <1>5, <1>6, <1>7

LEMMA AnswerKeeps ==
  ASSUME IInv, NEW c \in calls, Fail(c) \/ Return(c)
  PROVE  IInv'
<1>1. c.answer \in SUBSET Game /\ shown \in SUBSET Game /\ calm \in BOOLEAN
  BY DEF IInv, TypeOK, Call
<1>2. CASE Fail(c)
  BY <1>1, <1>2, SettleKeeps DEF Fail
<1>3. CASE Return(c)
  BY <1>1, <1>3, SettleKeeps DEF Return
<1> QED BY <1>2, <1>3

LEMMA MovedKeeps ==
  ASSUME IInv, NEW c \in calls, Moved(c)
  PROVE  IInv'
<1> USE DEF IInv
<1> DEFINE n == [c EXCEPT !.what = "remove"]
<1>1. /\ calls' = (calls \ {c}) \cup {n} /\ c.what = "move" /\ list = "whitelist" /\ ~c.served
      /\ pending' = IF c.heard THEN pending \cup c.games ELSE pending
      /\ UNCHANGED <<list, saved, account, open, shown, loading, own, calm>>
  BY DEF Moved, CallsAreAsked, page
<1>2. /\ c \in Call /\ n \in Call /\ n.what = "remove" /\ n.of = c.of /\ n.games = c.games
      /\ n.heard = c.heard /\ ~n.served
  BY <1>1 DEF TypeOK, Call
<1> HIDE DEF n
<1>3. ~OfCard(c) /\ (OfCard(n) <=> c.heard) /\ (OfPage(c) <=> c.heard) /\ (OfPage(n) <=> c.heard)
  BY <1>1, <1>2 DEF OfCard, OfPage
<1>4. TypeOK'
  BY <1>1, <1>2 DEF TypeOK, Call
<1>5. DisabledExactly'
  <2>1. ASSUME NEW g \in pending' PROVE \E d \in calls' : OfCard(d) /\ g \in d.games
    <3>1. CASE c.heard /\ g \in c.games
      BY <1>1, <1>2, <1>3, <3>1
    <3>2. CASE g \in pending
      BY <1>1, <1>3, <3>2 DEF DisabledExactly
    <3> QED BY <1>1, <2>1, <3>1, <3>2
  <2> QED BY <1>1, <2>1 DEF DisabledExactly, OfCard
<1>6. LoadingIsAsked' /\ UnorderedIsOwn' /\ OneRequestPerCard'
  BY <1>1, <1>2 DEF LoadingIsAsked, UnorderedIsOwn, OneRequestPerCard
<1>7. CallsAreAsked'
  BY <1>1, <1>2, <1>3 DEF CallsAreAsked, OfPage, OfCard
<1>8. CalmIsAlone'
  BY <1>1, <1>2 DEF CalmIsAlone
<1> QED BY <1>4, <1>5, <1>6, <1>7, <1>8

LEMMA PruneKeeps ==
  ASSUME IInv, NEW k \in Account, NEW g \in Game, Prune(k, g)
  PROVE  IInv'
<1> USE DEF IInv
<1>1. /\ saved' = [saved EXCEPT ![k] = @ \ {g}] /\ calm' = FALSE
      /\ UNCHANGED <<list, account, open, shown, loading, pending, calls, own>>
  BY DEF Prune, page, hook
<1>2. TypeOK' /\ UnorderedIsOwn'
  BY <1>1 DEF TypeOK, UnorderedIsOwn
<1>3. DisabledExactly' /\ LoadingIsAsked' /\ CallsAreAsked' /\ OneRequestPerCard' /\ CalmIsAlone'
  BY <1>1 DEF DisabledExactly, LoadingIsAsked, CallsAreAsked, OneRequestPerCard, CalmIsAlone, OfPage, OfCard
<1> QED BY <1>2, <1>3

-----------------------------------------------------------------------------
LEMMA InitInv == Init => IInv
BY DEF Init, IInv, TypeOK, DisabledExactly, LoadingIsAsked, UnorderedIsOwn, CallsAreAsked,
       OneRequestPerCard, CalmIsAlone

LEMMA StepInv == IInv /\ [Next]_vars => IInv'
<1> SUFFICES ASSUME IInv, [Next]_vars PROVE IInv'
  OBVIOUS
<1>1. CASE UNCHANGED vars
  <2>1. UNCHANGED <<list, saved, account, open, shown, loading, pending, calls, own, calm>>
    BY <1>1 DEF vars, page, hook
  <2> QED BY <2>1 DEF IInv, TypeOK, DisabledExactly, LoadingIsAsked, UnorderedIsOwn, CallsAreAsked,
                      OneRequestPerCard, CalmIsAlone, OfCard
<1>2. CASE Open \/ Close \/ SignedOut
  BY <1>2, OpenKeeps, CloseKeeps, SignedOutKeeps
<1>3. ASSUME NEW k \in Account, Switch(k) PROVE IInv'
  BY <1>3, SwitchKeeps
<1>4. ASSUME NEW k \in Account, NEW g \in Game, Prune(k, g) PROVE IInv'
  BY <1>4, PruneKeeps
<1>5. ASSUME NEW g \in Game, Clicks(g) PROVE IInv'
  BY <1>5, CardKeeps
<1>6. CASE Drag \/ Clear \/ Refresh \/ \E games \in SUBSET Game : AddAllToQueue(games)
  BY <1>6, WholeKeeps
<1>7. ASSUME NEW c \in calls, Serve(c) \/ Fail(c) \/ Return(c) \/ Moved(c) PROVE IInv'
  BY <1>7, ServeKeeps, AnswerKeeps, MovedKeeps
<1> QED BY <1>1, <1>2, <1>3, <1>4, <1>5, <1>6, <1>7 DEF Next

LEMMA SpecInv == Spec => []IInv
BY InitInv, StepInv, PTL DEF Spec

(* Files, page and commands keep their types; nothing is asked for nobody. *)
THEOREM ListsTypeOK == Spec => []TypeOK
<1>1. IInv => TypeOK
  BY DEF IInv
<1> QED BY SpecInv, <1>1, PTL

(* A card is disabled exactly while its request is in flight, and the      *)
(* skeletons never outlive the load they stand for.                        *)
THEOREM CardsWait == Spec => []NothingStuck
<1>1. IInv => NothingStuck
  BY DEF IInv, NothingStuck
<1> QED BY SpecInv, <1>1, PTL

(* A user who waits for every answer sees what is saved. *)
THEOREM WaitingShowsSaved == Spec => []OneAtATime
<1>1. IInv => OneAtATime
  <2>1. ASSUME IInv, calm, calls = {} PROVE shown = saved[account] /\ ~loading
    BY <2>1 DEF IInv, CalmIsAlone, LoadingIsAsked
  <2> QED BY <2>1 DEF OneAtATime
<1> QED BY SpecInv, <1>1, PTL

(* The lists that are changed game by game never mix accounts. *)
THEOREM UnorderedNeverMixed == Spec => []UnorderedIsOwn
<1>1. IInv => UnorderedIsOwn
  BY DEF IInv
<1> QED BY SpecInv, <1>1, PTL

(* A user who waits for every answer loses no game that was not removed.   *)
THEOREM WaitingLosesNothing == Spec => NothingLost
<1> DEFINE Kept == calm' => \A k \in Account : \A g \in saved[k] \ saved'[k] :
                     \E c \in calls \ calls' : c.of = k /\ Takes(c, g)
<1>1. IInv /\ [Next]_vars => [Kept]_vars
  <2> SUFFICES ASSUME IInv, Next, calm', NEW k \in Account, NEW g \in saved[k], g \notin saved'[k]
               PROVE  \E c \in calls \ calls' : c.of = k /\ Takes(c, g)
    OBVIOUS
  <2>1. saved' # saved
    OBVIOUS
  <2>2. PICK c \in calls : Serve(c)
    BY <2>1 DEF Next, Open, Close, SignedOut, Switch, Prune, Clicks, AddGame, Toggle, RemoveGame, SetEnabled,
         AddToBlacklist, HandleBlacklist, AddToList, Drag, Clear, Refresh, AddAllToQueue, Reorder, Rest, Fail, Return, Moved
  <2>3. c \in Call /\ c.of \in Account /\ ~c.served /\ saved' = [saved EXCEPT ![c.of] = Written(c)] /\ calm
        /\ c.what # "move"
    BY <2>2, WrittenTyped DEF Serve, Unserved, IInv
  <2>4. c.of = k /\ g \notin Written(c)
    BY <2>3 DEF IInv, TypeOK
  <2>5. c \notin calls'
    <3> DEFINE a == [c EXCEPT !.served = TRUE, !.answer = Written(c)]
    <3>1. a.served
      BY <2>3 DEF Call
    <3>2. calls' \subseteq (calls \ {c}) \cup {a}
      BY <2>2 DEF Serve
    <3> HIDE DEF a
    <3> QED BY <2>3, <3>1, <3>2
  <2>6. Takes(c, g)
    <3>1. c.what \in {"remove", "clear", "order"}
      BY <2>3, <2>4 DEF Written, Call
    <3>2. CASE c.what = "order"
      BY <2>3, <2>4, <3>2 DEF Takes, Written, IInv, CalmIsAlone
    <3>3. CASE c.what = "clear"
      BY <3>3 DEF Takes, IInv, CallsAreAsked
    <3>4. CASE c.what = "remove"
      BY <2>4, <3>4 DEF Takes, Written
    <3> QED BY <3>1, <3>2, <3>3, <3>4
  <2> QED BY <2>4, <2>5, <2>6
<1> QED BY SpecInv, <1>1, PTL DEF Spec, NothingLost
=============================================================================
