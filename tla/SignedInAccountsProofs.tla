----------------------- MODULE SignedInAccountsProofs ----------------------
(***************************************************************************)
(* What holds of the signed-in accounts for any number of accounts, tiers  *)
(* and bounds.  First() answers with a key only if a list has an oldest    *)
(* one; that every list does is the invariant Ordered, which needs no      *)
(* induction: each way to build a list keeps "every part of it has an      *)
(* oldest key".                                                            *)
(***************************************************************************)
EXTENDS SignedInAccounts, TLAPS

WellOrdered(o) ==
  \A T \in SUBSET o.keys : T # {} => \E k \in T : \A j \in T \ {k} : <<k, j>> \in o.older

(* The empty list, and lists with one key more or with some keys fewer. *)
LEMMA EmptyListing ==
  ASSUME NEW S
  PROVE  Empty \in Listing(S) /\ WellOrdered(Empty) /\ Empty.keys = {}
BY DEF Empty, Listing, WellOrdered

LEMMA PutListing ==
  ASSUME NEW S, NEW o \in Listing(S), NEW k \in S
  PROVE  /\ Put(o, k) \in Listing(S) /\ Put(o, k).keys = o.keys \cup {k}
         /\ WellOrdered(o) => WellOrdered(Put(o, k))
<1>1. Put(o, k) \in Listing(S) /\ Put(o, k).keys = o.keys \cup {k}
  BY DEF Put, Listing
<1>2. ASSUME WellOrdered(o), k \notin o.keys PROVE WellOrdered(Put(o, k))
  <2> SUFFICES ASSUME NEW T \in SUBSET (o.keys \cup {k}), T # {}
               PROVE  \E i \in T : \A j \in T \ {i} : <<i, j>> \in o.older \cup (o.keys \X {k})
    BY <1>2 DEF WellOrdered, Put
  <2>1. CASE T \ {k} = {}
    BY <2>1
  <2>2. CASE T \ {k} # {}
    <3>1. PICK i \in T \ {k} : \A j \in (T \ {k}) \ {i} : <<i, j>> \in o.older
      BY <2>2, <1>2 DEF WellOrdered
    <3> QED BY <3>1
  <2> QED BY <2>1, <2>2
<1>3. ASSUME WellOrdered(o), k \in o.keys PROVE WellOrdered(Put(o, k))
  BY <1>3 DEF WellOrdered, Put
<1> QED BY <1>1, <1>2, <1>3

LEMMA SelectListing ==
  ASSUME NEW S, NEW o \in Listing(S), NEW P
  PROVE  /\ Select(o, P) \in Listing(S) /\ Select(o, P).keys = o.keys \cap P
         /\ WellOrdered(o) => WellOrdered(Select(o, P))
<1>1. Select(o, P) \in Listing(S) /\ Select(o, P).keys = o.keys \cap P
  BY DEF Select, Listing
<1>2. ASSUME WellOrdered(o) PROVE WellOrdered(Select(o, P))
  <2> SUFFICES ASSUME NEW T \in SUBSET (o.keys \cap P), T # {}
               PROVE  \E k \in T : \A j \in T \ {k} :
                        <<k, j>> \in {p \in o.older : p[1] \in P /\ p[2] \in P}
    BY <1>2 DEF WellOrdered, Select
  <2>1. PICK k \in T : \A j \in T \ {k} : <<k, j>> \in o.older
    BY <1>2 DEF WellOrdered
  <2> QED BY <2>1
<1> QED BY <1>1, <1>2

LEMMA DropListing ==
  ASSUME NEW S, NEW o \in Listing(S), NEW P
  PROVE  /\ Drop(o, P) \in Listing(S) /\ Drop(o, P).keys = o.keys \ P
         /\ WellOrdered(o) => WellOrdered(Drop(o, P))
BY SelectListing DEF Drop

LEMMA MergeListing ==
  ASSUME NEW S, NEW o \in Listing(S), NEW n \in Listing(S)
  PROVE  /\ Merge(o, n) \in Listing(S) /\ Merge(o, n).keys = o.keys \cup n.keys
         /\ WellOrdered(o) /\ WellOrdered(n) => WellOrdered(Merge(o, n))
<1> DEFINE new == Select(n, n.keys \ o.keys)
<1>1. new \in Listing(S) /\ new.keys = n.keys \ o.keys /\ (WellOrdered(n) => WellOrdered(new))
  BY SelectListing
<1> HIDE DEF new
<1>2. Merge(o, n) = [keys  |-> o.keys \cup new.keys,
                     older |-> o.older \cup new.older \cup (o.keys \X new.keys)]
  BY DEF Merge, new
<1>3. Merge(o, n) \in Listing(S) /\ Merge(o, n).keys = o.keys \cup n.keys
  BY <1>1, <1>2 DEF Listing
<1>4. ASSUME WellOrdered(o), WellOrdered(new) PROVE WellOrdered(Merge(o, n))
  <2> SUFFICES ASSUME NEW T \in SUBSET (o.keys \cup new.keys), T # {}
               PROVE  \E k \in T : \A j \in T \ {k} :
                        <<k, j>> \in o.older \cup new.older \cup (o.keys \X new.keys)
    BY <1>2 DEF WellOrdered
  <2>1. CASE T \cap o.keys = {}
    <3>1. PICK k \in T : \A j \in T \ {k} : <<k, j>> \in new.older
      BY <2>1, <1>4 DEF WellOrdered
    <3> QED BY <3>1
  <2>2. CASE T \cap o.keys # {}
    <3>1. PICK k \in T \cap o.keys : \A j \in (T \cap o.keys) \ {k} : <<k, j>> \in o.older
      BY <2>2, <1>4 DEF WellOrdered
    <3> QED BY <3>1
  <2> QED BY <2>1, <2>2
<1> QED BY <1>1, <1>3, <1>4

LEMMA FirstListed ==
  ASSUME NEW S, NEW o \in Listing(S), NEW none
  PROVE  /\ First(o, none) \in o.keys \cup {none}
         /\ o.keys = {} => First(o, none) = none
         /\ WellOrdered(o) /\ o.keys # {} => First(o, none) \in o.keys
<1>1. o.keys = {} => First(o, none) = none
  BY DEF First
<1>2. ASSUME NEW k \in o.keys, IsOldest(o, k) PROVE First(o, none) \in o.keys
  BY <1>2 DEF First
<1>3. (\A k \in o.keys : ~IsOldest(o, k)) => First(o, none) = none
  BY DEF First
<1>4. WellOrdered(o) /\ o.keys # {} => \E k \in o.keys : IsOldest(o, k)
  BY DEF WellOrdered, IsOldest
<1> QED BY <1>1, <1>2, <1>3, <1>4

-----------------------------------------------------------------------------
(* The store by itself. *)
StoreOK ==
  /\ stored \in [accounts : Listing(Account), active : Account \cup {None}]
  /\ accounts \in Listing(Account)
  /\ active \in Account \cup {None}
  /\ WellOrdered(stored.accounts) /\ WellOrdered(accounts)
  /\ ActiveListed

BootOK ==
  /\ boot \in Boot
  /\ WellOrdered(boot.waiting) /\ WellOrdered(boot.resumed)

RestOK ==
  /\ outcome \in [Account -> {"none", "pending", "resumed", "failed", "gone"}]
  /\ tier \in [cap : Caps, known : BOOLEAN, cached : Caps \cup {None}]
  /\ route \in {"signIn", "dashboard"}
  /\ checking \subseteq Local
  /\ leaving \subseteq Account
  /\ wiping \in BOOLEAN

(* Until the first pass is over nothing is listed and nobody leaves; what  *)
(* is persisted is being resumed, is over the cap, or has failed, and only *)
(* what is persisted is being resumed.                                     *)
Startup ==
  /\ ~Ready => accounts.keys = {} /\ leaving = {} /\ checking = {}
  /\ boot.pc = "grace" => boot.resumed.keys = {}
  /\ boot.pc = "racing" => boot.resumed.keys \subseteq stored.accounts.keys \ boot.waiting.keys
  /\ boot.pc \in {"racing", "grace"} =>
       \A k \in stored.accounts.keys :
         k \in boot.waiting.keys \cup boot.resumed.keys \/ outcome[k] = "failed"
  /\ boot.pc \in {"racing", "grace"} => boot.waiting.keys \subseteq stored.accounts.keys
  /\ \A k \in boot.waiting.keys : outcome[k] # "none"

IInv == StoreOK /\ BootOK /\ RestOK /\ Startup /\ StoredListed

LEMMA IInvTypeOK == IInv => TypeOK
BY DEF IInv, StoreOK, BootOK, RestOK, TypeOK

LEMMA ForgetStep ==
  ASSUME StoreOK, NEW S, Forget(S)
  PROVE  /\ stored' \in [accounts : Listing(Account), active : Account \cup {None}]
         /\ stored'.accounts.keys = stored.accounts.keys \ S
         /\ WellOrdered(stored'.accounts)
<1> DEFINE rest == Drop(stored.accounts, S)
<1>1. stored.accounts \in Listing(Account) /\ WellOrdered(stored.accounts)
  BY DEF StoreOK
<1>2. rest \in Listing(Account) /\ rest.keys = stored.accounts.keys \ S /\ WellOrdered(rest)
  BY <1>1, DropListing
<1>3. First(rest, None) \in rest.keys \cup {None} /\ rest.keys \subseteq Account
  BY <1>2, FirstListed DEF Listing
<1>4. stored' = [accounts |-> rest,
                 active   |-> IF stored.active \in S THEN First(rest, None) ELSE stored.active]
  BY DEF Forget
<1> HIDE DEF rest
<1>5. stored.active \in Account \cup {None}
  BY DEF StoreOK
<1> QED BY <1>2, <1>3, <1>4, <1>5

LEMMA HydrateStep ==
  ASSUME StoreOK, NEW new \in Listing(Account), WellOrdered(new), Hydrate(new)
  PROVE  /\ accounts' \in Listing(Account) /\ WellOrdered(accounts')
         /\ accounts'.keys = accounts.keys \cup new.keys
         /\ active' \in Account \cup {None}
         /\ ActiveListed'
<1>1. /\ accounts' \in Listing(Account) /\ WellOrdered(accounts')
      /\ accounts'.keys = accounts.keys \cup new.keys
  BY MergeListing DEF StoreOK, Hydrate
<1>2. /\ First(accounts', None) \in accounts'.keys \cup {None}
      /\ accounts'.keys = {} => First(accounts', None) = None
      /\ accounts'.keys # {} => First(accounts', None) \in accounts'.keys
  BY <1>1, FirstListed
<1>3. accounts'.keys \subseteq Account
  BY <1>1 DEF Listing
<1>4. active' = IF boot.preferred \in accounts'.keys THEN boot.preferred
                 ELSE IF active # None THEN active ELSE First(accounts', None)
  BY DEF Hydrate
<1>5. IF accounts.keys = {} THEN active = None ELSE active \in accounts.keys
  BY DEF StoreOK, ActiveListed
<1>6. active # None => active \in accounts'.keys
  BY <1>1, <1>5
<1>7. IF accounts'.keys = {} THEN active' = None ELSE active' \in accounts'.keys
  <2>1. CASE boot.preferred \in accounts'.keys
    <3>1. active' = boot.preferred
      BY <2>1, <1>4
    <3> QED BY <3>1, <2>1
  <2>2. CASE boot.preferred \notin accounts'.keys /\ active # None
    BY <2>2, <1>4, <1>6
  <2>3. CASE boot.preferred \notin accounts'.keys /\ active = None
    BY <2>3, <1>4, <1>2
  <2> QED BY <2>1, <2>2, <2>3
<1> QED BY <1>1, <1>3, <1>7 DEF ActiveListed

LEMMA SetAccountStep ==
  ASSUME StoreOK, NEW k \in Account, SetAccount(k)
  PROVE  /\ StoreOK'
         /\ accounts'.keys = accounts.keys \cup {k}
         /\ stored'.accounts.keys = stored.accounts.keys \cup {k}
<1>1. /\ Put(stored.accounts, k) \in Listing(Account) /\ WellOrdered(Put(stored.accounts, k))
      /\ Put(stored.accounts, k).keys = stored.accounts.keys \cup {k}
  BY PutListing DEF StoreOK
<1>2. /\ Put(accounts, k) \in Listing(Account) /\ WellOrdered(Put(accounts, k))
      /\ Put(accounts, k).keys = accounts.keys \cup {k}
  BY PutListing DEF StoreOK
<1>3. /\ stored' = [accounts |-> Put(stored.accounts, k), active |-> k]
      /\ accounts' = Put(accounts, k) /\ active' = k
  BY DEF SetAccount
<1> QED BY <1>1, <1>2, <1>3 DEF StoreOK, ActiveListed

LEMMA ClearAccountStep ==
  ASSUME StoreOK, NEW k \in Account, ClearAccount(k)
  PROVE  /\ StoreOK'
         /\ accounts'.keys = accounts.keys \ {k}
         /\ stored'.accounts.keys = stored.accounts.keys \ {k}
<1>1. /\ stored' \in [accounts : Listing(Account), active : Account \cup {None}]
      /\ stored'.accounts.keys = stored.accounts.keys \ {k}
      /\ WellOrdered(stored'.accounts)
  BY ForgetStep DEF ClearAccount
<1>2. /\ accounts' \in Listing(Account) /\ WellOrdered(accounts')
      /\ accounts'.keys = accounts.keys \ {k}
  BY DropListing DEF ClearAccount, StoreOK
<1>3. /\ First(accounts', None) \in accounts'.keys \cup {None}
      /\ accounts'.keys = {} => First(accounts', None) = None
      /\ accounts'.keys # {} => First(accounts', None) \in accounts'.keys
  BY <1>2, FirstListed
<1>4. accounts'.keys \subseteq Account
  BY <1>2 DEF Listing
<1>5. active' = IF active = k THEN First(accounts', None) ELSE active
  BY DEF ClearAccount
<1>6. IF accounts.keys = {} THEN active = None ELSE active \in accounts.keys
  BY DEF StoreOK, ActiveListed
<1>7. k # None
  BY AccountsAssumption
<1>8. IF accounts'.keys = {} THEN active' = None ELSE active' \in accounts'.keys
  BY <1>2, <1>3, <1>5, <1>6, <1>7
<1> QED BY <1>1, <1>2, <1>4, <1>8 DEF StoreOK, ActiveListed

LEMMA SwitchAccountStep ==
  ASSUME StoreOK, NEW k, SwitchAccount(k)
  PROVE  StoreOK' /\ accounts' = accounts /\ stored'.accounts = stored.accounts
<1>1. accounts.keys \subseteq Account
  BY DEF StoreOK, Listing
<1>2. CASE k \in accounts.keys
  <2>1. stored' = [stored EXCEPT !.active = k] /\ active' = k /\ accounts' = accounts
    BY <1>2 DEF SwitchAccount
  <2>2. stored' \in [accounts : Listing(Account), active : Account \cup {None}]
        /\ stored'.accounts = stored.accounts
    BY <2>1, <1>1, <1>2 DEF StoreOK
  <2> QED BY <2>1, <2>2, <1>1, <1>2 DEF StoreOK, ActiveListed
<1>3. CASE k \notin accounts.keys
  BY <1>3 DEF SwitchAccount, StoreOK, ActiveListed
<1> QED BY <1>2, <1>3

LEMMA ToDashboardStep ==
  ASSUME RestOK, ToDashboard
  PROVE  /\ tier' \in [cap : Caps, known : BOOLEAN, cached : Caps \cup {None}]
         /\ route' = "dashboard"
<1>1. tier \in [cap : Caps, known : BOOLEAN, cached : Caps \cup {None}]
  BY DEF RestOK
<1>2. CASE route = "signIn" /\ tier.cached # None
  BY <1>1, <1>2 DEF ToDashboard
<1>3. CASE ~(route = "signIn" /\ tier.cached # None)
  BY <1>1, <1>3 DEF ToDashboard
<1> QED BY <1>2, <1>3 DEF ToDashboard

LEMMA SeenStep ==
  ASSUME RestOK, Seen
  PROVE  /\ outcome' \in [Account -> {"none", "pending", "resumed", "failed", "gone"}]
         /\ \A k \in Account : outcome[k] \in {"none", "pending", "failed"} => outcome'[k] = outcome[k]
BY DEF RestOK, Seen

-----------------------------------------------------------------------------
(* The first pass ends; outcomes are those it saw. *)
LEMMA SettleStep ==
  ASSUME StoreOK, BootOK, RestOK,
         NEW resumed \in Listing(Account), NEW waiting \in Listing(Account),
         WellOrdered(resumed), WellOrdered(waiting),
         stored' \in [accounts : Listing(Account), active : Account \cup {None}],
         WellOrdered(stored'.accounts), Settle(resumed, waiting)
  PROVE  /\ StoreOK' /\ BootOK'
         /\ tier' \in [cap : Caps, known : BOOLEAN, cached : Caps \cup {None}]
         /\ route' \in {"signIn", "dashboard"}
         /\ boot'.pc = "idle" /\ boot'.waiting = waiting
         /\ accounts'.keys = accounts.keys \cup resumed.keys
<1>1. boot' = [boot EXCEPT !.pc = "idle", !.waiting = waiting, !.resumed = Empty,
                 !.preferred = IF waiting = Empty THEN None ELSE boot.preferred]
  BY DEF Settle
<1>2. BootOK' /\ boot'.pc = "idle" /\ boot'.waiting = waiting
  <2>1. boot \in Boot
    BY DEF BootOK
  <2>2. Empty \in Listing(Account) /\ WellOrdered(Empty)
    BY EmptyListing
  <2>3. boot' \in Boot /\ boot'.pc = "idle" /\ boot'.waiting = waiting /\ boot'.resumed = Empty
    BY <1>1, <2>1, <2>2 DEF Boot
  <2> QED BY <2>2, <2>3 DEF BootOK
<1>3. CASE resumed = Empty
  <2>1. accounts' = accounts /\ active' = active /\ tier' = tier /\ route' = route
    BY <1>3 DEF Settle
  <2>2. resumed.keys = {}
    BY <1>3, EmptyListing
  <2> QED BY <1>2, <2>1, <2>2 DEF StoreOK, RestOK, ActiveListed
<1>4. CASE resumed # Empty
  <2>1. Hydrate(resumed) /\ ToDashboard
    BY <1>4 DEF Settle
  <2>2. /\ accounts' \in Listing(Account) /\ WellOrdered(accounts')
        /\ accounts'.keys = accounts.keys \cup resumed.keys
        /\ active' \in Account \cup {None} /\ ActiveListed'
    BY <2>1, HydrateStep
  <2> QED BY <1>2, <2>1, <2>2, ToDashboardStep DEF StoreOK
<1> QED BY <1>3, <1>4

(* What is being resumed, by what came of it. *)
LEMMA WaitingListing ==
  ASSUME BootOK, NEW result
  PROVE  /\ Select(boot.waiting, Waiting(result)) \in Listing(Account)
         /\ Select(boot.waiting, Waiting(result)).keys = Waiting(result)
         /\ WellOrdered(Select(boot.waiting, Waiting(result)))
<1>1. boot.waiting \in Listing(Account) /\ WellOrdered(boot.waiting)
  BY DEF BootOK, Boot
<1>2. Waiting(result) \subseteq boot.waiting.keys
  BY DEF Waiting
<1> QED BY <1>1, <1>2, SelectListing

(* Every resume that was waited for has come to one of four ends. *)
LEMMA WaitingEnds ==
  ASSUME BootOK, RestOK, Startup, NEW k \in boot.waiting.keys
  PROVE  /\ k \in Account
         /\ \/ k \in Waiting("pending") \/ k \in Waiting("resumed")
            \/ k \in Waiting("gone") \/ outcome[k] = "failed"
<1>1. k \in Account
  BY DEF BootOK, Boot, Listing
<1> QED BY <1>1 DEF RestOK, Startup, Waiting

LEMMA BootStartStep == IInv /\ BootStart => IInv'
<1> SUFFICES ASSUME IInv, BootStart PROVE IInv'
  OBVIOUS
<1> DEFINE order == stored.accounts
           cap == IF tier.cached = None THEN FreeCap ELSE tier.cached
           allowed == Allowed(order, cap)
<1>1. /\ boot.pc = "start" /\ boot \in Boot
      /\ UNCHANGED <<storeVars, tier, route, exitVars>>
  BY DEF BootStart, IInv, BootOK
<1>2. StoreOK'
  BY <1>1 DEF IInv, StoreOK, ActiveListed, storeVars
<1>3. order \in Listing(Account) /\ WellOrdered(order) /\ order.keys \subseteq Account
      /\ stored.active \in Account \cup {None}
  BY DEF IInv, StoreOK, Listing
<1>4. accounts.keys = {} /\ leaving = {} /\ checking = {}
  BY <1>1 DEF IInv, Startup, Ready
<1>5. CASE order = Empty
  <2>1. boot' = [boot EXCEPT !.pc = "idle"] /\ outcome' = outcome
    BY <1>5 DEF BootStart
  <2>2. boot' \in Boot /\ boot'.pc = "idle" /\ boot'.waiting = boot.waiting /\ boot'.resumed = boot.resumed
    BY <2>1, <1>1 DEF Boot
  <2>3. stored'.accounts.keys = {}
    BY <1>1, <1>5, EmptyListing DEF storeVars
  <2> QED BY <1>1, <1>2, <2>1, <2>2, <2>3
          DEF IInv, BootOK, RestOK, Startup, StoredListed, Ready, exitVars
<1>6. CASE order # Empty
  <2>1. /\ boot' = [boot EXCEPT !.pc = "racing", !.preferred = stored.active,
                      !.waiting = Select(order, allowed), !.resumed = Drop(order, allowed)]
        /\ outcome' = [k \in Account |-> IF k \in allowed THEN "pending" ELSE "none"]
    BY <1>6 DEF BootStart
  <2> HIDE DEF allowed
  <2>2. /\ Select(order, allowed) \in Listing(Account) /\ WellOrdered(Select(order, allowed))
        /\ Select(order, allowed).keys = order.keys \cap allowed
        /\ Drop(order, allowed) \in Listing(Account) /\ WellOrdered(Drop(order, allowed))
        /\ Drop(order, allowed).keys = order.keys \ allowed
    BY <1>3, SelectListing, DropListing
  <2>3. /\ boot' \in Boot /\ boot'.pc = "racing"
        /\ boot'.waiting = Select(order, allowed) /\ boot'.resumed = Drop(order, allowed)
    BY <2>1, <2>2, <1>1, <1>3 DEF Boot
  <2>4. BootOK'
    BY <2>2, <2>3 DEF BootOK
  <2>5. RestOK'
    BY <1>1, <2>1 DEF IInv, RestOK, exitVars
  <2>6. Startup'
    BY <1>1, <1>3, <1>4, <2>1, <2>2, <2>3 DEF Startup, Ready, storeVars, exitVars
  <2> QED BY <1>2, <2>3, <2>4, <2>5, <2>6 DEF IInv, StoredListed, Ready
<1> QED BY <1>5, <1>6

LEMMA RaceEndsStep == IInv /\ RaceEnds => IInv'
<1> SUFFICES ASSUME IInv, RaceEnds PROVE IInv'
  OBVIOUS
<1> USE DEF IInv
<1> DEFINE resumed == Merge(boot.resumed, Select(boot.waiting, Waiting("resumed")))
           waiting == Select(boot.waiting, Waiting("pending"))
<1>1. /\ boot.pc = "racing" /\ boot \in Boot
      /\ Forget(Waiting("gone")) /\ Seen /\ UNCHANGED exitVars
  BY DEF RaceEnds, BootOK
<1>2. /\ stored' \in [accounts : Listing(Account), active : Account \cup {None}]
      /\ stored'.accounts.keys = stored.accounts.keys \ Waiting("gone")
      /\ WellOrdered(stored'.accounts)
  BY <1>1, ForgetStep
<1>3. /\ outcome' \in [Account -> {"none", "pending", "resumed", "failed", "gone"}]
      /\ \A k \in Account : outcome[k] \in {"none", "pending", "failed"} => outcome'[k] = outcome[k]
  BY <1>1, SeenStep
<1>4. waiting \in Listing(Account) /\ waiting.keys = Waiting("pending") /\ WellOrdered(waiting)
  BY WaitingListing
<1>5. /\ resumed \in Listing(Account) /\ WellOrdered(resumed)
      /\ resumed.keys = boot.resumed.keys \cup Waiting("resumed")
  BY WaitingListing, MergeListing DEF BootOK, Boot
<1>6. \A k \in stored'.accounts.keys :
        k \in resumed.keys \cup waiting.keys \/ outcome'[k] = "failed"
  <2> SUFFICES ASSUME NEW k \in stored.accounts.keys \ Waiting("gone")
               PROVE  k \in boot.resumed.keys \cup Waiting("resumed") \cup Waiting("pending")
                      \/ outcome'[k] = "failed"
    BY <1>2, <1>4, <1>5
  <2>1. k \in Account
    BY DEF StoreOK, Listing
  <2>2. k \in boot.waiting.keys \cup boot.resumed.keys \/ outcome[k] = "failed"
    BY <1>1 DEF Startup
  <2> QED BY <2>1, <2>2, <1>3, WaitingEnds
<1>7. \A k \in waiting.keys : k \in Account /\ outcome'[k] = "pending"
  BY <1>4, <1>3 DEF Waiting, BootOK, Boot, Listing
<1>8. accounts.keys = {} /\ leaving = {} /\ checking = {}
  BY <1>1 DEF Startup, Ready
<1>9. waiting.keys \subseteq stored'.accounts.keys
  BY <1>1, <1>2, <1>4 DEF Startup, Waiting
<1>10. CASE resumed = Empty /\ waiting # Empty
  <2>1. /\ boot' = [boot EXCEPT !.pc = "grace", !.waiting = waiting]
        /\ accounts' = accounts /\ active' = active /\ tier' = tier /\ route' = route
    BY <1>10 DEF RaceEnds
  <2>2. boot.resumed.keys = {} /\ resumed.keys = {}
    BY <1>5, <1>10, EmptyListing
  <2> HIDE DEF resumed, waiting
  <2>3. boot' \in Boot /\ boot'.pc = "grace" /\ boot'.waiting = waiting /\ boot'.resumed = boot.resumed
    BY <2>1, <1>1, <1>4 DEF Boot
  <2>4. StoreOK'
    BY <2>1, <1>2 DEF StoreOK, ActiveListed
  <2>5. BootOK'
    BY <2>3, <1>4 DEF BootOK
  <2>6. RestOK'
    BY <2>1, <1>1, <1>3 DEF RestOK, exitVars
  <2>7. Startup'
    BY <2>1, <2>2, <2>3, <1>1, <1>6, <1>7, <1>8, <1>9 DEF Startup, Ready, exitVars
  <2> QED BY <2>3, <2>4, <2>5, <2>6, <2>7 DEF StoredListed, Ready
<1>11. CASE ~(resumed = Empty /\ waiting # Empty)
  <2>1. Settle(resumed, waiting)
    BY <1>11 DEF RaceEnds
  <2> HIDE DEF resumed, waiting
  <2>2. /\ StoreOK' /\ BootOK'
        /\ tier' \in [cap : Caps, known : BOOLEAN, cached : Caps \cup {None}]
        /\ route' \in {"signIn", "dashboard"}
        /\ boot'.pc = "idle" /\ boot'.waiting = waiting
        /\ accounts'.keys = accounts.keys \cup resumed.keys
    BY <2>1, <1>2, <1>4, <1>5, SettleStep
  <2>3. RestOK'
    BY <2>2, <1>1, <1>3 DEF RestOK, exitVars
  <2>4. Startup'
    BY <2>2, <1>7 DEF Startup, Ready
  <2>5. StoredListed'
    BY <2>2, <1>6 DEF StoredListed
  <2> QED BY <2>2, <2>3, <2>4, <2>5
<1> QED BY <1>10, <1>11

LEMMA GraceEndsStep == IInv /\ GraceEnds => IInv'
<1> SUFFICES ASSUME IInv, GraceEnds PROVE IInv'
  OBVIOUS
<1> USE DEF IInv
<1> DEFINE resumed == Select(boot.waiting, Waiting("resumed"))
           waiting == Select(boot.waiting, Waiting("pending"))
<1>1. /\ boot.pc = "grace" /\ boot \in Boot
      /\ Forget(Waiting("gone")) /\ Seen /\ UNCHANGED exitVars /\ Settle(resumed, waiting)
  BY DEF GraceEnds, BootOK
<1>2. /\ stored' \in [accounts : Listing(Account), active : Account \cup {None}]
      /\ stored'.accounts.keys = stored.accounts.keys \ Waiting("gone")
      /\ WellOrdered(stored'.accounts)
  BY <1>1, ForgetStep
<1>3. /\ outcome' \in [Account -> {"none", "pending", "resumed", "failed", "gone"}]
      /\ \A k \in Account : outcome[k] \in {"none", "pending", "failed"} => outcome'[k] = outcome[k]
  BY <1>1, SeenStep
<1>4. /\ waiting \in Listing(Account) /\ waiting.keys = Waiting("pending") /\ WellOrdered(waiting)
      /\ resumed \in Listing(Account) /\ resumed.keys = Waiting("resumed") /\ WellOrdered(resumed)
  BY WaitingListing
<1> HIDE DEF resumed, waiting
<1>5. /\ StoreOK' /\ BootOK'
      /\ tier' \in [cap : Caps, known : BOOLEAN, cached : Caps \cup {None}]
      /\ route' \in {"signIn", "dashboard"}
      /\ boot'.pc = "idle" /\ boot'.waiting = waiting
      /\ accounts'.keys = accounts.keys \cup resumed.keys
  BY <1>1, <1>2, <1>4, SettleStep
<1>6. \A k \in stored'.accounts.keys :
        k \in resumed.keys \cup waiting.keys \/ outcome'[k] = "failed"
  <2> SUFFICES ASSUME NEW k \in stored.accounts.keys \ Waiting("gone")
               PROVE  k \in Waiting("resumed") \cup Waiting("pending") \/ outcome'[k] = "failed"
    BY <1>2, <1>4
  <2>1. k \in Account
    BY DEF StoreOK, Listing
  <2>2. k \in boot.waiting.keys \/ outcome[k] = "failed"
    BY <1>1 DEF Startup
  <2> QED BY <2>1, <2>2, <1>3, WaitingEnds
<1>7. \A k \in waiting.keys : k \in Account /\ outcome'[k] = "pending"
  BY <1>4, <1>3 DEF Waiting, BootOK, Boot, Listing
<1>8. RestOK'
  BY <1>5, <1>1, <1>3 DEF RestOK, exitVars
<1>9. Startup'
  BY <1>5, <1>7 DEF Startup, Ready
<1>10. StoredListed'
  BY <1>5, <1>6 DEF StoredListed
<1> QED BY <1>5, <1>8, <1>9, <1>10

LEMMA LateEndsStep == IInv /\ LateEnds => IInv'
<1> SUFFICES ASSUME IInv, LateEnds PROVE IInv'
  OBVIOUS
<1> USE DEF IInv
<1> DEFINE resumed == Select(boot.waiting, Waiting("resumed"))
<1>1. /\ boot.pc = "idle" /\ boot \in Boot /\ Waiting("pending") = {}
      /\ Forget(Waiting("gone")) /\ Seen /\ UNCHANGED exitVars
      /\ boot' = [boot EXCEPT !.waiting = Empty, !.preferred = None]
      /\ IF resumed = Empty THEN UNCHANGED <<accounts, active>> ELSE Hydrate(resumed)
      /\ IF resumed = Empty \/ route = "dashboard" THEN UNCHANGED <<tier, route>> ELSE ToDashboard
  BY DEF LateEnds, BootOK, Ready
<1>2. /\ stored' \in [accounts : Listing(Account), active : Account \cup {None}]
      /\ stored'.accounts.keys = stored.accounts.keys \ Waiting("gone")
      /\ WellOrdered(stored'.accounts)
  BY <1>1, ForgetStep
<1>3. /\ outcome' \in [Account -> {"none", "pending", "resumed", "failed", "gone"}]
      /\ \A k \in Account : outcome[k] \in {"none", "pending", "failed"} => outcome'[k] = outcome[k]
  BY <1>1, SeenStep
<1>4. resumed \in Listing(Account) /\ resumed.keys = Waiting("resumed") /\ WellOrdered(resumed)
  BY WaitingListing
<1>5. /\ accounts' \in Listing(Account) /\ WellOrdered(accounts')
      /\ accounts'.keys = accounts.keys \cup resumed.keys
      /\ active' \in Account \cup {None} /\ ActiveListed'
  <2>1. CASE resumed = Empty
    BY <2>1, <1>1, EmptyListing DEF StoreOK, ActiveListed
  <2>2. CASE resumed # Empty
    BY <2>2, <1>1, <1>4, HydrateStep
  <2> QED BY <2>1, <2>2
<1>6. /\ tier' \in [cap : Caps, known : BOOLEAN, cached : Caps \cup {None}]
      /\ route' \in {"signIn", "dashboard"}
  <2>1. CASE resumed = Empty \/ route = "dashboard"
    BY <2>1, <1>1 DEF RestOK
  <2>2. CASE ~(resumed = Empty \/ route = "dashboard")
    BY <2>2, <1>1, ToDashboardStep
  <2> QED BY <2>1, <2>2
<1> HIDE DEF resumed
<1>7. /\ boot' \in Boot /\ boot'.pc = "idle" /\ boot'.waiting = Empty /\ boot'.resumed = boot.resumed
      /\ Empty \in Listing(Account) /\ WellOrdered(Empty) /\ Empty.keys = {}
  BY <1>1, EmptyListing DEF Boot
<1>8. StoreOK'
  BY <1>2, <1>5 DEF StoreOK
<1>9. BootOK' /\ Startup'
  BY <1>7 DEF BootOK, Startup, Ready
<1>10. RestOK'
  BY <1>1, <1>3, <1>6 DEF RestOK, exitVars
<1>11. StoredListed'
  <2> SUFFICES ASSUME NEW k \in stored.accounts.keys \ Waiting("gone")
               PROVE  k \in accounts'.keys \/ outcome'[k] = "failed"
    BY <1>2 DEF StoredListed
  <2>1. k \in Account
    BY DEF StoreOK, Listing
  <2>2. k \in accounts.keys \cup boot.waiting.keys \/ outcome[k] = "failed"
    BY <1>1 DEF StoredListed, Ready
  <2> QED BY <2>1, <2>2, <1>1, <1>3, <1>4, <1>5, WaitingEnds
<1> QED BY <1>8, <1>9, <1>10, <1>11

LEMMA RestartStep == IInv /\ Restart => IInv'
<1> SUFFICES ASSUME IInv, Restart PROVE IInv'
  OBVIOUS
<1>1. Empty \in Listing(Account) /\ WellOrdered(Empty) /\ Empty.keys = {}
  BY EmptyListing
<1>2. /\ accounts' = Empty /\ active' = None /\ stored' = stored
      /\ boot' = Unbooted /\ outcome' = Nothing /\ route' = "signIn"
      /\ checking' = {} /\ leaving' = {} /\ wiping' = FALSE
      /\ tier' = [tier EXCEPT !.cap = FreeCap, !.known = FALSE]
  BY DEF Restart
<1>3. StoreOK'
  BY <1>1, <1>2 DEF IInv, StoreOK, ActiveListed
<1>4. BootOK' /\ Startup' /\ StoredListed'
  BY <1>1, <1>2 DEF BootOK, Boot, Unbooted, Startup, StoredListed, Ready
<1>5. RestOK'
  BY <1>2, AccountsAssumption DEF IInv, RestOK, Nothing
<1> QED BY <1>3, <1>4, <1>5 DEF IInv

LEMMA ResumeAnswersStep ==
  ASSUME IInv, NEW k \in Account, NEW result \in {"resumed", "failed", "gone"}, ResumeAnswers(k, result)
  PROVE  IInv'
<1>1. /\ outcome[k] = "pending" /\ outcome' = [outcome EXCEPT ![k] = result]
      /\ UNCHANGED <<storeVars, boot, tier, route, exitVars>>
  BY DEF ResumeAnswers
<1>2. outcome \in [Account -> {"none", "pending", "resumed", "failed", "gone"}]
  BY DEF IInv, RestOK
<1>3. \A j \in Account : outcome[j] \in {"failed"} => outcome'[j] = "failed"
  BY <1>1, <1>2
<1>4. \A j \in Account : outcome[j] # "none" => outcome'[j] # "none"
  BY <1>1, <1>2
<1>5. boot.waiting.keys \subseteq Account /\ stored.accounts.keys \subseteq Account
  BY DEF IInv, BootOK, Boot, StoreOK, Listing
<1>6. StoreOK' /\ BootOK' /\ RestOK'
  BY <1>1, <1>2 DEF IInv, StoreOK, ActiveListed, BootOK, RestOK, storeVars, exitVars
<1>7. Startup' /\ StoredListed'
  BY <1>1, <1>3, <1>4, <1>5 DEF IInv, Startup, StoredListed, Ready, storeVars, exitVars
<1> QED BY <1>6, <1>7 DEF IInv

LEMMA SignsInStep ==
  ASSUME IInv, NEW k \in Account, NEW open \in BOOLEAN, SignsIn(k, open)
  PROVE  IInv'
<1>1. Ready /\ SetAccount(k) /\ UNCHANGED <<bootVars, exitVars>>
      /\ IF open THEN ToDashboard ELSE UNCHANGED <<route, tier>>
  BY DEF SignsIn
<1>2. /\ StoreOK'
      /\ accounts'.keys = accounts.keys \cup {k}
      /\ stored'.accounts.keys = stored.accounts.keys \cup {k}
  BY <1>1, SetAccountStep DEF IInv
<1>3. RestOK'
  <2>1. CASE open = TRUE
    BY <2>1, <1>1, ToDashboardStep DEF IInv, RestOK, bootVars, exitVars
  <2>2. CASE open = FALSE
    BY <2>2, <1>1 DEF IInv, RestOK, bootVars, exitVars
  <2> QED BY <2>1, <2>2
<1>4. BootOK' /\ Startup' /\ StoredListed'
  BY <1>1, <1>2 DEF IInv, BootOK, Startup, StoredListed, Ready, bootVars, exitVars
<1> QED BY <1>2, <1>3, <1>4 DEF IInv

(* A step that leaves the listed and the persisted accounts, and what is   *)
(* left of the startup, as they are. *)
LEMMA QuietStep ==
  ASSUME IInv, StoreOK', RestOK', accounts' = accounts, stored'.accounts = stored.accounts,
         boot' = boot, Ready, outcome' = outcome
  PROVE  IInv'
BY DEF IInv, BootOK, Startup, StoredListed, Ready

LEMMA SwitcherStep ==
  ASSUME IInv, NEW k \in Account, Switcher(k)
  PROVE  IInv'
<1>1. CASE RequestSwitch(k)
  <2>1. Ready /\ UNCHANGED <<bootVars, tier, route, leaving, wiping>>
    BY <1>1 DEF RequestSwitch, Shell
  <2>2. CASE k \in Agent
    <3>1. SwitchAccount(k) /\ checking' = checking
      BY <1>1, <2>2 DEF RequestSwitch
    <3> QED BY <2>1, <3>1, SwitchAccountStep, QuietStep DEF IInv, RestOK, bootVars
  <2>3. CASE k \notin Agent
    <3>1. checking' = checking \cup {k} /\ UNCHANGED storeVars
      BY <1>1, <2>3 DEF RequestSwitch
    <3>2. StoreOK' /\ RestOK'
      BY <2>1, <2>3, <3>1 DEF IInv, StoreOK, ActiveListed, RestOK, storeVars, bootVars, Local
    <3> QED BY <2>1, <3>1, <3>2, QuietStep DEF storeVars, bootVars
  <2> QED BY <2>2, <2>3
<1>2. ASSUME NEW running \in BOOLEAN, SwitchChecked(k, running) PROVE IInv'
  <2>1. k \in checking /\ checking' = checking \ {k} /\ UNCHANGED <<bootVars, tier, route, leaving, wiping>>
    BY <1>2 DEF SwitchChecked
  <2>2. Ready
    BY <2>1 DEF IInv, Startup
  <2>3. StoreOK' /\ accounts' = accounts /\ stored'.accounts = stored.accounts
    <3>1. CASE running = TRUE
      BY <3>1, <1>2, SwitchAccountStep DEF SwitchChecked, IInv
    <3>2. CASE running = FALSE
      BY <3>2, <1>2 DEF SwitchChecked, IInv, StoreOK, ActiveListed, storeVars
    <3> QED BY <3>1, <3>2
  <2> QED BY <2>1, <2>2, <2>3, QuietStep DEF IInv, RestOK, bootVars
<1>3. CASE RequestSignOut(k)
  <2>1. Ready /\ leaving' = leaving \cup {k}
        /\ UNCHANGED <<storeVars, bootVars, tier, route, checking, wiping>>
    BY <1>3 DEF RequestSignOut, Shell
  <2>2. StoreOK' /\ RestOK'
    BY <2>1 DEF IInv, StoreOK, ActiveListed, RestOK, storeVars, bootVars
  <2> QED BY <2>1, <2>2, QuietStep DEF storeVars, bootVars
<1>4. CASE SignOutEnds(k)
  <2>1. /\ k \in leaving /\ leaving' = leaving \ {k} /\ ClearAccount(k)
        /\ wiping' = (wiping \/ accounts'.keys = {})
        /\ tier' = IF accounts'.keys = {} THEN [tier EXCEPT !.cap = FreeCap, !.known = FALSE] ELSE tier
        /\ UNCHANGED <<bootVars, route, checking>>
    BY <1>4 DEF SignOutEnds
  <2>2. Ready
    BY <2>1 DEF IInv, Startup
  <2>3. /\ StoreOK'
        /\ accounts'.keys = accounts.keys \ {k}
        /\ stored'.accounts.keys = stored.accounts.keys \ {k}
    BY <2>1, ClearAccountStep DEF IInv
  <2>4. tier' \in [cap : Caps, known : BOOLEAN, cached : Caps \cup {None}]
    BY <2>1, AccountsAssumption DEF IInv, RestOK
  <2>5. RestOK'
    BY <2>1, <2>4 DEF IInv, RestOK, bootVars
  <2>6. BootOK' /\ Startup' /\ StoredListed'
    BY <2>1, <2>2, <2>3 DEF IInv, BootOK, Startup, StoredListed, Ready, bootVars
  <2> QED BY <2>3, <2>5, <2>6 DEF IInv
<1> QED BY <1>1, <1>2, <1>3, <1>4 DEF Switcher

LEMMA PageStep ==
  ASSUME IInv, LeaveDashboard \/ Enforce \/ \E c \in Caps : TierChecked(c)
  PROVE  IInv'
<1>1. CASE LeaveDashboard
  <2>1. Ready /\ route' = "signIn" /\ UNCHANGED <<storeVars, bootVars, tier, exitVars>>
    BY <1>1 DEF LeaveDashboard, Shell
  <2>2. StoreOK' /\ RestOK'
    BY <2>1 DEF IInv, StoreOK, ActiveListed, RestOK, storeVars, bootVars, exitVars
  <2> QED BY <2>1, <2>2, QuietStep DEF storeVars, bootVars
<1>2. CASE Enforce
  <2>1. Ready /\ SwitchAccount(First(accounts, None)) /\ UNCHANGED <<bootVars, tier, route, exitVars>>
    BY <1>2 DEF Enforce, Shell
  <2>2. StoreOK' /\ accounts' = accounts /\ stored'.accounts = stored.accounts
    BY <2>1, SwitchAccountStep DEF IInv
  <2>3. RestOK'
    BY <2>1 DEF IInv, RestOK, bootVars, exitVars
  <2> QED BY <2>1, <2>2, <2>3, QuietStep DEF bootVars
<1>3. ASSUME NEW c \in Caps, TierChecked(c) PROVE IInv'
  <2>1. Ready /\ tier' = [cap |-> c, known |-> TRUE, cached |-> c]
        /\ UNCHANGED <<storeVars, bootVars, route, exitVars>>
    BY <1>3 DEF TierChecked, Shell
  <2>2. StoreOK' /\ RestOK'
    BY <2>1 DEF IInv, StoreOK, ActiveListed, RestOK, storeVars, bootVars, exitVars
  <2> QED BY <2>1, <2>2, QuietStep DEF storeVars, bootVars
<1> QED BY <1>1, <1>2, <1>3

LEMMA WipeStep == IInv /\ Wipe => IInv'
<1> SUFFICES ASSUME IInv, Wipe PROVE IInv'
  OBVIOUS
<1>1. /\ wiping' = FALSE /\ route' = "signIn"
      /\ outcome' = [k \in Account |-> IF k \in Agent /\ outcome[k] = "pending" THEN "failed" ELSE outcome[k]]
      /\ UNCHANGED <<storeVars, boot, tier, checking, leaving>>
  BY DEF Wipe
<1>2. outcome \in [Account -> {"none", "pending", "resumed", "failed", "gone"}]
  BY DEF IInv, RestOK
<1>3. \A j \in Account : /\ outcome[j] = "failed" => outcome'[j] = "failed"
                         /\ outcome[j] # "none" => outcome'[j] # "none"
  BY <1>1, <1>2
<1>4. boot.waiting.keys \subseteq Account /\ stored.accounts.keys \subseteq Account
  BY DEF IInv, BootOK, Boot, StoreOK, Listing
<1>5. StoreOK' /\ BootOK' /\ RestOK'
  BY <1>1, <1>2 DEF IInv, StoreOK, ActiveListed, BootOK, RestOK, storeVars
<1>6. Startup' /\ StoredListed'
  BY <1>1, <1>3, <1>4 DEF IInv, Startup, StoredListed, Ready, storeVars
<1> QED BY <1>5, <1>6 DEF IInv

-----------------------------------------------------------------------------
LEMMA IInvInit == Init => IInv
<1> SUFFICES ASSUME Init PROVE IInv
  OBVIOUS
<1>1. Empty \in Listing(Account) /\ WellOrdered(Empty) /\ Empty.keys = {}
  BY EmptyListing
<1> QED BY <1>1, AccountsAssumption
        DEF Init, IInv, StoreOK, ActiveListed, BootOK, Boot, Unbooted, RestOK, Nothing,
            Startup, StoredListed, Ready

LEMMA IInvNext == IInv /\ [Next]_vars => IInv'
<1> SUFFICES ASSUME IInv, [Next]_vars PROVE IInv'
  OBVIOUS
<1>1. CASE Restart
  BY <1>1, RestartStep
<1>2. CASE Bootstrap
  BY <1>2, BootStartStep, RaceEndsStep, GraceEndsStep, LateEndsStep DEF Bootstrap
<1>3. ASSUME NEW k \in Account, NEW result \in {"resumed", "failed", "gone"}, ResumeAnswers(k, result)
      PROVE  IInv'
  BY <1>3, ResumeAnswersStep
<1>4. ASSUME NEW k \in Account, NEW open \in BOOLEAN, SignsIn(k, open) PROVE IInv'
  BY <1>4, SignsInStep
<1>5. ASSUME NEW k \in Account, Switcher(k) PROVE IInv'
  BY <1>5, SwitcherStep
<1>6. CASE LeaveDashboard \/ Enforce \/ \E c \in Caps : TierChecked(c)
  BY <1>6, PageStep
<1>7. CASE Wipe
  BY <1>7, WipeStep
<1>8. CASE UNCHANGED vars
  BY <1>8 DEF IInv, StoreOK, ActiveListed, BootOK, RestOK, Startup, StoredListed, Ready,
              Waiting, vars, storeVars, bootVars, exitVars
<1> QED BY <1>1, <1>2, <1>3, <1>4, <1>5, <1>6, <1>7, <1>8 DEF Next

(* The variables have their types in every reachable state. *)
THEOREM AccountsTypeOK == Spec => []TypeOK
<1>1. Spec => []IInv
  BY IInvInit, IInvNext, PTL DEF Spec
<1> QED BY <1>1, IInvTypeOK, PTL

(* After the splash no persisted account is lost from sight, and there is  *)
(* an active account exactly when any is listed.                           *)
THEOREM AllAreListed == Spec => []AccountsListed
<1>1. IInv => AccountsListed
  BY DEF IInv, StoreOK, AccountsListed
<1> QED BY <1>1, IInvInit, IInvNext, PTL DEF Spec

(* How a step can change what is persisted and what is listed. *)
LEMMA PersistedSteps ==
  ASSUME IInv, [Next]_vars
  PROVE  ForgottenRightly /\ ListedRightly
<1> USE DEF Unpersisted, ForgottenRightly, ListedRightly
<1>0. ASSUME accounts' = accounts, stored'.accounts = stored.accounts
      PROVE  ForgottenRightly /\ ListedRightly
  BY <1>0
<1>1. CASE Restart
  BY <1>1, EmptyListing DEF Restart
<1>2. CASE BootStart
  BY <1>2, <1>0 DEF BootStart, storeVars
<1>3. CASE RaceEnds \/ GraceEnds \/ LateEnds
  <2>1. Forget(Waiting("gone"))
    BY <1>3 DEF RaceEnds, GraceEnds, LateEnds
  <2>2. stored'.accounts.keys = stored.accounts.keys \ Waiting("gone")
    BY <2>1, ForgetStep DEF IInv
  <2>3. accounts'.keys \subseteq accounts.keys \cup Waiting("resumed")
                            \cup (IF boot.pc = "racing" THEN boot.resumed.keys ELSE {})
    <3> DEFINE some == Select(boot.waiting, Waiting("resumed"))
    <3>1. some \in Listing(Account) /\ some.keys = Waiting("resumed") /\ WellOrdered(some)
      BY WaitingListing DEF IInv
    <3>2. /\ Merge(boot.resumed, some) \in Listing(Account) /\ WellOrdered(Merge(boot.resumed, some))
          /\ Merge(boot.resumed, some).keys = boot.resumed.keys \cup Waiting("resumed")
      BY <3>1, MergeListing DEF IInv, BootOK, Boot
    <3>3. \/ accounts' = accounts
          \/ boot.pc = "racing" /\ Hydrate(Merge(boot.resumed, some))
          \/ Hydrate(some)
      BY <1>3 DEF RaceEnds, GraceEnds, LateEnds, Settle
    <3> HIDE DEF some
    <3> QED BY <3>1, <3>2, <3>3, HydrateStep DEF IInv
  <2>4. CASE ~Ready
    <3>1. /\ accounts.keys = {} /\ boot.waiting.keys \subseteq stored.accounts.keys
          /\ boot.pc = "racing" => boot.resumed.keys \subseteq stored.accounts.keys \ boot.waiting.keys
      BY <1>3, <2>4 DEF IInv, Startup, RaceEnds, GraceEnds, LateEnds
    <3> QED BY <2>2, <2>3, <2>4, <3>1 DEF Waiting
  <2>5. CASE Ready
    <3>1. accounts'.keys \subseteq accounts.keys \cup Waiting("resumed")
      BY <2>3, <2>5 DEF Ready
    <3> QED BY <2>2, <2>5, <3>1 DEF Waiting, LateFailure, LateReturn
  <2> QED BY <2>4, <2>5
<1>4. ASSUME NEW k \in Account, NEW result \in {"resumed", "failed", "gone"}, ResumeAnswers(k, result)
      PROVE  accounts' = accounts /\ stored'.accounts = stored.accounts
  BY <1>4 DEF ResumeAnswers, storeVars
<1>5. ASSUME NEW k \in Account, NEW open \in BOOLEAN, SignsIn(k, open)
      PROVE  /\ accounts'.keys = accounts.keys \cup {k}
             /\ stored'.accounts.keys = stored.accounts.keys \cup {k}
  BY <1>5, SetAccountStep DEF IInv, SignsIn
<1>6. ASSUME NEW k \in Account, RequestSwitch(k) \/ RequestSignOut(k)
                                \/ \E running \in BOOLEAN : SwitchChecked(k, running)
      PROVE  accounts' = accounts /\ stored'.accounts = stored.accounts
  <2>1. UNCHANGED storeVars \/ SwitchAccount(k)
    BY <1>6 DEF RequestSwitch, RequestSignOut, SwitchChecked
  <2> QED BY <2>1, SwitchAccountStep DEF IInv, storeVars
<1>7. ASSUME NEW k \in Account, SignOutEnds(k)
      PROVE  /\ k \in leaving \ leaving'
             /\ accounts'.keys = accounts.keys \ {k}
             /\ stored'.accounts.keys = stored.accounts.keys \ {k}
  BY <1>7, ClearAccountStep DEF IInv, SignOutEnds
<1>8. CASE LeaveDashboard \/ Wipe \/ \E c \in Caps : TierChecked(c)
  BY <1>8, <1>0 DEF LeaveDashboard, Wipe, TierChecked, storeVars
<1>9. CASE Enforce
  BY <1>9, <1>0, SwitchAccountStep DEF Enforce, IInv
<1>10. CASE UNCHANGED vars
  BY <1>10, <1>0 DEF vars, storeVars
<1> QED BY <1>0, <1>1, <1>2, <1>3, <1>4, <1>5, <1>6, <1>7, <1>8, <1>9, <1>10
        DEF Next, Bootstrap, Switcher

(* An account leaves what is persisted only with its sign-out or with a    *)
(* resume that has nothing to resume with, and what is listed is           *)
(* persisted; the only ways around it are the two LateEnds has, where the  *)
(* answer of a resume the splash did not wait for overrules a sign-in or a *)
(* sign-out of the meantime (useSessionBootstrap.ts:239).                  *)
THEOREM AccountsStay == Spec => AccountsKept
<1>1. Spec => []IInv
  BY IInvInit, IInvNext, PTL DEF Spec
<1>2. IInv /\ [Next]_vars => [ForgottenRightly /\ ListedRightly]_vars
  BY PersistedSteps
<1> QED BY <1>1, <1>2, PTL DEF Spec, AccountsKept
=============================================================================
