-------------------------- MODULE IdleClaimsProofs --------------------------
(***************************************************************************)
(* What holds of the idle-claims registry for every set of accounts,       *)
(* owners, games and calling tasks, and every cap.                         *)
(***************************************************************************)
EXTENDS IdleClaims, FiniteSetTheorems, TLAPS

(* What union_targets returns is drawn from the games it was given and     *)
(* respects the cap.                                                       *)
LEMMA AnnounceableBounds ==
  ASSUME NEW games \in SUBSET App, NEW targets \in Announceable(games)
  PROVE  targets \in SUBSET App /\ Cardinality(targets) <= Cap
<1>1. IsFiniteSet(games)
  BY ClaimSetsAssumption, FS_Subset
<1>2. Cardinality(games) \in Nat
  BY <1>1, FS_CardinalityType
<1>3. /\ targets \in SUBSET games
      /\ Cardinality(targets) =
           IF Cardinality(games) <= Cap THEN Cardinality(games) ELSE Cap
  BY DEF Announceable, kSubset
<1> QED
  BY <1>2, <1>3, ClaimSetsAssumption

LEMMA UnionType ==
  ASSUME NEW oc \in OwnerClaims
  PROVE  Union(oc) \in SUBSET App
BY DEF Union, OwnerClaims

LEMMA NobodyType == Nobody \in OwnerClaims
BY DEF Nobody, OwnerClaims

(* Every mutator of the registry is Claim with well-typed new claims.      *)
LEMMA StartCallClaims ==
  ASSUME TypeOK, NEW t \in Call, StartCall(t)
  PROVE  \E a \in Account, oc \in OwnerClaims : Claim(t, a, oc)
<1>1. PICK a \in Account :
        \/ \E o \in Owner, games \in SUBSET App : ReplaceOwnerClaim(t, a, o, games)
        \/ \E g \in App : ReleaseAppId(t, a, g)
        \/ \E o \in Owner, g \in App : ReleaseAppIdFromOwner(t, a, o, g)
        \/ \E o \in Owner : ClearOwner(t, a, o)
        \/ ClearAll(t, a)
  BY DEF StartCall
<1>2. claims[a] \in OwnerClaims
  BY DEF TypeOK
<1>3. ASSUME NEW o \in Owner, NEW games \in SUBSET App, ReplaceOwnerClaim(t, a, o, games)
      PROVE  \E oc \in OwnerClaims : Claim(t, a, oc)
  <2>1. WithOwner(claims[a], o, games) \in OwnerClaims
    BY <1>2 DEF WithOwner, OwnerClaims
  <2> QED
    BY <1>3, <2>1 DEF ReplaceOwnerClaim
<1>4. ASSUME NEW g \in App, ReleaseAppId(t, a, g)
      PROVE  \E oc \in OwnerClaims : Claim(t, a, oc)
  <2>1. WithoutApp(claims[a], g) \in OwnerClaims
    BY <1>2 DEF WithoutApp, OwnerClaims
  <2> QED
    BY <1>4, <2>1 DEF ReleaseAppId
<1>5. ASSUME NEW o \in Owner, NEW g \in App, ReleaseAppIdFromOwner(t, a, o, g)
      PROVE  \E oc \in OwnerClaims : Claim(t, a, oc)
  <2>1. WithoutAppOf(claims[a], o, g) \in OwnerClaims
    BY <1>2 DEF WithoutAppOf, OwnerClaims
  <2> QED
    BY <1>5, <2>1 DEF ReleaseAppIdFromOwner
<1>6. ASSUME NEW o \in Owner, ClearOwner(t, a, o)
      PROVE  \E oc \in OwnerClaims : Claim(t, a, oc)
  <2>1. WithoutOwner(claims[a], o) \in OwnerClaims
    BY <1>2 DEF WithoutOwner, OwnerClaims
  <2> QED
    BY <1>6, <2>1 DEF ClearOwner
<1>7. ASSUME ClearAll(t, a)
      PROVE  \E oc \in OwnerClaims : Claim(t, a, oc)
  BY <1>7, NobodyType DEF ClearAll
<1> QED
  BY <1>1, <1>3, <1>4, <1>5, <1>6, <1>7

(* Claim leaves task t waiting on the union of the new claims of a.        *)
LEMMA ClaimEffect ==
  ASSUME TypeOK, NEW t \in Call, NEW a \in Account, NEW oc \in OwnerClaims,
         Claim(t, a, oc)
  PROVE  \E targets \in SUBSET App :
           /\ targets \in Announceable(Union(oc))
           /\ call' = [call EXCEPT ![t] = [account |-> a, targets |-> targets]]
           /\ call'[t] = [account |-> a, targets |-> targets]
           /\ call'[t] # Free
           /\ claims'[a] = oc
<1>1. PICK targets \in Announceable(Union(oc)) :
        call' = [call EXCEPT ![t] = [account |-> a, targets |-> targets]]
  BY DEF Claim
<1>2. targets \in SUBSET App
  BY UnionType, AnnounceableBounds
<1>3. [account |-> a, targets |-> targets] # Free
  BY <1>2, ClaimsAssumption DEF PendingCall
<1> QED
  BY <1>1, <1>2, <1>3 DEF Claim, TypeOK

-----------------------------------------------------------------------------
(* Type correctness of the registry, its callers and its backends.         *)
LEMMA TypeStep == TypeOK /\ [Next]_vars => TypeOK'
<1> SUFFICES ASSUME TypeOK, [Next]_vars PROVE TypeOK'
  OBVIOUS
<1>1. ASSUME NEW t \in Call, StartCall(t) PROVE TypeOK'
  <2>1. PICK a \in Account, oc \in OwnerClaims : Claim(t, a, oc)
    BY <1>1, StartCallClaims
  <2>2. PICK targets \in SUBSET App :
          call' = [call EXCEPT ![t] = [account |-> a, targets |-> targets]]
    BY <2>1, ClaimEffect
  <2> QED
    BY <2>1, <2>2 DEF TypeOK, Claim, PendingCall
<1>2. ASSUME NEW t \in Call, Announce(t) PROVE TypeOK'
  BY <1>2 DEF TypeOK, Announce, PendingCall, Blame
<1>3. ASSUME NEW t \in Call, AnnounceFails(t) PROVE TypeOK'
  BY <1>3 DEF TypeOK, AnnounceFails, PendingCall, Blame
<1>4. ASSUME NEW t \in Call, AnnouncePartly(t) PROVE TypeOK'
  BY <1>4 DEF TypeOK, AnnouncePartly, PendingCall, Blame
<1>5. ASSUME NEW a \in Account, LoseGames(a) PROVE TypeOK'
  BY <1>5 DEF TypeOK, LoseGames, Blame
<1>6. CASE KillAll
  BY <1>6 DEF TypeOK, KillAll, Blame
<1>7. CASE Clear
  BY <1>7, NobodyType DEF TypeOK, Clear, Blame
<1>8. CASE UNCHANGED vars
  BY <1>8 DEF TypeOK, vars
<1> QED
  BY <1>1, <1>2, <1>3, <1>4, <1>5, <1>6, <1>7, <1>8 DEF Next, EndCall

LEMMA TypeInit == Init => TypeOK
BY NobodyType DEF Init, TypeOK, Blame

(* Every claim, waiting announcement and idled set stays well formed.      *)
THEOREM TypeCorrect == Spec => []TypeOK
BY TypeInit, TypeStep, PTL DEF Spec

-----------------------------------------------------------------------------
(* The cap is inductive only together with the sets still to be announced: *)
(* the backend takes them as they are.                                     *)
CapInv ==
  /\ WithinCap
  /\ \A t \in Call : call[t] # Free => Cardinality(call[t].targets) <= Cap

(* Dropping games from a finite set never makes it exceed the cap. *)
LEMMA SubsetWithinCap ==
  ASSUME NEW games \in SUBSET App, NEW fewer \in SUBSET games,
         Cardinality(games) <= Cap
  PROVE  Cardinality(fewer) <= Cap
<1>1. IsFiniteSet(games)
  BY ClaimSetsAssumption, FS_Subset
<1>2. /\ Cardinality(games) \in Nat
      /\ Cardinality(fewer) \in Nat
      /\ Cardinality(fewer) <= Cardinality(games)
  BY <1>1, FS_Subset, FS_CardinalityType
<1> QED
  BY <1>2, ClaimSetsAssumption

LEMMA CapInit == Init => CapInv
BY FS_EmptySet, ClaimSetsAssumption DEF Init, CapInv, WithinCap

LEMMA CapStep == TypeOK /\ CapInv /\ [Next]_vars => CapInv'
<1> SUFFICES ASSUME TypeOK, CapInv, [Next]_vars PROVE CapInv'
  OBVIOUS
<1>1. ASSUME NEW t \in Call, StartCall(t) PROVE CapInv'
  <2>1. PICK a \in Account, oc \in OwnerClaims : Claim(t, a, oc)
    BY <1>1, StartCallClaims
  <2>2. PICK targets \in SUBSET App :
          /\ targets \in Announceable(Union(oc))
          /\ call' = [call EXCEPT ![t] = [account |-> a, targets |-> targets]]
          /\ call'[t] = [account |-> a, targets |-> targets]
          /\ call'[t] # Free
          /\ claims'[a] = oc
    BY <2>1, ClaimEffect
  <2>3. Cardinality(targets) <= Cap
    BY <2>2, UnionType, AnnounceableBounds
  <2>4. UNCHANGED playing
    BY <2>1 DEF Claim
  <2> QED
    BY <2>2, <2>3, <2>4 DEF CapInv, WithinCap, TypeOK
<1>2. ASSUME NEW t \in Call, Announce(t) PROVE CapInv'
  BY <1>2 DEF CapInv, WithinCap, TypeOK, Announce, PendingCall
<1>3. ASSUME NEW t \in Call, AnnounceFails(t) PROVE CapInv'
  BY <1>3 DEF CapInv, WithinCap, TypeOK, AnnounceFails
<1>4. ASSUME NEW t \in Call, AnnouncePartly(t) PROVE CapInv'
  <2>1. PICK failed \in SUBSET (call[t].targets \ playing[call[t].account]) :
          playing' = [playing EXCEPT ![call[t].account] = call[t].targets \ failed]
    BY <1>4 DEF AnnouncePartly
  <2>2. /\ call[t].targets \in SUBSET App
        /\ Cardinality(call[t].targets) <= Cap
    BY <1>4 DEF AnnouncePartly, TypeOK, PendingCall, CapInv
  <2>3. Cardinality(call[t].targets \ failed) <= Cap
    BY <2>2, SubsetWithinCap
  <2>4. call' = [call EXCEPT ![t] = Free]
    BY <1>4 DEF AnnouncePartly
  <2> QED
    BY <2>1, <2>3, <2>4 DEF CapInv, WithinCap, TypeOK
<1>5. ASSUME NEW a \in Account, LoseGames(a) PROVE CapInv'
  <2>1. PICK lost \in SUBSET playing[a] :
          playing' = [playing EXCEPT ![a] = @ \ lost]
    BY <1>5 DEF LoseGames
  <2>2. Cardinality(playing[a] \ lost) <= Cap
    BY SubsetWithinCap DEF CapInv, WithinCap, TypeOK
  <2>3. UNCHANGED call
    BY <1>5 DEF LoseGames
  <2> QED
    BY <2>1, <2>2, <2>3 DEF CapInv, WithinCap, TypeOK
<1>6. CASE KillAll
  BY <1>6, FS_EmptySet, ClaimSetsAssumption DEF CapInv, WithinCap, KillAll
<1>7. CASE Clear
  BY <1>7 DEF CapInv, WithinCap, Clear
<1>8. CASE UNCHANGED vars
  BY <1>8 DEF CapInv, WithinCap, vars
<1> QED
  BY <1>1, <1>2, <1>3, <1>4, <1>5, <1>6, <1>7, <1>8 DEF Next, EndCall

(* No backend ever idles more than the cap, whoever claims what.           *)
THEOREM CapRespected == Spec => []WithinCap
<1>1. CapInv => WithinCap
  BY DEF CapInv
<1> QED
  BY <1>1, CapInit, CapStep, TypeInit, TypeStep, PTL DEF Spec

-----------------------------------------------------------------------------
LEMMA DriftInit == Init => DriftExplained
<1> SUFFICES ASSUME Init, NEW a \in Account PROVE Agrees(a)
  BY DEF DriftExplained
<1>1. playing[a] = {} /\ Union(claims[a]) = {}
  BY DEF Init, Union, Nobody
<1>2. {} \in Announceable({})
  BY FS_EmptySet, ClaimSetsAssumption DEF Announceable, kSubset
<1> QED
  BY <1>1, <1>2 DEF Agrees

LEMMA DriftStep == TypeOK /\ DriftExplained /\ [Next]_vars => DriftExplained'
<1> SUFFICES ASSUME TypeOK, DriftExplained, [Next]_vars,
                    NEW a \in Account, blame'[a] = "none"
             PROVE  Agrees(a)' \/ \E u \in Call : InCall(u, a)' /\ Fresh(u)'
  BY DEF DriftExplained
<1>1. ASSUME NEW t \in Call, StartCall(t)
      PROVE  Agrees(a)' \/ \E u \in Call : InCall(u, a)' /\ Fresh(u)'
  <2>1. PICK b \in Account, oc \in OwnerClaims : Claim(t, b, oc)
    BY <1>1, StartCallClaims
  <2>2. CASE a = b
    <3>0. PICK targets \in SUBSET App :
            /\ targets \in Announceable(Union(oc))
            /\ call' = [call EXCEPT ![t] = [account |-> b, targets |-> targets]]
            /\ call'[t] = [account |-> b, targets |-> targets]
            /\ call'[t] # Free
            /\ claims'[b] = oc
      BY <2>1, ClaimEffect
    <3>1. InCall(t, a)' /\ Fresh(t)'
      BY <3>0, <2>2 DEF InCall, Fresh
    <3> QED
      BY <3>1
  <2>3. CASE a # b
    <3>1. /\ claims'[a] = claims[a] /\ playing'[a] = playing[a] /\ blame[a] = "none"
          /\ call[t] = Free
          /\ \A u \in Call \ {t} : call'[u] = call[u]
      BY <2>1, <2>3 DEF Claim, TypeOK
    <3>2. CASE Agrees(a)
      BY <3>1, <3>2 DEF Agrees
    <3>3. ASSUME NEW u \in Call, InCall(u, a), Fresh(u)
          PROVE  InCall(u, a)' /\ Fresh(u)'
      BY <3>1, <3>3 DEF InCall, Fresh
    <3> QED
      BY <3>1, <3>2, <3>3 DEF DriftExplained
  <2> QED
    BY <2>2, <2>3
<1>2. ASSUME NEW t \in Call, EndCall(t)
      PROVE  Agrees(a)' \/ \E u \in Call : InCall(u, a)' /\ Fresh(u)'
  <2>1. /\ call[t] # Free /\ call[t].account \in Account
        /\ call' = [call EXCEPT ![t] = Free] /\ UNCHANGED claims
    BY <1>2 DEF EndCall, Announce, AnnounceFails, AnnouncePartly, TypeOK, PendingCall
  <2>2. CASE call[t].account = a
    <3>1. CASE Announce(t)
      <4>1. Fresh(t) /\ playing'[a] = call[t].targets
        BY <3>1, <2>2 DEF Announce, TypeOK
      <4> QED
        BY <4>1, <2>1, <2>2 DEF Fresh, Agrees
    <3>2. CASE AnnounceFails(t) \/ AnnouncePartly(t)
      BY <3>2, <2>2 DEF AnnounceFails, AnnouncePartly, TypeOK
    <3> QED
      BY <1>2, <3>1, <3>2 DEF EndCall
  <2>3. CASE call[t].account # a
    <3>1. blame[a] = "none" /\ playing'[a] = playing[a]
      BY <1>2, <2>3, <2>1
      DEF EndCall, Announce, AnnounceFails, AnnouncePartly, TypeOK
    <3>2. CASE Agrees(a)
      BY <3>1, <3>2, <2>1 DEF Agrees
    <3>3. ASSUME NEW u \in Call, InCall(u, a), Fresh(u)
          PROVE  InCall(u, a)' /\ Fresh(u)'
      BY <3>3, <2>1, <2>3 DEF InCall, Fresh, TypeOK
    <3> QED
      BY <3>1, <3>2, <3>3 DEF DriftExplained
  <2> QED
    BY <2>2, <2>3
<1>3. ASSUME NEW b \in Account, LoseGames(b)
      PROVE  Agrees(a)' \/ \E u \in Call : InCall(u, a)' /\ Fresh(u)'
  <2>1. a # b /\ blame[a] = "none" /\ playing'[a] = playing[a]
    BY <1>3 DEF LoseGames, TypeOK
  <2>2. UNCHANGED <<claims, call>>
    BY <1>3 DEF LoseGames
  <2> QED
    BY <2>1, <2>2 DEF DriftExplained, Agrees, InCall, Fresh
<1>4. CASE KillAll \/ Clear
  BY <1>4 DEF KillAll, Clear
<1>5. CASE UNCHANGED vars
  BY <1>5 DEF vars, DriftExplained, Agrees, InCall, Fresh
<1> QED
  BY <1>1, <1>2, <1>3, <1>4, <1>5 DEF Next

(* The claims and the backend only ever drift apart for a named reason.    *)
THEOREM DriftAlwaysExplained == Spec => []DriftExplained
BY DriftInit, DriftStep, TypeInit, TypeStep, PTL DEF Spec

-----------------------------------------------------------------------------
LEMMA BoardInit == Init => Board!Init
BY DEF Init, Board!Init, wanted, offers, InCall, Union, Nobody

LEMMA OffersType == TypeOK => offers \in [Account -> SUBSET SUBSET App]
BY DEF TypeOK, offers, InCall, PendingCall

(* The call of t on a adds its union to the offers of a, and only there.   *)
LEMMA CallOffers ==
  ASSUME TypeOK, NEW t \in Call, NEW a \in Account, NEW targets \in SUBSET App,
         call[t] = Free,
         call' = [call EXCEPT ![t] = [account |-> a, targets |-> targets]],
         [account |-> a, targets |-> targets] # Free
  PROVE  offers' = [offers EXCEPT ![a] = @ \cup {targets}]
<1>1. ASSUME NEW b \in Account
      PROVE  offers'[b] = [offers EXCEPT ![a] = @ \cup {targets}][b]
  <2>1. offers'[b] = {call'[u].targets : u \in {v \in Call : InCall(v, b)'}}
    BY DEF offers
  <2>2. offers[b] = {call[u].targets : u \in {v \in Call : InCall(v, b)}}
    BY DEF offers
  <2>3. \A u \in Call \ {t} : call'[u] = call[u]
    BY DEF TypeOK
  <2>4. call'[t] = [account |-> a, targets |-> targets]
    BY DEF TypeOK
  <2>5. InCall(t, b)' <=> a = b
    BY <2>4 DEF InCall
  <2>6. ~InCall(t, b)
    BY DEF InCall
  <2>7. \A u \in Call \ {t} : InCall(u, b)' <=> InCall(u, b)
    BY <2>3 DEF InCall
  <2>8. offers'[b] = offers[b] \cup (IF a = b THEN {targets} ELSE {})
    <3>1. {v \in Call : InCall(v, b)'} =
            {v \in Call : InCall(v, b)} \cup (IF a = b THEN {t} ELSE {})
      BY <2>5, <2>6, <2>7
    <3>2. \A u \in {v \in Call : InCall(v, b)} : call'[u] = call[u]
      BY <2>3, <2>6
    <3>3. call'[t].targets = targets
      BY <2>4
    <3> QED
      BY <2>1, <2>2, <3>1, <3>2, <3>3
  <2> QED
    BY <2>8 DEF offers
<1> QED
  BY <1>1 DEF offers

(* A call of a that ends takes its union from the offers of a, unless      *)
(* another call carries the same one.                                      *)
LEMMA EndOffers ==
  ASSUME TypeOK, NEW t \in Call, call[t] # Free, call' = [call EXCEPT ![t] = Free]
  PROVE  /\ call[t].account \in Account
         /\ call[t].targets \in SUBSET App
         /\ call[t].targets \in offers[call[t].account]
         /\ Board!Answered(call[t].account, call[t].targets)
<1> DEFINE a == call[t].account
           targets == call[t].targets
<1>1. a \in Account /\ targets \in SUBSET App
  BY DEF TypeOK, PendingCall
<1>2. InCall(t, a)
  BY DEF InCall
<1>3. targets \in offers[a]
  BY <1>1, <1>2 DEF offers
<1>4. /\ \A u \in Call \ {t} : call'[u] = call[u]
      /\ call'[t] = Free
  BY DEF TypeOK
<1>5. \A b \in Account : \A u \in Call :
        InCall(u, b)' <=> InCall(u, b) /\ u # t
  BY <1>4 DEF InCall
<1>6. \A b \in Account :
        offers'[b] = {call[u].targets : u \in {v \in Call : InCall(v, b) /\ v # t}}
  <2>1. ASSUME NEW b \in Account
        PROVE  offers'[b] = {call[u].targets : u \in {v \in Call : InCall(v, b) /\ v # t}}
    <3>1. offers'[b] = {call'[u].targets : u \in {v \in Call : InCall(v, b)'}}
      BY DEF offers
    <3>2. {v \in Call : InCall(v, b)'} = {v \in Call : InCall(v, b) /\ v # t}
      BY <1>5
    <3> QED
      BY <3>1, <3>2, <1>4
  <2> QED
    BY <2>1
<1>7. \A b \in Account :
        offers[b] = {call[u].targets : u \in {v \in Call : InCall(v, b)}}
  BY DEF offers
<1>8. ASSUME NEW b \in Account, b # a PROVE offers'[b] = offers[b]
  <2>1. ~InCall(t, b)
    BY <1>8 DEF InCall
  <2>2. {v \in Call : InCall(v, b) /\ v # t} = {v \in Call : InCall(v, b)}
    BY <2>1
  <2>3. offers'[b] = {call[u].targets : u \in {v \in Call : InCall(v, b) /\ v # t}}
    BY <1>6
  <2>4. offers[b] = {call[u].targets : u \in {v \in Call : InCall(v, b)}}
    BY <1>7
  <2> QED
    BY <2>2, <2>3, <2>4
<1>9. offers'[a] = offers[a] \/ offers'[a] = offers[a] \ {targets}
  <2>1. CASE \E u \in Call : InCall(u, a) /\ u # t /\ call[u].targets = targets
    <3>1. offers'[a] = {call[u].targets : u \in {v \in Call : InCall(v, a) /\ v # t}}
      BY <1>1, <1>6
    <3>2. offers[a] = {call[u].targets : u \in {v \in Call : InCall(v, a)}}
      BY <1>1, <1>7
    <3>3. PICK w \in Call : InCall(w, a) /\ w # t /\ call[w].targets = targets
      BY <2>1
    <3>4. \A u \in {v \in Call : InCall(v, a)} :
            \E v \in {v \in Call : InCall(v, a) /\ v # t} : call[u].targets = call[v].targets
      BY <3>3
    <3>5. offers'[a] \subseteq offers[a]
      BY <3>1, <3>2
    <3>6. offers[a] \subseteq offers'[a]
      BY <3>1, <3>2, <3>4
    <3> QED
      BY <3>5, <3>6
  <2>2. CASE \A u \in Call : InCall(u, a) /\ u # t => call[u].targets # targets
    <3>1. offers'[a] = offers[a] \ {targets}
      BY <2>2, <1>1, <1>2, <1>6, <1>7
    <3> QED
      BY <3>1
  <2> QED
    BY <2>1, <2>2
<1>10. /\ offers \in [Account -> SUBSET SUBSET App]
       /\ DOMAIN offers' = Account
       /\ offers' = [b \in Account |-> offers'[b]]
  BY OffersType DEF offers
<1>11. offers' \in {offers, [offers EXCEPT ![a] = @ \ {targets}]}
  BY <1>8, <1>9, <1>10
<1> QED
  BY <1>1, <1>3, <1>11 DEF Board!Answered

LEMMA BoardStep ==
  TypeOK /\ TypeOK' /\ [Next]_vars => [Board!Next]_<<wanted, offers, playing>>
<1> SUFFICES ASSUME TypeOK, TypeOK', [Next]_vars
             PROVE  [Board!Next]_<<wanted, offers, playing>>
  OBVIOUS
<1>1. ASSUME NEW t \in Call, StartCall(t) PROVE \E a \in Account : Board!Ask(a)
  <2>1. PICK a \in Account, oc \in OwnerClaims : Claim(t, a, oc)
    BY <1>1, StartCallClaims
  <2>2. PICK targets \in SUBSET App :
          /\ targets \in Announceable(Union(oc))
          /\ call' = [call EXCEPT ![t] = [account |-> a, targets |-> targets]]
          /\ call'[t] = [account |-> a, targets |-> targets]
          /\ call'[t] # Free
          /\ claims'[a] = oc
    BY <2>1, ClaimEffect
  <2>3. offers' = [offers EXCEPT ![a] = @ \cup {targets}]
    <3>1. call[t] = Free
      BY <2>1 DEF Claim
    <3>2. [account |-> a, targets |-> targets] # Free
      BY <2>2
    <3> QED
      BY <2>2, <3>1, <3>2, CallOffers
  <2>4. wanted' = [wanted EXCEPT ![a] = Union(oc)]
    BY <2>1 DEF Claim, wanted, TypeOK
  <2>5. Union(oc) \in SUBSET App /\ UNCHANGED playing
    BY <2>1, UnionType DEF Claim
  <2> QED
    BY <2>2, <2>3, <2>4, <2>5 DEF Board!Ask
<1>2. ASSUME NEW t \in Call, Announce(t) \/ AnnouncePartly(t)
      PROVE  \E a \in Account : Board!Play(a)
  <2> DEFINE a == call[t].account
             games == call[t].targets
  <2>1. call[t] # Free /\ call' = [call EXCEPT ![t] = Free] /\ UNCHANGED claims
    BY <1>2 DEF Announce, AnnouncePartly
  <2>2. /\ a \in Account /\ games \in offers[a]
        /\ Board!Answered(a, games)
    BY <2>1, EndOffers
  <2>3. UNCHANGED wanted
    BY <2>1 DEF wanted
  <2>4. PICK started \in SUBSET games :
          /\ games \cap playing[a] \subseteq started
          /\ a \notin LocalAccount => started = games
          /\ playing' = [playing EXCEPT ![a] = started]
    <3>1. CASE Announce(t)
      BY <3>1 DEF Announce
    <3>2. CASE AnnouncePartly(t)
      <4>1. PICK failed \in SUBSET (games \ playing[a]) :
              playing' = [playing EXCEPT ![a] = games \ failed]
        BY <3>2 DEF AnnouncePartly
      <4>2. a \in LocalAccount
        BY <3>2 DEF AnnouncePartly
      <4>3. games \ failed \in SUBSET games
            /\ games \cap playing[a] \subseteq games \ failed
        OBVIOUS
      <4> QED
        BY <4>1, <4>2, <4>3
    <3> QED
      BY <1>2, <3>1, <3>2
  <2> QED
    BY <2>2, <2>3, <2>4 DEF Board!Play
<1>3. ASSUME NEW t \in Call, AnnounceFails(t) PROVE \E a \in Account : Board!Refuse(a)
  <2>1. /\ call[t] # Free /\ call' = [call EXCEPT ![t] = Free]
        /\ UNCHANGED <<claims, playing>>
    BY <1>3 DEF AnnounceFails
  <2>2. UNCHANGED wanted
    BY <2>1 DEF wanted
  <2> QED
    BY <2>1, <2>2, EndOffers DEF Board!Refuse
<1>4. CASE (\E a \in Account : LoseGames(a)) \/ KillAll
  <2>1. /\ UNCHANGED <<claims, call>>
        /\ playing' \in [Account -> SUBSET App]
        /\ \A a \in Account : playing'[a] \subseteq playing[a]
    BY <1>4 DEF LoseGames, KillAll, TypeOK
  <2>2. UNCHANGED <<wanted, offers>>
    BY <2>1 DEF wanted, offers, InCall
  <2> QED
    BY <2>1, <2>2 DEF Board!Lose, Board!Next
<1>5. CASE Clear
  <2>1. wanted' = [a \in Account |-> {}]
    BY <1>5 DEF Clear, wanted, Union, Nobody
  <2>2. UNCHANGED <<offers, playing>>
    BY <1>5 DEF Clear, offers, InCall
  <2> QED
    BY <2>1, <2>2 DEF Board!Forget, Board!Next
<1>6. CASE UNCHANGED vars
  BY <1>6 DEF vars, wanted, offers, InCall
<1> QED
  BY <1>1, <1>2, <1>3, <1>4, <1>5, <1>6 DEF Next, EndCall, Board!Next

(* Whatever a backend is told to idle is the union of every owner's        *)
(* claims, as a call still in flight computed it: the registry as it is    *)
(* coded, with its lock dropped early, implements the board.               *)
THEOREM RegistryImplementsBoard == Spec => ImplementsBoard
<1>1. Spec => [][Board!Next]_<<wanted, offers, playing>>
  BY BoardStep, TypeInit, TypeStep, PTL DEF Spec
<1>2. Spec => Board!Init
  BY BoardInit DEF Spec
<1> QED
  BY <1>1, <1>2 DEF ImplementsBoard, Board!Spec, Board!bvars
=============================================================================
