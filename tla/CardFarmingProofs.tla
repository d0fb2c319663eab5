------------------------- MODULE CardFarmingProofs -------------------------
(***************************************************************************)
(* What holds of the card farmer for any number of starts, stops and       *)
(* games, and of the cookies its page works with for any number of         *)
(* accounts, cookie sets and commands in flight.  The two share no state.  *)
(***************************************************************************)
EXTENDS FarmingSession, CookieSessions, TLAPS

(* A click that has begun has its game, and one that tells a session knows *)
(* which.                                                                  *)
ClicksTyped ==
  \A k \in Click :
    /\ click[k].pc # "new" => click[k].app \in App
    /\ click[k].pc \in {"exclude", "untrack"} => click[k].session \in Session

FInv == FarmingTypeOK /\ ClicksTyped

-----------------------------------------------------------------------------
(* Type correctness. *)
LEMMA AtType == \A pc \in PC : At(pc) \in Cycle
BY DEF At, Cycle

LEMMA InitType == FarmingInit => FInv
<1>1. At("unborn") \in Cycle
  BY AtType DEF PC
<1> SUFFICES ASSUME FarmingInit PROVE FInv
  OBVIOUS
<1>2. cycle \in [Session -> Cycle]
  BY <1>1 DEF FarmingInit
<1>3. click \in [Click -> Stopping] /\ ClicksTyped
  BY DEF FarmingInit, Stopping, ClicksTyped
<1> QED
  BY <1>2, <1>3 DEF FarmingInit, FInv, FarmingTypeOK

LEMMA GotoType ==
  ASSUME FarmingTypeOK, NEW s \in Session, NEW pc \in PC, Goto(s, pc)
  PROVE  cycle' \in [Session -> Cycle]
BY AtType DEF FarmingTypeOK, Goto

LEMMA WaitType ==
  ASSUME FarmingTypeOK, NEW s \in Session, NEW onTime \in Cycle, WaitEnds(s, onTime)
  PROVE  cycle' \in [Session -> Cycle] /\ wake' \subseteq Session
<1>1. {"cleanup", "top"} \subseteq PC
  BY DEF PC
<1> QED
  BY <1>1, GotoType DEF WaitEnds, FarmingTypeOK

LEMMA UnclaimType ==
  ASSUME FarmingTypeOK, Unclaim
  PROVE  claim' \subseteq App /\ leaked' \in BOOLEAN
BY DEF Unclaim, Claim, FarmingTypeOK

(* The steps of a cycle touch nothing that the clicks own. *)
LEMMA CycleType ==
  ASSUME FInv, NEW s \in Session, CycleStep(s)
  PROVE  FInv'
<1> USE DEF FInv
<1>p. /\ {"top", "resolving", "announce", "idling", "pausing", "sweep", "alone",
          "cleanup", "clear", "remove", "ended"} \subseteq PC
      /\ cycle[s] \in Cycle
  BY DEF PC, FarmingTypeOK
<1>f. ASSUME UNCHANGED <<inserting, stopped, excluded, click, barred>>,
             entry' \in {entry, Nothing}, cycle' \in [Session -> Cycle],
             wake' \subseteq wake, tracked' \in [Session -> SUBSET App],
             claim' \subseteq App, leaked' \in BOOLEAN, crossed' \in BOOLEAN
      PROVE  FInv'
  BY <1>f DEF FarmingTypeOK, ClicksTyped
<1>1. ASSUME Top(s) PROVE FInv'
  <2>1. [At("resolving") EXCEPT !.snapshot = excluded[s]] \in Cycle
    BY <1>p DEF At, Cycle, FarmingTypeOK
  <2>2. cycle' \in [Session -> Cycle]
    BY <1>1, <1>p, <2>1, GotoType DEF Top, FarmingTypeOK
  <2> QED
    BY <1>1, <1>f, <2>2 DEF Top, FarmingTypeOK
<1>2. ASSUME GiveUp(s) \/ SweepEnds(s) PROVE FInv'
  BY <1>2, <1>f, <1>p, GotoType DEF GiveUp, SweepEnds, FarmingTypeOK
<1>3. ASSUME NEW eligible \in SUBSET App, NEW targets \in SUBSET App,
             Resolved(s, eligible, targets)
      PROVE  FInv'
  <2>1. [At("announce") EXCEPT !.targets = targets] \in Cycle
    BY <1>p DEF At, Cycle
  <2> QED
    BY <1>3, <1>f, <2>1 DEF Resolved, FarmingTypeOK
<1>4. ASSUME Announce(s) PROVE FInv'
  <2>1. cycle' \in [Session -> Cycle] /\ cycle[s].targets \subseteq App
    BY <1>4, <1>p DEF Announce, Cycle, FarmingTypeOK
  <2> QED
    BY <1>4, <1>f, <2>1 DEF Announce, Claim, FarmingTypeOK
<1>5. ASSUME IdlingEnds(s) PROVE FInv'
  <2>1. [At("pausing") EXCEPT !.targets = cycle[s].targets] \in Cycle
    BY <1>p DEF At, Cycle
  <2>2. wake' \subseteq wake
    BY <1>5 DEF IdlingEnds, WaitEnds
  <2> QED
    BY <1>5, <1>f, <2>1, <2>2, WaitType, UnclaimType DEF IdlingEnds, FarmingTypeOK
<1>6. ASSUME PauseEnds(s) PROVE FInv'
  <2>1. [At("sweep") EXCEPT !.left = cycle[s].targets] \in Cycle
    BY <1>p DEF At, Cycle
  <2>2. wake' \subseteq wake
    BY <1>6 DEF PauseEnds, WaitEnds
  <2> QED
    BY <1>6, <1>f, <2>1, <2>2, WaitType DEF PauseEnds, FarmingTypeOK
<1>7. ASSUME NEW g \in App, Sweep(s, g) PROVE FInv'
  <2>1. cycle' \in [Session -> Cycle]
    BY <1>7, <1>p DEF Sweep, Cycle, FarmingTypeOK
  <2> QED
    BY <1>7, <1>f, <2>1 DEF Sweep, Claim, FarmingTypeOK
<1>8. ASSUME AloneEnds(s) PROVE FInv'
  <2>1. [At("sweep") EXCEPT !.left = cycle[s].left] \in Cycle
    BY <1>p DEF At, Cycle
  <2>2. wake' \subseteq wake
    BY <1>8 DEF AloneEnds, WaitEnds
  <2> QED
    BY <1>8, <1>f, <2>1, <2>2, WaitType, UnclaimType DEF AloneEnds, FarmingTypeOK
<1>9. ASSUME Cleanup(s) \/ ClearState(s) \/ Remove(s) PROVE FInv'
  <2>1. cycle' \in [Session -> Cycle]
    BY <1>9, <1>p, GotoType DEF Cleanup, ClearState, Remove
  <2>2. claim' \subseteq App /\ leaked' \in BOOLEAN
    BY <1>9, UnclaimType DEF Cleanup, ClearState, Remove, FarmingTypeOK
  <2> QED
    BY <1>9, <1>f, <2>1, <2>2 DEF Cleanup, ClearState, Remove, FarmingTypeOK
<1> QED
  BY <1>1, <1>2, <1>3, <1>4, <1>5, <1>6, <1>7, <1>8, <1>9 DEF CycleStep

(* The registry, the clicks, and the claims cleared from outside. *)
LEMMA OtherType ==
  ASSUME FInv, Other
  PROVE  FInv'
<1> USE DEF FInv
<1>1. ASSUME Stop \/ ClearClaims PROVE FInv'
  BY <1>1 DEF Stop, ClearClaims, FarmingTypeOK, ClicksTyped
<1>2. ASSUME NEW s \in Session, Insert(s) PROVE FInv'
  BY <1>2 DEF Insert, FarmingTypeOK, ClicksTyped
<1>3. ASSUME NEW k \in Click, NEW g \in App, StopGame(k, g) PROVE FInv'
  BY <1>3 DEF StopGame, FarmingTypeOK, ClicksTyped, Stopping
<1>4. ASSUME NEW k \in Click, ClickStep(k) PROVE FInv'
  <2>1. click[k] \in Stopping
    BY DEF FarmingTypeOK
  <2>2. CASE Exclude(k)
    BY <2>1, <2>2 DEF Exclude, FarmingTypeOK, ClicksTyped, Stopping
  <2>3. CASE Untrack(k)
    BY <2>1, <2>3 DEF Untrack, FarmingTypeOK, ClicksTyped, Stopping
  <2>4. CASE ReleaseGame(k)
    BY <2>1, <2>4 DEF ReleaseGame, FarmingTypeOK, ClicksTyped, Stopping
  <2> QED
    BY <1>4, <2>2, <2>3, <2>4 DEF ClickStep
<1> QED
  BY <1>1, <1>2, <1>3, <1>4, CycleType DEF Other

LEMMA StartType ==
  ASSUME FInv, NEW s \in Session, Start(s)
  PROVE  FInv'
<1>1. cycle' \in [Session -> Cycle]
  BY GotoType DEF Start, FInv, PC
<1> QED
  BY <1>1 DEF Start, FInv, FarmingTypeOK, ClicksTyped

LEMMA TypeStep == FInv /\ [FarmingNext]_farmingVars => FInv'
<1>1. FInv /\ UNCHANGED farmingVars => FInv'
  BY DEF farmingVars, FInv, FarmingTypeOK, ClicksTyped
<1> QED
  BY <1>1, OtherType, StartType DEF FarmingNext

(* Every reachable state of the card farmer is well typed, even when       *)
(* starts overlap.                                                         *)
THEOREM FarmingTypes == FarmingSpec => []FarmingTypeOK
<1>1. FInv => FarmingTypeOK
  BY DEF FInv
<1> QED
  BY <1>1, InitType, TypeStep, PTL DEF FarmingSpec

-----------------------------------------------------------------------------
(* Claims.  A claim that was not leaked is idled by a cycle, and a step    *)
(* that ends the idling of that cycle either releases it or leaks it.      *)
(* A step that leaves every idling cycle as it was, and adds no claim.     *)
LEMMA OrphanFrame ==
  ASSUME NoOrphanClaim, claim' \subseteq claim, leaked' = leaked,
         \A s \in Session : Announced(s) => Announced(s)' /\ cycle'[s].held = cycle[s].held
  PROVE  NoOrphanClaim'
BY DEF NoOrphanClaim, Announced

(* A step of a cycle that idles nothing moves that cycle only. *)
LEMMA OrphanSilent ==
  ASSUME FInv, NoOrphanClaim, NEW s \in Session, ~Announced(s),
         \A t \in Session \ {s} : cycle'[t] = cycle[t],
         UNCHANGED <<claim, leaked>>
  PROVE  NoOrphanClaim'
<1>1. \A t \in Session : Announced(t) => Announced(t)' /\ cycle'[t].held = cycle[t].held
  BY DEF Announced
<1> QED
  BY <1>1, OrphanFrame

LEMMA OrphanUnclaim ==
  ASSUME Unclaim
  PROVE  NoOrphanClaim'
BY DEF Unclaim, Claim, NoOrphanClaim

LEMMA OrphanCycle ==
  ASSUME FInv, NoOrphanClaim, NEW s \in Session, CycleStep(s)
  PROVE  NoOrphanClaim'
<1>c. cycle \in [Session -> Cycle]
  BY DEF FInv, FarmingTypeOK
<1>1. ASSUME \/ Top(s) \/ GiveUp(s) \/ SweepEnds(s) \/ PauseEnds(s)
             \/ ClearState(s) \/ Remove(s)
             \/ \E eligible, targets \in SUBSET App : Resolved(s, eligible, targets)
      PROVE  NoOrphanClaim'
  <2>1. /\ cycle[s].pc \in {"top", "resolving", "sweep", "pausing", "clear", "remove"}
        /\ UNCHANGED <<claim, leaked>>
    BY <1>1 DEF Top, GiveUp, SweepEnds, PauseEnds, ClearState, Remove, Resolved
  <2>2. \A t \in Session \ {s} : cycle'[t] = cycle[t]
    BY <1>1, <1>c DEF Top, GiveUp, SweepEnds, PauseEnds, WaitEnds, ClearState, Remove,
         Resolved, Goto
  <2> QED
    BY <2>1, <2>2, OrphanSilent DEF Announced
<1>2. ASSUME Announce(s) \/ (\E g \in App : Sweep(s, g))
      PROVE  NoOrphanClaim'
  <2>1. /\ cycle[s].pc \in {"announce", "sweep"}
        /\ \A t \in Session \ {s} : cycle'[t] = cycle[t]
    BY <1>2, <1>c DEF Announce, Sweep
  <2>2. CASE UNCHANGED <<claim, leaked>>
    BY <2>1, <2>2, OrphanSilent DEF Announced
  <2>3. CASE Announce(s) /\ Claim(cycle[s].targets)
    <3>1. cycle'[s].pc = "idling" /\ cycle'[s].held = cycle[s].targets
      BY <2>3, <1>c DEF Announce, Cycle
    <3>2. claim' = cycle[s].targets
      BY <2>3 DEF Claim
    <3> QED
      BY <3>1, <3>2 DEF NoOrphanClaim, Announced
  <2>4. ASSUME NEW g \in App, Sweep(s, g), Claim({g})
        PROVE  NoOrphanClaim'
    <3>1. cycle'[s].pc = "alone" /\ cycle'[s].held = {g}
      BY <2>4, <1>c DEF Sweep, Cycle
    <3>2. claim' = {g}
      BY <2>4 DEF Claim
    <3> QED
      BY <3>1, <3>2 DEF NoOrphanClaim, Announced
  <2> QED
    BY <1>2, <2>2, <2>3, <2>4 DEF Announce, Sweep
<1>3. ASSUME IdlingEnds(s) \/ AloneEnds(s) \/ Cleanup(s) PROVE NoOrphanClaim'
  BY <1>3, OrphanUnclaim DEF IdlingEnds, AloneEnds, Cleanup
<1> QED
  BY <1>1, <1>2, <1>3 DEF CycleStep

LEMMA OrphanStep == FInv /\ NoOrphanClaim /\ [FarmingNext]_farmingVars => NoOrphanClaim'
<1> SUFFICES ASSUME FInv, NoOrphanClaim, [FarmingNext]_farmingVars PROVE NoOrphanClaim'
  OBVIOUS
<1>1. ASSUME NEW s \in Session, Start(s) PROVE NoOrphanClaim'
  <2>1. /\ cycle[s].pc = "unborn" /\ UNCHANGED <<claim, leaked>>
        /\ \A t \in Session \ {s} : cycle'[t] = cycle[t]
    BY <1>1 DEF Start, Goto, FInv, FarmingTypeOK
  <2> QED
    BY <2>1, OrphanSilent DEF Announced
<1>2. ASSUME \/ Stop \/ ClearClaims
             \/ \E s \in Session : Insert(s)
             \/ \E k \in Click : ClickStep(k) \/ \E g \in App : StopGame(k, g)
             \/ UNCHANGED farmingVars
      PROVE  NoOrphanClaim'
  <2>1. cycle' = cycle /\ leaked' = leaked /\ claim' \subseteq claim
    BY <1>2 DEF Stop, ClearClaims, Insert, ClickStep, Exclude, Untrack, ReleaseGame,
         StopGame, farmingVars
  <2> QED
    BY <2>1, OrphanFrame DEF Announced
<1> QED
  BY <1>1, <1>2, OrphanCycle DEF FarmingNext, Other

(* Whatever ends a pass or a cycle - a stop, a wake-up, an empty list, an  *)
(* overlapping second cycle - no claim of the card farmer is left behind,  *)
(* unless the release itself failed.                                       *)
THEOREM NoClaimOrphaned == FarmingSpec => []NoOrphanClaim
<1>1. FarmingInit => NoOrphanClaim
  BY DEF FarmingInit, NoOrphanClaim
<1> QED
  BY <1>1, InitType, TypeStep, OrphanStep, PTL DEF FarmingSpec

-----------------------------------------------------------------------------
(* Games taken out.  MayIdle(s, g): what is left of the pass of session s  *)
(* may still idle g.                                                       *)
MayIdle(s, g) ==
  \/ g \in cycle[s].targets \cup cycle[s].left \cup cycle[s].held
  \/ cycle[s].pc = "resolving" /\ g \notin cycle[s].snapshot

PassOver(s, g) == g \in barred[s] /\ ~MayIdle(s, g)

(* A click that releases a game, or is about to, has put it among the      *)
(* exclusions of the session it was told of.                               *)
Told(k) == click[k].pc \in {"untrack", "release"} /\ click[k].session # Nothing

ToldExcluded ==
  /\ \A k \in Click : Told(k) => click[k].app \in excluded[click[k].session]
  /\ \A s \in Session : barred[s] \subseteq excluded[s]

LEMMA ExcludedStep == FInv /\ ToldExcluded /\ [FarmingNext]_farmingVars => ToldExcluded'
<1> SUFFICES ASSUME FInv, ToldExcluded, [FarmingNext]_farmingVars PROVE ToldExcluded'
  OBVIOUS
<1>0. /\ click \in [Click -> Stopping] /\ excluded \in [Session -> SUBSET App]
      /\ barred \in [Session -> SUBSET App]
  BY DEF FInv, FarmingTypeOK
<1>1. ASSUME UNCHANGED <<excluded, click, barred>> PROVE ToldExcluded'
  BY <1>1 DEF ToldExcluded, Told
<1>2. ASSUME NEW k \in Click, NEW g \in App, StopGame(k, g) PROVE ToldExcluded'
  <2>1. click' = [click EXCEPT ![k] =
          [pc |-> IF entry = Nothing THEN "release" ELSE "exclude", app |-> g, session |-> entry]]
    BY <1>2 DEF StopGame
  <2>2. ~Told(k)' /\ \A j \in Click \ {k} : click'[j] = click[j]
    BY <1>0, <2>1 DEF Told
  <2> QED
    BY <1>2, <2>2 DEF StopGame, ToldExcluded, Told
<1>3. ASSUME NEW k \in Click, Exclude(k) PROVE ToldExcluded'
  <2>1. click[k].session \in Session
    BY <1>3 DEF Exclude, FInv, ClicksTyped
  <2>2. /\ \A s \in Session : excluded[s] \subseteq excluded'[s]
        /\ click[k].app \in excluded'[click[k].session]
    BY <1>0, <1>3, <2>1 DEF Exclude
  <2>3. /\ click'[k].app = click[k].app /\ click'[k].session = click[k].session
        /\ \A j \in Click \ {k} : click'[j] = click[j]
    BY <1>0, <1>3 DEF Exclude, Stopping
  <2>4. \A j \in Click : Told(j)' => click'[j].app \in excluded'[click'[j].session]
    <3> SUFFICES ASSUME NEW j \in Click, Told(j)'
                 PROVE  click'[j].app \in excluded'[click'[j].session]
      OBVIOUS
    <3>1. CASE j = k
      BY <2>2, <2>3, <3>1
    <3>2. CASE j # k
      <4>1. Told(j) /\ click[j].session \in Session
        BY <2>3, <3>2 DEF Told, Stopping, FInv, FarmingTypeOK
      <4> QED
        BY <2>2, <2>3, <3>2, <4>1 DEF ToldExcluded
    <3> QED
      BY <3>1, <3>2
  <2> QED
    BY <1>3, <2>2, <2>4 DEF Exclude, ToldExcluded
<1>4. ASSUME NEW k \in Click, Untrack(k) PROVE ToldExcluded'
  <2>1. /\ click'[k].app = click[k].app /\ click'[k].session = click[k].session
        /\ click[k].pc = "untrack"
        /\ \A j \in Click \ {k} : click'[j] = click[j]
    BY <1>0, <1>4 DEF Untrack, Stopping
  <2>2. UNCHANGED <<excluded, barred>>
    BY <1>4 DEF Untrack
  <2> QED
    BY <2>1, <2>2 DEF ToldExcluded, Told
<1>5. ASSUME NEW k \in Click, ReleaseGame(k) PROVE ToldExcluded'
  <2>1. /\ click[k].pc = "release" /\ ~Told(k)' /\ excluded' = excluded
        /\ \A j \in Click \ {k} : click'[j] = click[j]
    BY <1>0, <1>5 DEF ReleaseGame, Told, Stopping
  <2>2. \A s \in Session : barred'[s] \subseteq excluded[s]
    <3>1. CASE click[k].session = Nothing
      BY <1>5, <3>1 DEF ReleaseGame, ToldExcluded
    <3>2. CASE click[k].session # Nothing
      <4>1. click[k].app \in excluded[click[k].session]
        BY <2>1, <3>2 DEF Told, ToldExcluded
      <4> QED
        BY <1>0, <1>5, <3>2, <4>1 DEF ReleaseGame, ToldExcluded
    <3> QED
      BY <3>1, <3>2
  <2> QED
    BY <2>1, <2>2 DEF ToldExcluded, Told
<1>6. ASSUME NEW s \in Session, CycleStep(s) \/ Insert(s) \/ Start(s) PROVE ToldExcluded'
  BY <1>1, <1>6 DEF CycleStep, Top, GiveUp, Resolved, Announce, IdlingEnds, PauseEnds, Sweep,
       SweepEnds, AloneEnds, Cleanup, ClearState, Remove, Insert, Start
<1>7. CASE Stop \/ ClearClaims \/ UNCHANGED farmingVars
  BY <1>1, <1>7 DEF Stop, ClearClaims, farmingVars
<1> QED
  BY <1>2, <1>3, <1>4, <1>5, <1>6, <1>7 DEF FarmingNext, Other, ClickStep

LEMMA PassCycle ==
  ASSUME FInv, ToldExcluded, NEW s \in Session, NEW g \in App, PassOver(s, g),
         NEW t \in Session, CycleStep(t) \/ Start(t)
  PROVE  ~MayIdle(s, g)'
<1>0. cycle \in [Session -> Cycle]
  BY DEF FInv, FarmingTypeOK
<1>g. ASSUME NEW pc \in PC, pc # "resolving", Goto(s, pc) PROVE ~MayIdle(s, g)'
  BY <1>0, <1>g DEF Goto, At, MayIdle
<1>w. ASSUME NEW onTime \in Cycle, onTime.pc # "resolving", WaitEnds(s, onTime),
             g \notin onTime.targets \cup onTime.left \cup onTime.held
      PROVE  ~MayIdle(s, g)'
  <2>1. CASE cycle' = [cycle EXCEPT ![s] = onTime]
    BY <1>0, <1>w, <2>1 DEF MayIdle
  <2> QED
    BY <1>w, <1>g, <2>1 DEF WaitEnds, PC
<1>1. CASE t # s
  <2>1. cycle'[s] = cycle[s]
    BY <1>0, <1>1 DEF CycleStep, Top, GiveUp, Resolved, Announce, IdlingEnds, PauseEnds, Sweep,
         SweepEnds, AloneEnds, Cleanup, ClearState, Remove, Start, WaitEnds, Goto
  <2> QED
    BY <2>1 DEF PassOver, MayIdle
<1>2. CASE t = s
  <2>1. CASE Top(s)
    <3>1. g \in excluded[s]
      BY DEF PassOver, ToldExcluded
    <3>2. CASE cycle' = [cycle EXCEPT ![s] = [At("resolving") EXCEPT !.snapshot = excluded[s]]]
      BY <1>0, <3>1, <3>2 DEF At, MayIdle
    <3> QED
      BY <1>g, <2>1, <3>2 DEF Top, PC
  <2>2. CASE GiveUp(s) \/ SweepEnds(s) \/ Cleanup(s) \/ ClearState(s) \/ Remove(s) \/ Start(s)
    BY <1>g, <2>2 DEF GiveUp, SweepEnds, Cleanup, ClearState, Remove, Start, PC
  <2>3. ASSUME NEW eligible \in SUBSET App, NEW targets \in SUBSET App,
               Resolved(s, eligible, targets)
        PROVE  ~MayIdle(s, g)'
    <3>1. g \notin targets
      BY <2>3 DEF Resolved, PassOver, MayIdle
    <3> QED
      BY <1>0, <2>3, <3>1 DEF Resolved, At, MayIdle
  <2>4. CASE Announce(s)
    BY <1>0, <2>4 DEF Announce, Cycle, PassOver, MayIdle
  <2>5. CASE IdlingEnds(s)
    <3>1. [At("pausing") EXCEPT !.targets = cycle[s].targets] \in Cycle
      BY <1>0 DEF At, Cycle, PC
    <3> QED
      BY <1>w, <2>5, <3>1 DEF IdlingEnds, At, PassOver, MayIdle
  <2>6. CASE PauseEnds(s)
    <3>1. [At("sweep") EXCEPT !.left = cycle[s].targets] \in Cycle
      BY <1>0 DEF At, Cycle, PC
    <3> QED
      BY <1>w, <2>6, <3>1 DEF PauseEnds, At, PassOver, MayIdle
  <2>7. ASSUME NEW h \in App, Sweep(s, h) PROVE ~MayIdle(s, g)'
    BY <1>0, <2>7 DEF Sweep, Cycle, PassOver, MayIdle
  <2>8. CASE AloneEnds(s)
    <3>1. [At("sweep") EXCEPT !.left = cycle[s].left] \in Cycle
      BY <1>0 DEF At, Cycle, PC
    <3> QED
      BY <1>w, <2>8, <3>1 DEF AloneEnds, At, PassOver, MayIdle
  <2> QED
    BY <1>2, <2>1, <2>2, <2>3, <2>4, <2>5, <2>6, <2>7, <2>8 DEF CycleStep
<1> QED
  BY <1>1, <1>2

(* Once a stop is through and the pass that may have read the exclusions   *)
(* before it is over, no step lets the session idle the game again: what   *)
(* ExclusionSettles leaves to time is only the end of that pass            *)
(* (remove_active_game, run_cycle).                                        *)
THEOREM BarredStaysOut ==
  FarmingSpec => [][\A s \in Session : \A g \in App : PassOver(s, g) => PassOver(s, g)']_farmingVars
<1>1. FarmingInit => ToldExcluded
  BY DEF FarmingInit, ToldExcluded, Told
<1>2. FInv /\ ToldExcluded /\ [FarmingNext]_farmingVars
        => [\A s \in Session : \A g \in App : PassOver(s, g) => PassOver(s, g)']_farmingVars
  <2> SUFFICES ASSUME FInv, ToldExcluded, FarmingNext, NEW s \in Session, NEW g \in App,
                      PassOver(s, g)
               PROVE  PassOver(s, g)'
    OBVIOUS
  <2>1. ASSUME NEW t \in Session, CycleStep(t) \/ Start(t) PROVE PassOver(s, g)'
    <3>1. barred' = barred
      BY <2>1 DEF CycleStep, Top, GiveUp, Resolved, Announce, IdlingEnds, PauseEnds, Sweep,
           SweepEnds, AloneEnds, Cleanup, ClearState, Remove, Start
    <3> QED
      BY <2>1, <3>1, PassCycle DEF PassOver
  <2>2. ASSUME \/ Stop \/ ClearClaims \/ \E t \in Session : Insert(t)
               \/ \E k \in Click : ClickStep(k) \/ \E h \in App : StopGame(k, h)
        PROVE  PassOver(s, g)'
    <3>1. cycle' = cycle
      BY <2>2 DEF Stop, ClearClaims, Insert, ClickStep, Exclude, Untrack, ReleaseGame, StopGame
    <3>2. barred[s] \subseteq barred'[s]
      BY <2>2 DEF Stop, ClearClaims, Insert, ClickStep, Exclude, Untrack, ReleaseGame, StopGame,
           FInv, FarmingTypeOK
    <3> QED
      BY <3>1, <3>2 DEF PassOver, MayIdle
  <2> QED
    BY <2>1, <2>2 DEF FarmingNext, Other
<1> QED
  BY <1>1, <1>2, InitType, TypeStep, ExcludedStep, PTL DEF FarmingSpec

-----------------------------------------------------------------------------
(* One cycle at a time, until a start meets another start or a stop half   *)
(* done: a start that meets none and finds the registry empty finds no     *)
(* cycle running, because a running one is in the registry, on its way     *)
(* there, or told to stop.                                                 *)
OnTheWay ==
  /\ \A s, t \in inserting : s = t
  /\ inserting # {} => entry = Nothing

One == AtMostOneCycle /\ CycleReachable /\ OnTheWay

OneInv == crossed \/ One

LEMMA EndedOne == AllEnded => One
BY DEF AllEnded, One, AtMostOneCycle, CycleReachable, OnTheWay

(* A step that starts no cycle and touches no registry. *)
LEMMA OneFrame ==
  ASSUME OneInv, UNCHANGED <<entry, inserting, stopped, crossed>>,
         \A s \in Session : Running(s)' => Running(s)
  PROVE  OneInv'
BY DEF OneInv, One, AtMostOneCycle, CycleReachable, OnTheWay

LEMMA OneCycleStep ==
  ASSUME FInv, OneInv, NEW s \in Session, CycleStep(s)
  PROVE  OneInv'
<1>1. /\ Running(s)
      /\ \A t \in Session \ {s} : cycle'[t] = cycle[t]
      /\ UNCHANGED <<inserting, stopped>>
  BY DEF CycleStep, Top, GiveUp, Resolved, Announce, IdlingEnds, PauseEnds, Sweep,
       SweepEnds, AloneEnds, Cleanup, ClearState, Remove, WaitEnds, Goto, Running,
       FInv, FarmingTypeOK
<1>2. \A t \in Session : Running(t)' => Running(t)
  BY <1>1 DEF Running
<1>3. CASE UNCHANGED <<entry, crossed>>
  BY <1>1, <1>2, <1>3, OneFrame
<1>4. CASE Remove(s)
  <2>1. ~Running(s)' /\ entry' = Nothing /\ (crossed' <=> crossed /\ ~AllEnded')
    BY <1>4 DEF Remove, Goto, At, Running, FInv, FarmingTypeOK
  <2>2. CASE One
    <3>1. \A t \in Session : ~Running(t)'
      BY <1>1, <1>2, <2>1, <2>2 DEF One, AtMostOneCycle
    <3>2. One'
      BY <1>1, <2>1, <2>2, <3>1 DEF One, AtMostOneCycle, CycleReachable, OnTheWay
    <3> QED
      BY <3>2 DEF OneInv
  <2>3. AllEnded' => One'
    BY EndedOne, PTL
  <2> QED
    BY <2>1, <2>2, <2>3 DEF OneInv
<1> QED
  BY <1>3, <1>4 DEF CycleStep, Top, GiveUp, Resolved, Announce, IdlingEnds, PauseEnds,
       Sweep, SweepEnds, AloneEnds, Cleanup, ClearState

LEMMA OneStep == FInv /\ OneInv /\ [FarmingNext]_farmingVars => OneInv'
<1> SUFFICES ASSUME FInv, OneInv, [FarmingNext]_farmingVars PROVE OneInv'
  OBVIOUS
<1>1. ASSUME NEW s \in Session, Start(s) PROVE OneInv'
  <2> SUFFICES ASSUME ~crossed' PROVE One'
    BY DEF OneInv
  <2>1. /\ One /\ inserting = {} /\ entry = Nothing /\ \A t \in stopped : ~Running(t)
        /\ inserting' = {s} /\ entry' = Nothing
        /\ \A t \in Session \ {s} : cycle'[t] = cycle[t]
    BY <1>1 DEF Start, UnderWay, OneInv, Goto, FInv, FarmingTypeOK
  <2>2. \A t \in Session : ~Running(t)
    BY <2>1, FarmingAssumption DEF One, CycleReachable
  <2>3. \A t \in Session : Running(t)' => t = s
    BY <2>1, <2>2 DEF Running
  <2> QED
    BY <2>1, <2>3 DEF One, AtMostOneCycle, CycleReachable, OnTheWay
<1>2. ASSUME NEW s \in Session, Insert(s) PROVE OneInv'
  <2>1. crossed' <=> crossed /\ ~AllEnded'
    BY <1>2 DEF Insert, FInv, FarmingTypeOK
  <2>2. CASE One
    <3>1. inserting = {s} /\ entry = Nothing
      BY <1>2, <2>2 DEF Insert, One, OnTheWay
    <3>2. inserting' = {} /\ entry' = s /\ UNCHANGED <<cycle, stopped>>
      BY <1>2, <3>1 DEF Insert
    <3>3. One'
      BY <2>2, <3>1, <3>2, FarmingAssumption
         DEF One, AtMostOneCycle, CycleReachable, OnTheWay, Running
    <3> QED
      BY <3>3 DEF OneInv
  <2>3. AllEnded' => One'
    BY EndedOne, PTL
  <2> QED
    BY <2>1, <2>2, <2>3 DEF OneInv
<1>3. ASSUME Stop PROVE OneInv'
  BY <1>3 DEF Stop, OneInv, One, AtMostOneCycle, CycleReachable, OnTheWay, Running
<1>4. ASSUME \/ ClearClaims \/ UNCHANGED farmingVars
             \/ \E k \in Click : ClickStep(k) \/ \E g \in App : StopGame(k, g)
      PROVE  OneInv'
  <2>1. UNCHANGED <<entry, inserting, stopped, cycle, crossed>>
    BY <1>4 DEF ClearClaims, ClickStep, Exclude, Untrack, ReleaseGame, StopGame, farmingVars
  <2> QED
    BY <2>1, OneFrame DEF Running
<1> QED
  BY <1>1, <1>2, <1>3, <1>4, OneCycleStep DEF FarmingNext, Other

(* However starts, stops, clicks and ends interleave, an account has at    *)
(* most one farming cycle, and one that can be stopped, up to a start that *)
(* meets another start between its check and its insertion or a stop that  *)
(* still waits for the old task; and again once the cycles that crossed    *)
(* have ended (start, stop, remove).  Nothing else in the manager takes a  *)
(* running cycle off the registry.                                         *)
THEOREM OneCycle == FarmingSpec => []OneReachableCycle
<1>1. FarmingInit => OneInv
  BY DEF FarmingInit, OneInv, One, AtMostOneCycle, CycleReachable, OnTheWay, Running, At
<1>2. OneInv => OneReachableCycle
  BY DEF OneInv, One, OneReachableCycle
<1> QED
  BY <1>1, <1>2, InitType, TypeStep, OneStep, PTL DEF FarmingSpec

-----------------------------------------------------------------------------
(* The cookies. *)

Askers == {"connect", "submit", "use"}

(* Who is heard is there: a page that has asked for something is mounted   *)
(* until it is told that it is not.                                        *)
Heard == \A c \in calls : c.heard /\ c.what \in Askers => OnPage

Typed == TypeOK /\ Heard /\ (sync => active # None)

(* The steps that move about, and those that send a command. *)
Navigation ==
  \/ \E k \in Account : SignIn(k) \/ Switch(k) \/ SignOut(k)
  \/ \E name \in {"farming", "inventory"} : OpenPage(name)
  \/ ClosePage \/ \E cached \in BOOLEAN : ShowCache(cached)

Command ==
  \/ AutoConnect \/ AutoFarm \/ Use
  \/ \E c \in Maybe(Cookie) : Submit(c)
  \/ \E what \in {"load", "validate", "acquire", "clear"},
         c \in Maybe(Cookie) : Settings(what, c)
  \/ \E k \in Account : CycleExpires(k)

-----------------------------------------------------------------------------
(* Type correctness. *)
LEMMA SessionType ==
  ASSUME Typed
  PROVE  /\ active # None => active \in accounts /\ active \in Account
         /\ OnPage => active # None
         /\ View \in Entry
         /\ page.name \in {"none", "farming", "inventory"} /\ page.ref \in Maybe(Cookie)
BY DEF Typed, TypeOK, Maybe, OnPage, NoPage, View, Blank, Entry, Page

LEMMA PageType ==
  ASSUME NEW p \in Page
  PROVE  /\ Drop(p) \in Page /\ Drop(p).name = p.name
         /\ \A c \in Maybe(Cookie) : [p EXCEPT !.ref = c] \in Page
         /\ NoPage \in Page
BY DEF Drop, Page, NoPage, Maybe

LEMMA AskType ==
  ASSUME Typed, active # None, NEW what \in {"check", "load", "connect", "submit", "use", "auto",
         "validate", "acquire", "clear"}, NEW c \in Maybe(Cookie)
  PROVE  /\ Ask(what, c) \in Call /\ Ask(what, c).of = active /\ Ask(what, c).what = what
         /\ Ask(what, c).with = c /\ Ask(what, c).answer = "none" /\ Ask(what, c).heard
BY SessionType DEF Ask, Call

LEMMA SendsType ==
  ASSUME TypeOK, NEW rest \in SUBSET Call, NEW new \in SUBSET Call, Sends(rest, new)
  PROVE  calls' \subseteq Call /\ blamed' \subseteq Account
<1>1. \A c \in new : c.of \in Account
  BY DEF Call
<1> QED
  BY <1>1 DEF Sends, TypeOK

LEMMA StoreType ==
  ASSUME TypeOK, NEW k \in Account, NEW c \in Maybe(Cookie),
         Caches(k, c) \/ ClearSavedSteamCookies(k) \/ UNCHANGED store
  PROVE  entries' \in [Account -> Entry] /\ shown' \in Maybe(Account)
<1>1. /\ [checked |-> TRUE, cookies |-> c] \in Entry
      /\ [entries[k] EXCEPT !.cookies = None] \in Entry
  BY DEF TypeOK, Entry, Maybe
<1>2. CASE Caches(k, c)
  BY <1>1, <1>2 DEF Caches, UpdateEntry, TypeOK
<1>3. CASE ClearSavedSteamCookies(k)
  BY <1>1, <1>3 DEF ClearSavedSteamCookies, UpdateEntry, TypeOK
<1> QED
  BY <1>2, <1>3 DEF TypeOK, store

(* A step that leaves the accounts alone. *)
LEMMA TypedFrame ==
  ASSUME Typed, UNCHANGED session, sync' => sync,
         saved' \in [Account -> Maybe(Cookie)],
         entries' \in [Account -> Entry], shown' \in Maybe(Account),
         page' \in Page, active = None => page' = NoPage, sync' \in BOOLEAN,
         calls' \subseteq Call, blamed' \subseteq Account,
         \A c \in calls' : c.heard /\ c.what \in Askers => page'.name # "none"
  PROVE  Typed'
BY DEF Typed, TypeOK, Heard, OnPage, session

LEMMA TurnType ==
  ASSUME Typed, NEW k \in Account, Turn(k), accounts' \subseteq Account, k \in accounts',
         UNCHANGED <<saved, store, blamed>>
  PROVE  Typed'
<1>1. page' \in Page /\ page'.name = page.name
  <2>1. [page EXCEPT !.init = TRUE] \in Page
    BY DEF Typed, TypeOK, Page
  <2>2. CASE page.name = "inventory"
    BY <2>1, <2>2 DEF Turn, Page, Typed, TypeOK
  <2>3. CASE page.name = "none"
    BY <2>3 DEF Turn, Typed, TypeOK
  <2>4. CASE page.name = "farming"
    BY <2>4, PageType DEF Turn, Typed, TypeOK
  <2> QED
    BY <2>2, <2>3, <2>4, SessionType
<1>2. active' = k /\ k # None /\ sync' = TRUE /\ calls' \subseteq calls
  BY CookiesAssumption DEF Turn
<1>3. TypeOK'
  BY <1>1, <1>2 DEF Typed, TypeOK, store, Maybe
<1>4. Heard'
  BY <1>1, <1>2 DEF Typed, Heard, OnPage
<1> QED
  BY <1>2, <1>3, <1>4 DEF Typed

LEMMA DeafType ==
  ASSUME NEW c \in Call
  PROVE  /\ Deaf(c) \in Call /\ ~(Deaf(c).heard /\ Deaf(c).what \in Askers)
         /\ Deaf(c).what = c.what /\ Deaf(c).of = c.of /\ Deaf(c).with = c.with
         /\ Deaf(c).answer = c.answer
         /\ (c.what = "ended" => Deaf(c).heard = c.heard)
BY DEF Deaf, Call, Askers

LEMMA SignOutType ==
  ASSUME Typed, NEW k \in Account, SignOut(k)
  PROVE  Typed'
<1>1. /\ k \in accounts /\ accounts' = accounts \ {k} /\ accounts' \subseteq Account
      /\ UNCHANGED <<saved, store, blamed>>
  BY DEF SignOut, Typed, TypeOK
<1>2. CASE k # active
  BY <1>1, <1>2 DEF SignOut, Typed, TypeOK, Heard, OnPage, Maybe, store
<1>3. CASE k = active /\ TurnOff
  <2>1. \A c \in calls' : c \in Call /\ ~(c.heard /\ c.what \in Askers)
    BY <1>3, DeafType DEF TurnOff, Typed, TypeOK
  <2>2. TypeOK'
    BY <1>1, <1>3, <2>1, PageType DEF TurnOff, Typed, TypeOK, store, Maybe, NoPage, Page
  <2> QED
    BY <1>3, <2>1, <2>2 DEF TurnOff, Typed, Heard
<1>4. ASSUME k = active, NEW j \in accounts', Turn(j) PROVE Typed'
  BY <1>1, <1>4, TurnType
<1> QED
  BY <1>2, <1>3, <1>4 DEF SignOut

LEMMA NavigationType ==
  ASSUME Typed, Navigation
  PROVE  Typed'
<1>1. ASSUME NEW k \in Account, SignIn(k) \/ Switch(k) PROVE Typed'
  BY <1>1, TurnType DEF SignIn, Switch, Typed, TypeOK
<1>2. ASSUME NEW name \in {"farming", "inventory"}, OpenPage(name) PROVE Typed'
  BY <1>2, TypedFrame DEF OpenPage, NoPage, Page, Maybe, Typed, TypeOK, store
<1>3. CASE ClosePage
  <2>1. \A c \in calls' : c \in Call /\ ~(c.heard /\ c.what \in Askers)
    BY <1>3, DeafType DEF ClosePage, Typed, TypeOK
  <2> QED
    BY <1>3, <2>1, TypedFrame, PageType DEF ClosePage, Typed, TypeOK, store, NoPage, Page, Maybe
<1>4. ASSUME NEW cached \in BOOLEAN, ShowCache(cached) PROVE Typed'
  <2>1. active # None
    <3>1. NoPage.init = FALSE
      BY DEF NoPage
    <3> QED
      BY <1>4, <3>1 DEF ShowCache, Typed, TypeOK
  <2>2. page' \in Page /\ page'.name = page.name
    BY <1>4 DEF ShowCache, Typed, TypeOK, Page
  <2> QED
    BY <1>4, <2>1, <2>2, TypedFrame DEF ShowCache, Typed, TypeOK, store, Heard, OnPage
<1> QED
  BY <1>1, <1>2, <1>3, <1>4, SignOutType DEF Navigation

LEMMA GatedType ==
  ASSUME Typed, NEW ask \in Call, NEW gamer \in BOOLEAN, NEW rest \in SUBSET calls,
         Gated(ask, gamer, rest), ask.heard => OnPage, UNCHANGED <<session, saved, sync>>
  PROVE  Typed'
<1>1. rest \in SUBSET Call /\ {ask} \in SUBSET Call /\ ask.of \in Account
  BY DEF Typed, TypeOK, Call
<1>2. CASE Sends(rest, {ask}) /\ UNCHANGED <<page, store>>
  <2>1. calls' \subseteq Call /\ blamed' \subseteq Account
    BY <1>1, <1>2, SendsType DEF Typed
  <2>2. \A c \in calls' : c.heard /\ c.what \in Askers => OnPage
    BY <1>1, <1>2 DEF Sends, Typed, Heard
  <2> QED
    BY <1>2, <2>1, <2>2, TypedFrame DEF Typed, TypeOK, store, OnPage
<1>3. CASE /\ page' = IF ask.heard THEN Drop(page) ELSE page
           /\ ClearSavedSteamCookies(ask.of)
           /\ calls' = rest /\ UNCHANGED blamed
  <2>1. entries' \in [Account -> Entry] /\ shown' \in Maybe(Account)
    BY <1>1, <1>3, StoreType DEF Typed, Maybe
  <2>2. page' \in Page /\ page'.name = page.name
    BY <1>3, PageType DEF Typed, TypeOK
  <2>3. active = None => page' = NoPage
    BY <1>3, SessionType DEF Typed, TypeOK
  <2> QED
    BY <1>3, <2>1, <2>2, <2>3, TypedFrame DEF Typed, TypeOK, Heard, OnPage
<1> QED
  BY <1>2, <1>3 DEF Gated

(* Commands that are sent while a page may be mounted. *)
LEMMA SendingType ==
  ASSUME Typed, NEW new \in SUBSET Call, Sends(calls, new),
         \A c \in new : c.heard /\ c.what \in Askers => OnPage,
         UNCHANGED <<session, entries>>, saved' \in [Account -> Maybe(Cookie)],
         sync' \in BOOLEAN, sync' => sync, shown' \in Maybe(Account),
         page' \in Page, page'.name = page.name, active = None => page' = NoPage
  PROVE  Typed'
<1>1. calls' \subseteq Call /\ blamed' \subseteq Account
  BY SendsType DEF Typed, TypeOK
<1>2. \A c \in calls' : c.heard /\ c.what \in Askers => OnPage
  BY DEF Sends, Typed, Heard
<1> QED
  BY <1>1, <1>2, TypedFrame DEF Typed, TypeOK, OnPage

LEMMA CommandType ==
  ASSUME Typed, Sync \/ Command
  PROVE  Typed'
<1>n. None \in Maybe(Cookie) /\ View.cookies \in Maybe(Cookie)
  BY SessionType DEF Maybe, Entry
<1>1. CASE Sync
  <2>1. PICK new \in SUBSET {Ask("check", None)} : Sends(calls, new)
    BY <1>1 DEF Sync
  <2>2. active # None /\ active \in Account
    BY <1>1, SessionType DEF Sync, Typed
  <2>3. new \in SUBSET Call /\ \A c \in new : c.what = "check"
    BY <1>n, <2>2, AskType
  <2> QED
    BY <1>1, <2>1, <2>2, <2>3, SendingType DEF Sync, Askers, Typed, TypeOK, Maybe, session
<1>2. CASE AutoConnect
  <2>1. OnPage /\ active # None /\ active \in Account
    BY <1>2, SessionType DEF AutoConnect, Due
  <2>2. PICK new \in SUBSET {Ask("connect", None), Ask("connect", View.cookies)} :
          Sends(calls, new)
    BY <1>2 DEF AutoConnect
  <2>3. new \in SUBSET Call
    BY <1>n, <2>1, AskType
  <2>4. page' \in Page /\ page'.name = page.name
    BY <1>2, <2>1 DEF AutoConnect, Typed, TypeOK, Page, Maybe
  <2> QED
    BY <1>2, <2>1, <2>2, <2>3, <2>4, SendingType DEF AutoConnect, Typed, TypeOK, session, store
<1>3. CASE AutoFarm
  <2>1. active # None /\ active \in Account /\ entries[active].cookies \in Maybe(Cookie)
    BY <1>3, SessionType DEF AutoFarm, Acts, Typed, TypeOK, Entry
  <2>2. Ask("auto", entries[active].cookies) \in Call
        /\ Ask("auto", entries[active].cookies).what = "auto"
    BY <2>1, AskType
  <2> QED
    BY <1>3, <2>1, <2>2, SendingType DEF AutoFarm, Askers, Typed, TypeOK, session, store
<1>4. CASE Use
  <2>1. OnPage /\ active # None
    BY <1>4, SessionType DEF Use
  <2>2. PICK gamer \in BOOLEAN, what \in {"use", "connect"} :
          Gated(Ask(what, page.ref), gamer, calls)
    BY <1>4 DEF Use
  <2>3. Ask(what, page.ref) \in Call
    BY <2>1, AskType, SessionType
  <2> QED
    BY <1>4, <2>1, <2>2, <2>3, GatedType DEF Use
<1>5. ASSUME NEW c \in Maybe(Cookie), Submit(c) PROVE Typed'
  <2>1. OnPage /\ active # None
    BY <1>5, SessionType DEF Submit
  <2>2. PICK x \in {Ask("connect", None), Ask("submit", c)} : Sends(calls, {x})
    BY <1>5 DEF Submit
  <2>3. x \in Call
    BY <1>n, <2>1, AskType
  <2> QED
    BY <1>5, <2>1, <2>2, <2>3, SendingType DEF Submit, Typed, TypeOK, session, store
<1>6. ASSUME NEW what \in {"load", "validate", "acquire", "clear"}, NEW c \in Maybe(Cookie),
             Settings(what, c)
      PROVE  Typed'
  <2>1. active # None
    BY <1>6 DEF Settings, Acts
  <2>2. Ask(what, c) \in Call /\ Ask(what, c).what = what
    BY <2>1, AskType
  <2> QED
    BY <1>6, <2>1, <2>2, SendingType DEF Settings, Askers, Typed, TypeOK, session, store
<1>7. ASSUME NEW k \in Account, CycleExpires(k) PROVE Typed'
  <2> DEFINE x == [what |-> "expiry", of |-> k, with |-> None, heard |-> TRUE, answer |-> "dead"]
  <2>1. x \in Call /\ x.what = "expiry"
    BY <1>n DEF Call
  <2>2. Sends(calls, {x}) /\ UNCHANGED <<session, store, page, sync>>
        /\ saved' \in [Account -> Maybe(Cookie)]
    BY <1>7 DEF CycleExpires, StrikesOff, Typed, TypeOK, Maybe
  <2> HIDE DEF x
  <2> QED
    BY <2>1, <2>2, SendingType DEF Askers, Typed, TypeOK, session, store
<1> QED
  BY <1>1, <1>2, <1>3, <1>4, <1>5, <1>6, <1>7 DEF Command

(* An answer changes a command, and what is saved. *)
LEMMA BackendType ==
  ASSUME Typed, NEW c \in calls, Backend(c)
  PROVE  Typed'
<1>0. c \in Call /\ c.of \in Account /\ c.with \in Maybe(Cookie)
  BY DEF Typed, TypeOK, Call
<1>1. PICK answer \in {"ok", "dead", "error"}, d \in Maybe(Cookie) :
        calls' = (calls \ {c}) \cup {[c EXCEPT !.answer = answer, !.with = d]}
  <2>1. ASSUME NEW answer \in {"ok", "dead", "error"}, Answers(c, answer)
        PROVE  calls' = (calls \ {c}) \cup {[c EXCEPT !.answer = answer, !.with = c.with]}
    <3>1. [c EXCEPT !.answer = answer] = [c EXCEPT !.answer = answer, !.with = c.with]
      BY <1>0 DEF Call
    <3> QED
      BY <2>1, <3>1 DEF Answers
  <2>2. saved[c.of] \in Maybe(Cookie)
    BY <1>0 DEF Typed, TypeOK
  <2> QED
    BY <1>0, <2>1, <2>2 DEF Backend, Serve, EnsureValid, ServeRead, ServeWrite, ServeFails
<1>2. /\ [c EXCEPT !.answer = answer, !.with = d] \in Call
      /\ [c EXCEPT !.answer = answer, !.with = d].heard = c.heard
      /\ [c EXCEPT !.answer = answer, !.with = d].what = c.what
  BY <1>0 DEF Call
<1>3. UNCHANGED <<session, store, page, sync, blamed>> /\ saved' \in [Account -> Maybe(Cookie)]
  <2>1. ASSUME NEW d2 \in Maybe(Cookie), ServeWrite(c, d2)
        PROVE  saved' \in [Account -> Maybe(Cookie)]
    BY <1>0, <2>1 DEF ServeWrite, Typed, TypeOK
  <2> QED
    BY <2>1 DEF Backend, Serve, EnsureValid, ServeRead, ServeWrite, ServeFails, StrikesOff,
           Typed, TypeOK, Maybe
<1> QED
  BY <1>1, <1>2, <1>3, TypedFrame DEF Typed, TypeOK, Heard, OnPage, store

(* A return takes a command away. *)
LEMMA ReturningType ==
  ASSUME Typed, calls' \subseteq calls, blamed' \subseteq Account,
         UNCHANGED <<session, saved, sync>>,
         entries' \in [Account -> Entry], shown' \in Maybe(Account),
         page' \in Page, page'.name = page.name, active = None => page' = NoPage
  PROVE  Typed'
BY TypedFrame DEF Typed, TypeOK, Heard, OnPage

LEMMA ReturnType ==
  ASSUME Typed, NEW c \in calls, Return(c)
  PROVE  Typed'
<1>0. /\ c \in Call /\ c.of \in Account /\ c.with \in Maybe(Cookie)
      /\ None \in Maybe(Cookie)
      /\ page \in Page /\ (active = None => page = NoPage)
      /\ blamed \subseteq Account
      /\ c.heard /\ c.what \in Askers => OnPage /\ active # None
  BY SessionType DEF Typed, TypeOK, Call, Maybe, Heard
<1>s. ASSUME \/ Caches(c.of, c.with) \/ Caches(c.of, None)
             \/ ClearSavedSteamCookies(c.of) \/ UNCHANGED store
      PROVE  entries' \in [Account -> Entry] /\ shown' \in Maybe(Account)
  BY <1>0, <1>s, StoreType DEF Typed
<1>1. CASE ReturnRead(c) \/ ReturnWrite(c) \/ Done(c)
  <2>1. /\ calls' \subseteq calls /\ blamed' \subseteq Account
        /\ UNCHANGED <<session, saved, page, sync>>
    BY <1>0, <1>1 DEF ReturnRead, ReturnWrite, Done, Gone
  <2>2. entries' \in [Account -> Entry] /\ shown' \in Maybe(Account)
    BY <1>1, <1>s DEF ReturnRead, ReturnWrite, Done
  <2> QED
    BY <1>0, <2>1, <2>2, ReturningType
<1>2. CASE Connected(c)
  <2>1. page' \in Page /\ page'.name = page.name /\ (active = None => page' = NoPage)
    <3>1. [page EXCEPT !.ref = c.with, !.connected = TRUE,
                       !.loaded = page.name = "inventory"] \in Page
      BY <1>0 DEF Page
    <3> QED
      BY <1>0, <1>2, <3>1 DEF Connected, Back, Askers, Page
  <2>2. CASE Save(c)
    <3> DEFINE x == [Ask("set", c.with) EXCEPT !.of = c.of]
    <3>1. x \in Call /\ x.what = "set"
      BY <1>0 DEF Ask, Call
    <3>2. /\ calls' = (calls \ {c}) \cup {x}
          /\ Sends(calls \ {c}, {x})
      BY <2>2 DEF Save, Sends
    <3>3. calls' \subseteq Call /\ blamed' \subseteq Account
      BY <3>1, <3>2, SendsType DEF Typed, TypeOK
    <3>4. entries' \in [Account -> Entry] /\ shown' \in Maybe(Account)
      BY <2>2, <1>s DEF Save
    <3> QED
      BY <1>2, <2>1, <3>1, <3>2, <3>3, <3>4, TypedFrame
         DEF Connected, Typed, TypeOK, Heard, OnPage, Askers
  <2>3. CASE Gone(c) /\ UNCHANGED store
    BY <1>0, <1>2, <1>s, <2>1, <2>3, ReturningType DEF Connected, Gone
  <2> QED
    BY <1>2, <2>2, <2>3 DEF Connected
<1>3. CASE Refused(c)
  <2>1. page' \in Page /\ page'.name = page.name /\ (active = None => page' = NoPage)
    <3>1. [page EXCEPT !.ref = None] \in Page /\ [page EXCEPT !.ref = None].name = page.name
      BY <1>0 DEF Page
    <3> QED
      BY <1>0, <1>3, <3>1, PageType DEF Refused, PageDrops, Back, Askers
  <2>2. entries' \in [Account -> Entry] /\ shown' \in Maybe(Account)
    BY <1>3, <1>s DEF Refused
  <2> QED
    BY <1>0, <1>3, <2>1, <2>2, ReturningType DEF Refused, Gone
<1>4. CASE Removed(c)
  <2>1. PICK gamer \in BOOLEAN :
          Gated([c EXCEPT !.what = "connect", !.answer = "none",
                       !.with = IF c.heard THEN page.ref ELSE c.with], gamer, calls \ {c})
    BY <1>4 DEF Removed
  <2> DEFINE x == [c EXCEPT !.what = "connect", !.answer = "none",
                       !.with = IF c.heard THEN page.ref ELSE c.with]
  <2>2. x \in Call /\ x.heard = c.heard
    BY <1>0, SessionType DEF Call
  <2>3. x.heard => OnPage
    BY <1>0, <1>4, <2>2 DEF Removed, Back, Askers
  <2> HIDE DEF x
  <2> QED
    BY <1>4, <2>1, <2>2, <2>3, GatedType DEF Removed, x
<1>5. CASE Expired(c) \/ ExpiryLost(c)
  <2>1. page' \in Page /\ page'.name = page.name
    BY <1>0, <1>5 DEF Expired, ExpiryLost, Page
  <2>2. active = None => page' = NoPage
    <3>1. NoPage.name # "farming"
      BY DEF NoPage
    <3> QED
      BY <1>0, <1>5, <3>1 DEF Expired, ExpiryLost
  <2>3. entries' \in [Account -> Entry] /\ shown' \in Maybe(Account)
    BY <1>5, <1>s DEF Expired, ExpiryLost
  <2>4. /\ blamed' \subseteq Account /\ UNCHANGED <<session, saved, sync>>
        /\ c.what \in {"expiry", "ended"} /\ \E first \in BOOLEAN : Follows(c, first)
    BY <1>0, <1>5 DEF Expired, ExpiryLost, Back
  <2>5. PICK first \in BOOLEAN : Follows(c, first)
    BY <2>4
  <2> DEFINE x == [c EXCEPT !.what = "ended", !.heard = first]
  <2>6. x \in Call /\ x.what = "ended"
    BY <1>0 DEF Call
  <2>7. calls' \subseteq calls \cup {x}
    BY <2>5 DEF Follows
  <2> HIDE DEF x
  <2>8. /\ calls' \subseteq Call
        /\ \A d \in calls' : d.heard /\ d.what \in Askers => OnPage'
    BY <2>1, <2>6, <2>7 DEF Typed, TypeOK, Heard, OnPage, Askers
  <2> QED
    BY <1>0, <2>1, <2>2, <2>3, <2>4, <2>8, TypedFrame DEF Typed, TypeOK, OnPage
<1> QED
  BY <1>1, <1>2, <1>3, <1>4, <1>5 DEF Return

LEMMA TypedStep == Typed /\ [Next]_vars => Typed'
<1> SUFFICES ASSUME Typed, [Next]_vars PROVE Typed'
  OBVIOUS
<1>1. CASE UNCHANGED vars
  BY <1>1 DEF vars, session, store, Typed, TypeOK, Heard, OnPage
<1> QED
  BY <1>1, NavigationType, CommandType, BackendType, ReturnType
     DEF Next, User, Navigation, Command

LEMMA TypedInit == Init => Typed
<1> SUFFICES ASSUME Init PROVE Typed
  OBVIOUS
<1>1. Blank \in Entry /\ NoPage \in Page
  BY DEF Blank, Entry, NoPage, Page, Maybe
<1> QED
  BY <1>1 DEF Init, Typed, TypeOK, Heard, Maybe, Of

(* Type correctness; and no page is mounted once nobody is signed in       *)
(* (DashboardShell is gone by then).                                       *)
THEOREM CookieTypes == Spec => []TypeOK
BY TypedInit, TypedStep, PTL DEF Spec, Typed

-----------------------------------------------------------------------------
(* What a step does to the commands, the cache and what is saved.          *)

(* Navigation cancels checks and tells pages to go, and no more. *)
Navigates ==
  /\ UNCHANGED <<saved, entries, blamed>>
  /\ \E S \in SUBSET calls :
       /\ \A c \in calls \ S : c.what = "check"
       /\ calls' = S \/ calls' = {Deaf(c) : c \in S}

(* A command is sent, or a request without a set ends at its gate. *)
Asks(k) ==
  \/ /\ UNCHANGED <<saved, entries, blamed, calls>>
  \/ /\ UNCHANGED saved /\ ClearSavedSteamCookies(k)
     /\ calls' = calls /\ UNCHANGED blamed
  \/ \E x \in Call :
       /\ x.of = k /\ Sends(calls, {x}) /\ UNCHANGED entries
       /\ \/ x.what = "expiry" /\ StrikesOff(k)
          \/ x.what # "set" /\ x.answer = "none" /\ UNCHANGED saved
       /\ x.what \in {"connect", "use", "auto", "expiry"} \/ x.with \in Maybe(Of(k))

LEMMA NavigationKeeps ==
  ASSUME Navigation
  PROVE  Navigates
<1>1. ASSUME calls' = {c \in calls : c.what # "check"} PROVE
             \E S \in SUBSET calls :
               (\A c \in calls \ S : c.what = "check") /\ calls' = S
  BY <1>1
<1>2. ASSUME NEW k \in Account, SignIn(k) \/ Switch(k) \/ SignOut(k) PROVE Navigates
  <2>1. UNCHANGED <<saved, entries, blamed>>
    BY <1>2 DEF SignIn, Switch, SignOut, store
  <2>2. CASE calls' = {c \in calls : c.what # "check"}
    BY <1>1, <2>1, <2>2 DEF Navigates
  <2>3. CASE calls' = calls
    BY <2>1, <2>3 DEF Navigates
  <2>4. CASE TurnOff
    BY <2>1, <2>4 DEF TurnOff, Navigates
  <2> QED
    BY <1>2, <2>2, <2>3, <2>4 DEF SignIn, Switch, SignOut, Turn
<1>3. CASE ClosePage
  BY <1>3 DEF ClosePage, Navigates, store
<1>4. ASSUME UNCHANGED <<saved, store, calls, blamed>> PROVE Navigates
  BY <1>4 DEF Navigates, store
<1> QED
  BY <1>2, <1>3, <1>4 DEF Navigation, OpenPage, ShowCache, session, store

LEMMA CommandAsks ==
  ASSUME Typed, SetsStayOwn, Sync \/ Command
  PROVE  \E k \in Account : Asks(k)
<1>n. None \in Maybe(Cookie) /\ View.cookies \in Maybe(Cookie)
      /\ \A k \in Account : None \in Maybe(Of(k))
  BY SessionType DEF Maybe, Entry
<1>s. ASSUME active # None, NEW x \in Call, x.of = active, x.answer = "none", x.what # "set",
             x.what \in {"connect", "use", "auto", "expiry"} \/ x.with \in Maybe(Of(active)),
             Sends(calls, {x}), UNCHANGED <<saved, entries>>
      PROVE  \E k \in Account : Asks(k)
  BY <1>s, SessionType DEF Asks
<1>e. ASSUME Sends(calls, {}) PROVE UNCHANGED <<calls, blamed>>
  BY <1>e DEF Sends
<1>1. CASE Sync
  <2>1. active # None /\ active \in Account /\ UNCHANGED <<saved, entries>>
    BY <1>1, SessionType DEF Sync, Typed
  <2>2. CASE Sends(calls, {})
    BY <1>e, <2>1, <2>2 DEF Asks
  <2>3. CASE Sends(calls, {Ask("check", None)})
    BY <1>n, <1>s, <2>1, <2>3, AskType
  <2> QED
    BY <1>1, <2>2, <2>3 DEF Sync
<1>2. CASE AutoConnect
  <2>1. active # None /\ active \in Account /\ UNCHANGED <<saved, entries>>
    BY <1>2, SessionType DEF AutoConnect, Due, store
  <2>2. CASE Sends(calls, {})
    BY <1>e, <2>1, <2>2 DEF Asks
  <2>3. ASSUME NEW c \in {None, View.cookies}, Sends(calls, {Ask("connect", c)})
        PROVE  \E k \in Account : Asks(k)
    BY <1>n, <1>s, <2>1, <2>3, AskType
  <2> QED
    BY <1>2, <2>2, <2>3 DEF AutoConnect
<1>3. CASE AutoFarm
  <2>1. active # None /\ active \in Account /\ entries[active].cookies \in Maybe(Cookie)
    BY <1>3, SessionType DEF AutoFarm, Acts, Typed, TypeOK, Entry
  <2> QED
    BY <1>3, <1>s, <2>1, AskType DEF AutoFarm, store
<1>4. CASE Use
  <2>1. active # None /\ active \in Account
    BY <1>4, SessionType DEF Use
  <2>2. PICK gamer \in BOOLEAN, what \in {"use", "connect"} :
          Gated(Ask(what, page.ref), gamer, calls)
    BY <1>4 DEF Use
  <2>3. /\ Ask(what, page.ref) \in Call /\ Ask(what, page.ref).of = active
        /\ Ask(what, page.ref).answer = "none" /\ Ask(what, page.ref).what = what
    BY <2>1, AskType, SessionType
  <2>4. UNCHANGED saved
    BY <1>4 DEF Use
  <2>5. CASE Sends(calls, {Ask(what, page.ref)}) /\ UNCHANGED store
    BY <1>s, <2>1, <2>3, <2>4, <2>5 DEF store
  <2>6. CASE ClearSavedSteamCookies(active) /\ calls' = calls /\ UNCHANGED blamed
    BY <2>1, <2>4, <2>6 DEF Asks
  <2> QED
    BY <2>2, <2>3, <2>5, <2>6 DEF Gated
<1>5. ASSUME NEW c \in Maybe(Cookie), Submit(c) PROVE \E k \in Account : Asks(k)
  <2>1. active # None /\ active \in Account /\ UNCHANGED <<saved, entries>>
    BY <1>5, SessionType DEF Submit, store
  <2>2. CASE Sends(calls, {Ask("connect", None)})
    BY <1>n, <1>s, <2>1, <2>2, AskType
  <2>3. CASE c \in Of(active) /\ Sends(calls, {Ask("submit", c)})
    <3>1. c \in Maybe(Of(active))
      BY <2>3 DEF Maybe
    <3> QED
      BY <1>s, <2>1, <2>3, <3>1, AskType
  <2> QED
    BY <1>5, <2>2, <2>3 DEF Submit
<1>6. ASSUME NEW what \in {"load", "validate", "acquire", "clear"}, NEW c \in Maybe(Cookie),
             Settings(what, c)
      PROVE  \E k \in Account : Asks(k)
  <2>1. active # None /\ c \in Maybe(Of(active)) /\ UNCHANGED <<saved, entries>>
    BY <1>6 DEF Settings, Acts, Maybe, store
  <2> QED
    BY <1>6, <1>s, <2>1, AskType DEF Settings
<1>7. ASSUME NEW k \in Account, CycleExpires(k) PROVE \E j \in Account : Asks(j)
  <2> DEFINE x == [what |-> "expiry", of |-> k, with |-> None, heard |-> TRUE, answer |-> "dead"]
  <2>1. x \in Call /\ x.what = "expiry" /\ x.of = k
    BY <1>n DEF Call
  <2>2. Sends(calls, {x}) /\ UNCHANGED entries /\ StrikesOff(k)
    BY <1>7 DEF CycleExpires, store
  <2> HIDE DEF x
  <2> QED
    BY <2>1, <2>2 DEF Asks
<1> QED
  BY <1>1, <1>2, <1>3, <1>4, <1>5, <1>6, <1>7 DEF Command

(* The backend answers a command; it may strike off what is saved, and it  *)
(* says so; it reads, and says what; it writes, and says what.             *)
Served(c, d) ==
  /\ UNCHANGED <<entries, blamed>>
  /\ calls' = (calls \ {c}) \cup {d}
  /\ d.what = c.what /\ d.of = c.of /\ d \in Call /\ c.answer = "none"
  /\ \/ /\ c.what \in Requests \cup {"acquire"} /\ d.with = c.with
        /\ d.answer = "dead" /\ StrikesOff(c.of)
     \/ c.what \in Requests /\ d.with = c.with /\ UNCHANGED saved
     \/ /\ c.what \notin Requests \cup {"expiry", "ended"} /\ d.with = c.with
        /\ d.answer = "error" /\ UNCHANGED saved
     \/ /\ c.what \in {"check", "load"} /\ d.answer = "ok"
        /\ d.with = saved[c.of] /\ UNCHANGED saved
     \/ /\ c.what \in {"set", "validate", "acquire", "clear"} /\ d.answer = "ok"
        /\ IF c.what = "acquire" THEN d.with \in Of(c.of) ELSE d.with = c.with
        /\ saved' = [saved EXCEPT ![c.of] = d.with]

LEMMA BackendServes ==
  ASSUME Typed, NEW c \in calls, Backend(c)
  PROVE  \E d \in Call : Served(c, d)
<1>0. c \in Call /\ c.of \in Account /\ c.with \in Maybe(Cookie) /\ saved[c.of] \in Maybe(Cookie)
  BY DEF Typed, TypeOK, Call
<1>a. ASSUME NEW answer \in {"ok", "dead", "error"}
      PROVE  /\ [c EXCEPT !.answer = answer] \in Call
             /\ [c EXCEPT !.answer = answer].what = c.what
             /\ [c EXCEPT !.answer = answer].of = c.of
             /\ [c EXCEPT !.answer = answer].with = c.with
             /\ [c EXCEPT !.answer = answer].answer = answer
  BY <1>0 DEF Call
<1>b. ASSUME NEW w \in Maybe(Cookie)
      PROVE  /\ [c EXCEPT !.answer = "ok", !.with = w] \in Call
             /\ [c EXCEPT !.answer = "ok", !.with = w].what = c.what
             /\ [c EXCEPT !.answer = "ok", !.with = w].of = c.of
             /\ [c EXCEPT !.answer = "ok", !.with = w].with = w
             /\ [c EXCEPT !.answer = "ok", !.with = w].answer = "ok"
  BY <1>0 DEF Call
<1>1. CASE Serve(c)
  <2>1. PICK answer \in {"ok", "dead", "error"} : Answers(c, answer)
    BY <1>1 DEF Serve
  <2> QED
    BY <1>1, <1>a, <2>1 DEF Serve, Open, Answers, Served, store
<1>2. CASE EnsureValid(c)
  BY <1>2, <1>a DEF EnsureValid, Open, Answers, Served, store
<1>3. CASE ServeRead(c)
  BY <1>0, <1>3, <1>b DEF ServeRead, Open, Served, store
<1>4. CASE ServeFails(c)
  BY <1>4, <1>a DEF ServeFails, Open, Answers, Served, store, Requests
<1>5. ASSUME NEW w \in Maybe(Cookie), ServeWrite(c, w) PROVE \E d \in Call : Served(c, d)
  <2>1. IF c.what = "acquire" THEN w \in Of(c.of) ELSE w = c.with
    BY <1>5 DEF ServeWrite
  <2> DEFINE d == [c EXCEPT !.answer = "ok", !.with = w]
  <2>2. d \in Call /\ d.what = c.what /\ d.of = c.of /\ d.with = w /\ d.answer = "ok"
    BY <1>b
  <2>3. /\ c.answer = "none" /\ c.what \in {"set", "validate", "acquire", "clear"}
        /\ UNCHANGED <<entries, blamed>> /\ calls' = (calls \ {c}) \cup {d}
        /\ saved' = [saved EXCEPT ![c.of] = w]
    BY <1>5 DEF ServeWrite, Open, store
  <2> HIDE DEF d
  <2> QED
    BY <2>1, <2>2, <2>3 DEF Served
<1> QED
  BY <1>1, <1>2, <1>3, <1>4, <1>5 DEF Backend

(* What the two changes of the cache do to it. *)
LEMMA CacheValues ==
  ASSUME Typed, NEW k \in Account, NEW w \in Maybe(Cookie)
  PROVE  /\ Caches(k, w) =>
              /\ entries'[k].checked /\ entries'[k].cookies = w
              /\ \A j \in Account \ {k} : entries'[j] = entries[j]
         /\ ClearSavedSteamCookies(k) =>
              /\ entries'[k].checked = entries[k].checked /\ entries'[k].cookies = None
              /\ \A j \in Account \ {k} : entries'[j] = entries[j]
<1>0. entries \in [Account -> Entry]
  BY DEF Typed, TypeOK
<1>1. /\ [entries[k] EXCEPT !.cookies = None].checked = entries[k].checked
      /\ [entries[k] EXCEPT !.cookies = None].cookies = None
  BY <1>0 DEF Entry
<1>2. ASSUME Caches(k, w)
      PROVE  /\ entries'[k].checked /\ entries'[k].cookies = w
             /\ \A j \in Account \ {k} : entries'[j] = entries[j]
  BY <1>0, <1>2 DEF Caches, UpdateEntry
<1>3. ASSUME ClearSavedSteamCookies(k)
      PROVE  /\ entries'[k] = [entries[k] EXCEPT !.cookies = None]
             /\ \A j \in Account \ {k} : entries'[j] = entries[j]
  BY <1>0, <1>3 DEF ClearSavedSteamCookies, UpdateEntry
<1> QED
  BY <1>1, <1>2, <1>3

LEMMA StrikeValues ==
  ASSUME Typed, NEW k \in Account, StrikesOff(k)
  PROVE  saved'[k] \in {saved[k], None} /\ \A j \in Account \ {k} : saved'[j] = saved[j]
BY DEF StrikesOff, Typed, TypeOK

(* What a return does: it may fill or clear the entry of its account, and  *)
(* save a set that worked or refresh the inventory.                        *)
Returned(c) ==
  /\ UNCHANGED <<saved, active, sync>>
  /\ \/ /\ Caches(c.of, c.with) /\ Gone(c) /\ c.answer = "ok"
        /\ c.what \in {"check", "load", "validate", "acquire", "clear"}
     \/ Caches(c.of, None) /\ Gone(c) /\ c.what = "check"
     \/ c.what = "submit" /\ c.answer = "ok" /\ Save(c)
     \/ ClearSavedSteamCookies(c.of) /\ Gone(c) /\ c.what # "check"
     \/ /\ UNCHANGED entries /\ Gone(c) /\ c.what # "check"
        /\ \/ c.what \in Requests /\ c.answer \in {"ok", "error"}
           \/ c.what \in {"load", "validate", "acquire", "clear"} /\ c.answer = "error"
           \/ c.what = "load" /\ c.answer = "dead"
           \/ c.what = "set" /\ c.answer = "ok"
           \/ c.what = "ended" /\ ~c.heard
     \/ /\ c.what = "expiry" /\ UNCHANGED blamed
        /\ \E x \in Call :
             /\ calls' = (calls \ {c}) \cup {x} /\ x.what = "ended" /\ x.of = c.of
             /\ ClearSavedSteamCookies(c.of) \/ (UNCHANGED entries /\ x.heard)
     \/ /\ UNCHANGED entries /\ calls' = calls \ {c} /\ blamed' = blamed \cup {c.of}
        /\ c.what # "check"
     \/ /\ c.what = "use" /\ c.answer = "ok" /\ UNCHANGED entries
        /\ \E x \in Call : x.what = "connect" /\ x.answer = "none" /\ x.of = c.of
                           /\ Sends(calls \ {c}, {x})

LEMMA ReturnReturns ==
  ASSUME Typed, NEW c \in calls, Return(c)
  PROVE  Returned(c)
<1>0. c \in Call /\ c.of \in Account /\ c.with \in Maybe(Cookie)
      /\ c.answer \in {"none", "ok", "dead", "error"}
  BY DEF Typed, TypeOK, Call
<1>1. CASE ReturnRead(c)
  BY <1>0, <1>1 DEF ReturnRead, Back, Returned, session, store
<1>2. CASE ReturnWrite(c)
  <2>0. /\ UNCHANGED <<saved, active, sync>> /\ c.what \in {"set", "validate", "acquire", "clear"}
        /\ calls' = calls \ {c}
    BY <1>2 DEF ReturnWrite, Back, session
  <2>1. CASE c.answer = "ok"
    BY <1>2, <2>0, <2>1 DEF ReturnWrite, Back, Returned, Gone, store
  <2>2. CASE c.answer = "dead" \/ (c.answer = "error" /\ c.what = "set")
    BY <1>2, <2>0, <2>2 DEF ReturnWrite, Returned, store
  <2>3. CASE c.answer = "error" /\ c.what # "set"
    BY <1>2, <2>0, <2>3 DEF ReturnWrite, Returned, Gone, store
  <2> QED
    BY <1>0, <1>2, <2>1, <2>2, <2>3 DEF ReturnWrite, Back
<1>3. CASE Connected(c)
  BY <1>0, <1>3 DEF Connected, Back, Returned, session, store, Requests
<1>4. CASE Refused(c) \/ Done(c)
  BY <1>0, <1>4 DEF Refused, Done, Dead, Back, Returned, session, store, Requests
<1>5. CASE Removed(c)
  <2> DEFINE x == [c EXCEPT !.what = "connect", !.answer = "none",
                       !.with = IF c.heard THEN page.ref ELSE c.with]
  <2>1. x \in Call /\ x.what = "connect" /\ x.answer = "none" /\ x.of = c.of
    BY <1>0, SessionType DEF Call
  <2>2. PICK gamer \in BOOLEAN : Gated(x, gamer, calls \ {c})
    BY <1>5 DEF Removed
  <2>3. c.what = "use" /\ c.answer = "ok" /\ UNCHANGED <<saved, active, sync>>
    BY <1>5 DEF Removed, Back, session
  <2> HIDE DEF x
  <2>4. CASE Sends(calls \ {c}, {x}) /\ UNCHANGED store
    BY <2>1, <2>3, <2>4 DEF Returned, store
  <2>5. CASE ClearSavedSteamCookies(x.of) /\ calls' = calls \ {c} /\ UNCHANGED blamed
    BY <2>1, <2>3, <2>5 DEF Returned, Gone
  <2> QED
    BY <2>2, <2>4, <2>5 DEF Gated
<1>6. CASE Expired(c) \/ ExpiryLost(c)
  <2>0. UNCHANGED <<saved, active, sync>> /\ c.what \in {"expiry", "ended"}
    BY <1>6 DEF Expired, ExpiryLost, Back, session
  <2>1. CASE c.what = "ended"
    BY <1>6, <2>0, <2>1 DEF Expired, ExpiryLost, Follows, Returned, Gone, store
  <2>2. CASE c.what = "expiry"
    <3>1. PICK first \in BOOLEAN :
            /\ Follows(c, first) /\ UNCHANGED blamed
            /\ (ClearSavedSteamCookies(c.of) \/ (UNCHANGED entries /\ first))
      BY <1>6, <2>2 DEF Expired, ExpiryLost, store
    <3> DEFINE x == [c EXCEPT !.what = "ended", !.heard = first]
    <3>2. x \in Call /\ x.what = "ended" /\ x.of = c.of /\ x.heard = first
      BY <1>0 DEF Call
    <3>3. calls' = (calls \ {c}) \cup {x}
      BY <2>2, <3>1 DEF Follows
    <3> HIDE DEF x
    <3> QED
      BY <2>0, <2>2, <3>1, <3>2, <3>3 DEF Returned
  <2> QED
    BY <2>0, <2>1, <2>2
<1> QED
  BY <1>1, <1>2, <1>3, <1>4, <1>5, <1>6 DEF Return

-----------------------------------------------------------------------------
(* Whose sets they are: what is about to be saved or cached belongs to the *)
(* account it is for, and what a page goes on with is never saved.         *)
Owns(c) == c.what \in {"connect", "use", "auto", "expiry", "ended"} \/ c.with \in Maybe(Of(c.of))

OwnInv == SetsStayOwn /\ \A c \in calls : Owns(c)

LEMMA OwnFrame ==
  ASSUME OwnInv,
         \A k \in Account : /\ saved'[k] = saved[k] \/ saved'[k] \in Maybe(Of(k))
                            /\ \/ entries'[k].cookies = entries[k].cookies
                               \/ entries'[k].cookies \in Maybe(Of(k)),
         \A c \in calls' :
           Owns(c) \/ \E d \in calls : c.what = d.what /\ c.with = d.with /\ c.of = d.of
  PROVE  OwnInv'
BY DEF OwnInv, SetsStayOwn, Owns, Maybe, Of

LEMMA OwnStep == Typed /\ OwnInv /\ [Next]_vars => OwnInv'
<1> SUFFICES ASSUME Typed, OwnInv, [Next]_vars PROVE OwnInv'
  OBVIOUS
<1>n. \A k \in Account : None \in Maybe(Of(k)) /\ None \in Maybe(Cookie)
  BY DEF Maybe
<1>1. ASSUME Navigates PROVE OwnInv'
  <2>1. \A c \in calls' : \E d \in calls : c.what = d.what /\ c.with = d.with /\ c.of = d.of
    BY <1>1, DeafType DEF Navigates, Typed, TypeOK
  <2> QED
    BY <1>1, <2>1, OwnFrame DEF Navigates
<1>2. ASSUME NEW k \in Account, Asks(k) PROVE OwnInv'
  <2>1. CASE UNCHANGED <<saved, entries, blamed, calls>>
    BY <2>1, OwnFrame
  <2>2. CASE UNCHANGED saved /\ ClearSavedSteamCookies(k) /\ calls' = calls
    <3>1. \A j \in Account : entries'[j].cookies \in {entries[j].cookies, None}
      BY <1>n, <2>2, CacheValues
    <3> QED
      BY <1>n, <2>2, <3>1, OwnFrame
  <2>3. ASSUME NEW x \in Call, x.of = k, Sends(calls, {x}), UNCHANGED entries,
               UNCHANGED saved \/ StrikesOff(k),
               x.what \in {"connect", "use", "auto", "expiry"} \/ x.with \in Maybe(Of(k))
        PROVE  OwnInv'
    <3>1. \A j \in Account : saved'[j] \in {saved[j], None}
      BY <2>3, StrikeValues
    <3>2. Owns(x) /\ calls' = calls \cup {x}
      BY <2>3 DEF Owns, Sends
    <3> QED
      BY <1>n, <2>3, <3>1, <3>2, OwnFrame
  <2> QED
    BY <1>2, <2>1, <2>2, <2>3 DEF Asks
<1>3. ASSUME NEW c \in calls, NEW d \in Call, Served(c, d) PROVE OwnInv'
  <2>0. c.of \in Account /\ Owns(c)
    BY DEF Typed, TypeOK, Call, OwnInv
  <2>1. \A j \in Account : saved'[j] = saved[j] \/ saved'[j] \in Maybe(Of(j))
    <3>1. CASE UNCHANGED saved
      BY <3>1
    <3>2. CASE StrikesOff(c.of)
      BY <1>n, <2>0, <3>2, StrikeValues
    <3>3. CASE /\ saved' = [saved EXCEPT ![c.of] = d.with]
               /\ c.what \in {"set", "validate", "acquire", "clear"}
               /\ IF c.what = "acquire" THEN d.with \in Of(c.of) ELSE d.with = c.with
      <4>1. d.with \in Maybe(Of(c.of))
        BY <2>0, <3>3 DEF Owns, Maybe
      <4> QED
        BY <2>0, <3>3, <4>1 DEF Typed, TypeOK
    <3> QED
      BY <1>3, <3>1, <3>2, <3>3 DEF Served
  <2>2. Owns(d) \/ (d.what = c.what /\ d.with = c.with /\ d.of = c.of)
    <3>1. CASE d.with = saved[c.of]
      BY <1>3, <2>0, <3>1 DEF Owns, Served, OwnInv, SetsStayOwn
    <3>2. CASE d.with \in Of(c.of)
      BY <1>3, <3>2 DEF Owns, Served, Maybe
    <3> QED
      BY <1>3, <3>1, <3>2 DEF Served
  <2> QED
    BY <1>3, <2>1, <2>2, OwnFrame DEF Served
<1>4. ASSUME NEW c \in calls, Returned(c) PROVE OwnInv'
  <2>0. c \in Call /\ c.of \in Account /\ c.with \in Maybe(Cookie) /\ Owns(c)
    BY DEF Typed, TypeOK, Call, OwnInv
  <2>1. ASSUME NEW w \in Maybe(Of(c.of)), w \in Maybe(Cookie), Caches(c.of, w)
        PROVE  \A j \in Account : entries'[j] = entries[j] \/ entries'[j].cookies \in Maybe(Of(j))
    BY <2>0, <2>1, CacheValues
  <2>2. ASSUME ClearSavedSteamCookies(c.of)
        PROVE  \A j \in Account : entries'[j] = entries[j] \/ entries'[j].cookies \in Maybe(Of(j))
    BY <1>n, <2>0, <2>2, CacheValues
  <2>3. \A j \in Account :
          entries'[j].cookies = entries[j].cookies \/ entries'[j].cookies \in Maybe(Of(j))
    BY <1>4, <1>n, <2>0, <2>1, <2>2 DEF Returned, Save, Owns
  <2>4. \A d \in calls' : Owns(d) \/ d \in calls
    <3>1. CASE c.what = "submit" /\ Save(c)
      <4> DEFINE x == [Ask("set", c.with) EXCEPT !.of = c.of]
      <4>1. x.of = c.of /\ x.with = c.with
        BY DEF Ask
      <4>2. calls' = (calls \ {c}) \cup {x}
        BY <3>1 DEF Save, Sends
      <4> QED
        BY <2>0, <3>1, <4>1, <4>2 DEF Owns
    <3>2. CASE calls' \subseteq calls
      BY <3>2
    <3>3. ASSUME NEW x \in Call, x.what = "connect", Sends(calls \ {c}, {x})
          PROVE  \A d \in calls' : Owns(d) \/ d \in calls
      BY <3>3 DEF Sends, Owns
    <3>4. ASSUME NEW x \in Call, x.what = "ended", calls' = (calls \ {c}) \cup {x}
          PROVE  \A d \in calls' : Owns(d) \/ d \in calls
      BY <3>4 DEF Owns
    <3> QED
      BY <1>4, <3>1, <3>2, <3>3, <3>4 DEF Returned, Gone
  <2> QED
    BY <1>4, <2>3, <2>4, OwnFrame DEF Returned
<1>5. CASE UNCHANGED vars
  BY <1>5, OwnFrame DEF vars, store
<1> QED
  BY <1>1, <1>2, <1>3, <1>4, <1>5, NavigationKeeps, CommandAsks, BackendServes, ReturnReturns
     DEF Next, User, Navigation, Command, OwnInv

(* No account's set is ever cached or saved for another account, whoever   *)
(* is active by the time it comes back (handleSubmit, useSteamCookiesSync, *)
(* the commands of steam_credentials).                                     *)
THEOREM SetsKeptOwn == Spec => []SetsStayOwn
<1>1. Init => OwnInv
  BY DEF Init, OwnInv, SetsStayOwn, Blank, Maybe, Of
<1> QED
  BY <1>1, TypedInit, TypedStep, OwnStep, PTL DEF Spec, OwnInv

-----------------------------------------------------------------------------
(* The check of an account is never lost: a return that takes a check away *)
(* has filled the entry, and only a change of the account cancels one.     *)
LEMMA ChecksFrame ==
  ASSUME ChecksEnd, UNCHANGED <<active, sync>>,
         active # None => (entries[active].checked => entries'[active].checked),
         active # None =>
           \A c \in calls : c.what = "check" /\ c.of = active =>
             entries'[active].checked \/ \E d \in calls' : d.what = "check" /\ d.of = active
  PROVE  ChecksEnd'
BY DEF ChecksEnd

LEMMA ChecksStep == Typed /\ OwnInv /\ ChecksEnd /\ [Next]_vars => ChecksEnd'
<1> SUFFICES ASSUME Typed, OwnInv, ChecksEnd, [Next]_vars PROVE ChecksEnd'
  OBVIOUS
<1>0. active # None => active \in Account
  BY SessionType
<1>1. ASSUME Navigation PROVE ChecksEnd'
  <2>1. CASE UNCHANGED <<active, sync>> /\ calls' = calls
    BY <1>1, <2>1, NavigationKeeps, ChecksFrame DEF Navigates
  <2>2. CASE ClosePage
    <3>1. \A c \in calls : Deaf(c) \in calls' /\ Deaf(c).what = c.what /\ Deaf(c).of = c.of
      BY <2>2, DeafType DEF ClosePage, Typed, TypeOK
    <3> QED
      BY <2>2, <3>1, ChecksFrame DEF ClosePage, session, store
  <2>3. CASE sync' \/ active' = None
    BY <2>3 DEF ChecksEnd
  <2> QED
    BY <1>1, <2>1, <2>2, <2>3
       DEF Navigation, SignIn, Switch, SignOut, Turn, TurnOff, OpenPage, ShowCache, session
<1>2. CASE Sync
  <2>1. active # None /\ active' = active /\ shown' = active /\ entries' = entries
    BY <1>2 DEF Sync, Typed, session
  <2>2. CASE entries[active].checked
    BY <2>1, <2>2 DEF ChecksEnd
  <2>3. CASE Sends(calls, {Ask("check", None)})
    <3>1. Ask("check", None) \in calls' /\ Ask("check", None).what = "check"
          /\ Ask("check", None).of = active
      BY <2>3 DEF Sends, Ask
    <3> QED
      BY <2>1, <3>1 DEF ChecksEnd
  <2> QED
    BY <1>2, <2>2, <2>3 DEF Sync
<1>3. ASSUME NEW k \in Account, Asks(k), UNCHANGED <<active, sync>> PROVE ChecksEnd'
  <2>1. calls \subseteq calls'
    BY <1>3 DEF Asks, Sends
  <2>2. \A j \in Account : entries'[j].checked = entries[j].checked
    <3>1. CASE UNCHANGED entries
      BY <3>1
    <3>2. CASE ClearSavedSteamCookies(k)
      <4>1. None \in Maybe(Cookie)
        BY DEF Maybe
      <4> QED
        BY <3>2, <4>1, CacheValues
    <3> QED
      BY <1>3, <3>1, <3>2 DEF Asks
  <2> QED
    BY <1>0, <1>3, <2>1, <2>2, ChecksFrame
<1>4. ASSUME NEW c \in calls, NEW d \in Call, Served(c, d), UNCHANGED <<active, sync>>
      PROVE  ChecksEnd'
  BY <1>4, ChecksFrame DEF Served
<1>5. ASSUME NEW c \in calls, Returned(c) PROVE ChecksEnd'
  <2>0. c.of \in Account /\ c.with \in Maybe(Cookie) /\ None \in Maybe(Cookie)
    BY DEF Typed, TypeOK, Call, Maybe
  <2>1. \A j \in Account : entries[j].checked => entries'[j].checked
    BY <1>5, <2>0, CacheValues DEF Returned, Save
  <2>2. calls \ {c} \subseteq calls'
    BY <1>5 DEF Returned, Gone, Save, Sends
  <2>3. c.what = "check" => entries'[c.of].checked
    BY <1>5, <2>0, CacheValues DEF Returned
  <2> QED
    BY <1>0, <1>5, <2>1, <2>2, <2>3, ChecksFrame DEF Returned
<1>6. CASE UNCHANGED vars
  BY <1>6, ChecksFrame DEF vars, session, store
<1>7. ASSUME Command PROVE ChecksEnd'
  <2>1. UNCHANGED <<active, sync>>
    BY <1>7 DEF Command, AutoConnect, AutoFarm, Use, Submit, Settings, CycleExpires, session
  <2> QED
    BY <1>3, <1>7, <2>1, CommandAsks DEF OwnInv
<1>8. ASSUME NEW c \in calls, Backend(c) PROVE ChecksEnd'
  <2>1. UNCHANGED <<active, sync>>
    BY <1>8 DEF Backend, Serve, EnsureValid, ServeRead, ServeWrite, ServeFails, session
  <2> QED
    BY <1>4, <1>8, <2>1, BackendServes
<1> QED
  BY <1>1, <1>2, <1>5, <1>6, <1>7, <1>8, ReturnReturns DEF Next, User, Navigation, Command

(* Whoever is signed in and not yet checked is being checked: no switch,   *)
(* failure or expired session leaves the pages waiting for a check that    *)
(* nobody has asked for (useSteamCookiesSync).                             *)
THEOREM ChecksAnswered == Spec => []ChecksEnd
<1>1. Init => OwnInv /\ ChecksEnd
  BY DEF Init, OwnInv, SetsStayOwn, ChecksEnd, Blank, Maybe, Of
<1> QED
  BY <1>1, TypedInit, TypedStep, OwnStep, ChecksStep, PTL DEF Spec

-----------------------------------------------------------------------------
(* Cache and credential store.  While the one command of an account is     *)
(* under way, they agree unless it says otherwise: it may bring what is    *)
(* saved, or the order to drop what is cached, or be about to save what is *)
(* cached already.                                                         *)
Reads == {"check", "load", "validate", "acquire", "clear"}

Agrees(k) == entries[k].cookies \in Maybe({saved[k]})

Steady(c) ==
  \/ c.what \in Requests /\ c.answer # "dead"
  \/ c.what \in {"check", "load"}
  \/ c.what \in {"validate", "acquire", "clear"} /\ c.answer \in {"none", "error"}
  \/ c.what = "set" /\ c.answer = "ok"
  \/ c.what = "ended" /\ ~c.heard

Sound(c) ==
  /\ Steady(c) => Agrees(c.of)
  /\ c.what \in Reads /\ c.answer = "ok" => c.with = saved[c.of]
  /\ c.what = "set" /\ c.answer = "none" => entries[c.of].cookies \in Maybe({c.with})

(* Two commands of an account that is not blamed never cross. *)
Apart == \A c, d \in calls : c.of = d.of /\ c.of \notin blamed => c = d

TrueInv == CacheTrue /\ Apart /\ \A c \in calls : c.of \notin blamed => Sound(c)

(* A step that is about one account. *)
LEMMA TrueFrame ==
  ASSUME Typed, TrueInv, NEW k \in Account,
         \A j \in Account \ {k} : entries'[j] = entries[j] /\ saved'[j] = saved[j],
         blamed \subseteq blamed',
         \A c \in calls' : c.of # k => c \in calls,
         \A c \in calls : c.of # k => c \in calls',
         k \notin blamed' =>
           /\ \A c, d \in calls' : c.of = k /\ d.of = k => c = d
           /\ \A c \in calls' : c.of = k => Sound(c)'
           /\ (\A c \in calls' : c.of # k) => Agrees(k)'
  PROVE  TrueInv'
<1>1. Apart'
  BY DEF TrueInv, Apart
<1>2. \A c \in calls' : c.of \notin blamed' => Sound(c)'
  <2> SUFFICES ASSUME NEW c \in calls', c.of \notin blamed' PROVE Sound(c)'
    OBVIOUS
  <2>1. CASE c.of # k
    <3>1. c \in calls /\ c.of \in Account /\ Sound(c)
      BY <2>1 DEF Typed, TypeOK, Call, TrueInv
    <3> QED
      BY <2>1, <3>1 DEF Sound, Agrees
  <2> QED
    BY <2>1
<1>3. CacheTrue'
  <2> SUFFICES ASSUME NEW j \in Account, j \notin blamed', \A c \in calls' : c.of # j
               PROVE  Agrees(j)'
    BY DEF CacheTrue, Agrees
  <2>1. CASE j # k
    BY <2>1 DEF TrueInv, CacheTrue, Agrees
  <2> QED
    BY <2>1
<1> QED
  BY <1>1, <1>2, <1>3 DEF TrueInv

(* An account that is not blamed and has nothing under way agrees. *)
LEMMA IdleAgrees ==
  ASSUME TrueInv, NEW k \in Account, k \notin blamed, \A c \in calls : c.of # k
  PROVE  Agrees(k)
BY DEF TrueInv, CacheTrue, Agrees

LEMMA TrueNavigation ==
  ASSUME Typed, TrueInv, Navigates
  PROVE  TrueInv'
<1>0. PICK S \in SUBSET calls :
        /\ \A c \in calls \ S : c.what = "check"
        /\ calls' = S \/ calls' = {Deaf(c) : c \in S}
  BY DEF Navigates
<1>1. \A c \in calls' : \E d \in S : /\ c.what = d.what /\ c.of = d.of /\ c.with = d.with
                                     /\ c.answer = d.answer
                                     /\ (d.what = "ended" => c.heard = d.heard)
                                     /\ c = d \/ c = Deaf(d)
  BY <1>0, DeafType DEF Typed, TypeOK
<1>2. \A d \in S : \E c \in calls' : c.of = d.of
  BY <1>0, DeafType DEF Typed, TypeOK
<1>3. Apart'
  <2> SUFFICES ASSUME NEW c \in calls', NEW d \in calls', c.of = d.of, c.of \notin blamed
               PROVE  c = d
    BY DEF Apart, Navigates
  <2>1. PICK c0 \in S, d0 \in S : c0.of = d0.of /\ c0.of \notin blamed
          /\ (calls' = S => c = c0 /\ d = d0) /\ (calls' # S => c = Deaf(c0) /\ d = Deaf(d0))
    BY <1>0, DeafType DEF Typed, TypeOK
  <2>2. c0 = d0
    BY <2>1 DEF TrueInv, Apart
  <2> QED
    BY <2>1, <2>2
<1>4. \A c \in calls' : c.of \notin blamed' => Sound(c)'
  <2> SUFFICES ASSUME NEW c \in calls', c.of \notin blamed PROVE Sound(c)'
    BY DEF Navigates
  <2>1. PICK d \in S : c.what = d.what /\ c.of = d.of /\ c.with = d.with /\ c.answer = d.answer
                       /\ (d.what = "ended" => c.heard = d.heard)
    BY <1>1
  <2>2. Sound(d)
    BY <2>1 DEF TrueInv
  <2> QED
    BY <2>1, <2>2 DEF Sound, Steady, Agrees, Navigates
<1>5. CacheTrue'
  <2> SUFFICES ASSUME NEW k \in Account, k \notin blamed, \A c \in calls' : c.of # k
               PROVE  Agrees(k)
    BY DEF CacheTrue, Agrees, Navigates
  <2>1. CASE \A c \in calls : c.of # k
    BY <2>1, IdleAgrees
  <2>2. CASE \E c \in calls : c.of = k
    <3>1. PICK c \in calls : c.of = k
      BY <2>2
    <3>2. c.what = "check"
      BY <1>0, <1>2, <3>1
    <3> QED
      BY <3>1, <3>2 DEF TrueInv, Sound, Steady
  <2> QED
    BY <2>1, <2>2
<1> QED
  BY <1>3, <1>4, <1>5 DEF TrueInv

LEMMA TrueCommand ==
  ASSUME Typed, TrueInv, NEW k \in Account, Asks(k)
  PROVE  TrueInv'
<1>n. None \in Maybe(Cookie) /\ \A S : None \in Maybe(S)
  BY DEF Maybe
<1>1. CASE UNCHANGED <<saved, entries, blamed, calls>>
  BY <1>1 DEF TrueInv, CacheTrue, Apart, Sound, Agrees
<1>2. CASE UNCHANGED saved /\ ClearSavedSteamCookies(k) /\ calls' = calls /\ UNCHANGED blamed
  <2>1. entries'[k].cookies = None /\ \A j \in Account \ {k} : entries'[j] = entries[j]
    BY <1>n, <1>2, CacheValues
  <2>2. Agrees(k)'
    BY <1>n, <2>1 DEF Agrees
  <2>3. \A c \in calls' : c.of = k /\ k \notin blamed' => Sound(c)'
    BY <1>n, <1>2, <2>1, <2>2 DEF TrueInv, Sound, Steady
  <2>4. k \notin blamed' => \A c, d \in calls' : c.of = k /\ d.of = k => c = d
    BY <1>2 DEF TrueInv, Apart
  <2> QED
    BY <1>2, <2>1, <2>2, <2>3, <2>4, TrueFrame
<1>3. ASSUME NEW x \in Call, x.of = k, Sends(calls, {x}), UNCHANGED entries,
             \/ x.what = "expiry" /\ StrikesOff(k)
             \/ x.what # "set" /\ x.answer = "none" /\ UNCHANGED saved
      PROVE  TrueInv'
  <2>1. calls' = calls \cup {x} /\ blamed \subseteq blamed'
        /\ (k \notin blamed' => \A c \in calls : c.of # k)
    BY <1>3 DEF Sends
  <2>2. \A j \in Account \ {k} : saved'[j] = saved[j]
    BY <1>3, StrikeValues
  <2>3. k \notin blamed' => Sound(x)'
    <3> SUFFICES ASSUME k \notin blamed' PROVE Sound(x)'
      OBVIOUS
    <3>1. Agrees(k)
      BY <2>1, IdleAgrees
    <3>2. CASE x.what = "expiry"
      BY <3>2 DEF Sound, Steady, Requests, Reads
    <3>3. CASE x.what # "set" /\ x.answer = "none" /\ UNCHANGED saved
      BY <1>3, <3>1, <3>3 DEF Sound, Agrees
    <3> QED
      BY <1>3, <3>2, <3>3
  <2> QED
    BY <1>3, <2>1, <2>2, <2>3, TrueFrame
<1> QED
  BY <1>1, <1>2, <1>3 DEF Asks

LEMMA TrueBackend ==
  ASSUME Typed, TrueInv, NEW c \in calls, NEW d \in Call, Served(c, d)
  PROVE  TrueInv'
<1>0. c \in Call /\ c.of \in Account /\ d.of = c.of /\ d.what = c.what /\ c.answer = "none"
      /\ calls' = (calls \ {c}) \cup {d} /\ UNCHANGED <<entries, blamed>>
  BY DEF Typed, TypeOK, Call, Served
<1>1. \A j \in Account \ {c.of} : saved'[j] = saved[j]
  <2>1. CASE saved' = [saved EXCEPT ![c.of] = d.with]
    BY <2>1 DEF Typed, TypeOK
  <2> QED
    BY <1>0, <2>1, StrikeValues DEF Served
<1>2. c.of \notin blamed => Sound(d)'
  <2> SUFFICES ASSUME c.of \notin blamed PROVE Sound(d)'
    OBVIOUS
  <2>1. Sound(c)
    BY DEF TrueInv
  <2>2. CASE c.what \in Requests \cup {"acquire"} /\ d.answer = "dead"
    BY <1>0, <2>2 DEF Sound, Steady, Requests, Reads
  <2>3. CASE UNCHANGED saved /\ c.what \in Requests
    BY <1>0, <2>1, <2>3 DEF Sound, Steady, Agrees, Requests, Reads
  <2>4. CASE UNCHANGED saved /\ d.with = c.with /\ d.answer = "error" /\ c.what # "ended"
    BY <1>0, <2>1, <2>4 DEF Sound, Steady, Agrees, Requests, Reads
  <2>5. CASE UNCHANGED saved /\ c.what \in {"check", "load"} /\ d.with = saved[c.of]
    BY <1>0, <2>1, <2>5 DEF Sound, Steady, Agrees, Requests, Reads
  <2>6. CASE /\ c.what \in {"set", "validate", "acquire", "clear"} /\ d.answer = "ok"
             /\ IF c.what = "acquire" THEN d.with \in Of(c.of) ELSE d.with = c.with
             /\ saved' = [saved EXCEPT ![c.of] = d.with]
    <3>1. saved'[c.of] = d.with
      BY <1>0, <2>6 DEF Typed, TypeOK
    <3>2. CASE c.what = "set"
      BY <1>0, <2>1, <2>6, <3>1, <3>2 DEF Sound, Steady, Agrees, Requests, Reads
    <3>3. CASE c.what # "set"
      BY <1>0, <2>6, <3>1, <3>3 DEF Sound, Steady, Requests, Reads
    <3> QED
      BY <3>2, <3>3
  <2> QED
    BY <2>2, <2>3, <2>4, <2>5, <2>6 DEF Served
<1>3. c.of \notin blamed => \A e \in calls : e.of = c.of => e = c
  BY DEF TrueInv, Apart
<1> QED
  BY <1>0, <1>1, <1>2, <1>3, TrueFrame

LEMMA TrueReturn ==
  ASSUME Typed, TrueInv, NEW c \in calls, Returned(c)
  PROVE  TrueInv'
<1>n. None \in Maybe(Cookie) /\ \A S : None \in Maybe(S)
  BY DEF Maybe
<1>0. c \in Call /\ c.of \in Account /\ c.with \in Maybe(Cookie) /\ UNCHANGED saved
      /\ (c.of \notin blamed => Sound(c) /\ \A e \in calls : e.of = c.of => e = c)
  BY DEF Typed, TypeOK, Call, TrueInv, Apart, Returned
<1>1. \A j \in Account \ {c.of} : entries'[j] = entries[j]
  BY <1>0, <1>n, CacheValues DEF Returned, Save
<1>g. ASSUME calls' = calls \ {c}, blamed \subseteq blamed', c.of \notin blamed' => Agrees(c.of)'
      PROVE  TrueInv'
  <2>1. c.of \notin blamed' => \A e \in calls' : e.of # c.of
    BY <1>0, <1>g
  <2> QED
    BY <1>0, <1>1, <1>g, <2>1, TrueFrame
<1>x. ASSUME NEW x \in Call, x.of = c.of, calls' = (calls \ {c}) \cup {x}, blamed \subseteq blamed',
             c.of \notin blamed => Sound(x)'
      PROVE  TrueInv'
  <2>1. c.of \notin blamed' => \A e \in calls' : e.of = c.of => e = x
    BY <1>0, <1>x
  <2> QED
    BY <1>0, <1>1, <1>x, <2>1, TrueFrame
<1>2. CASE Caches(c.of, c.with) /\ Gone(c) /\ c.answer = "ok" /\ c.what \in Reads
  <2>1. c.of \notin blamed => Agrees(c.of)'
    BY <1>0, <1>2, CacheValues DEF Sound, Agrees, Maybe
  <2> QED
    BY <1>2, <1>g, <2>1 DEF Gone
<1>3. CASE (Caches(c.of, None) \/ ClearSavedSteamCookies(c.of)) /\ Gone(c)
  <2>1. Agrees(c.of)'
    BY <1>0, <1>n, <1>3, CacheValues DEF Agrees
  <2> QED
    BY <1>3, <1>g, <2>1 DEF Gone
<1>4. CASE c.what = "submit" /\ c.answer = "ok" /\ Save(c)
  <2> DEFINE y == [Ask("set", c.with) EXCEPT !.of = c.of]
  <2>0. y \in Call /\ y.of = c.of /\ y.with = c.with /\ y.what = "set" /\ y.answer = "none"
    BY <1>0 DEF Ask, Call
  <2>1. PICK x \in Call : /\ x.of = c.of /\ x.with = c.with /\ x.what = "set" /\ x.answer = "none"
                          /\ Sends(calls \ {c}, {x})
    BY <1>4, <2>0 DEF Save
  <2>2. entries'[c.of].cookies = c.with
    BY <1>0, <1>4, CacheValues DEF Save
  <2>3. Sound(x)'
    BY <2>1, <2>2 DEF Sound, Steady, Requests, Reads, Maybe
  <2> QED
    BY <1>x, <2>1, <2>3 DEF Sends
<1>5. CASE UNCHANGED entries /\ Gone(c) /\ Steady(c)
  <2>1. c.of \notin blamed => Agrees(c.of)'
    BY <1>0, <1>5 DEF Sound, Agrees
  <2> QED
    BY <1>5, <1>g, <2>1 DEF Gone
<1>6. CASE UNCHANGED entries /\ calls' = calls \ {c} /\ blamed' = blamed \cup {c.of}
  BY <1>6, <1>g
<1>7. ASSUME c.what = "use", c.answer = "ok", UNCHANGED entries,
             NEW x \in Call, x.what = "connect", x.answer = "none", x.of = c.of,
             Sends(calls \ {c}, {x})
      PROVE  TrueInv'
  <2>1. Steady(c)
    BY <1>7 DEF Steady, Requests
  <2>2. c.of \notin blamed => Sound(x)'
    BY <1>0, <1>7, <2>1 DEF Sound, Agrees, Reads
  <2> QED
    BY <1>7, <1>x, <2>2 DEF Sends
<1>8. ASSUME NEW x \in Call, x.of = c.of, x.what = "ended",
             calls' = (calls \ {c}) \cup {x}, UNCHANGED blamed,
             ClearSavedSteamCookies(c.of) \/ (UNCHANGED entries /\ x.heard)
      PROVE  TrueInv'
  <2>1. ClearSavedSteamCookies(c.of) => Agrees(c.of)'
    BY <1>0, <1>n, CacheValues DEF Agrees
  <2>2. Sound(x)'
    BY <1>8, <2>1 DEF Sound, Steady, Agrees, Requests, Reads
  <2> QED
    BY <1>8, <1>x, <2>2
<1> QED
  BY <1>2, <1>3, <1>4, <1>5, <1>6, <1>7, <1>8 DEF Returned, Steady, Reads

LEMMA TrueStep == Typed /\ OwnInv /\ TrueInv /\ [Next]_vars => TrueInv'
<1> SUFFICES ASSUME Typed, OwnInv, TrueInv, [Next]_vars PROVE TrueInv'
  OBVIOUS
<1>1. CASE UNCHANGED vars
  BY <1>1 DEF vars, store, TrueInv, CacheTrue, Apart, Sound, Agrees
<1>2. ASSUME NEW c \in calls, Backend(c) PROVE TrueInv'
  BY <1>2, BackendServes, TrueBackend
<1>3. ASSUME NEW c \in calls, Return(c) PROVE TrueInv'
  BY <1>3, ReturnReturns, TrueReturn
<1>4. ASSUME Navigation PROVE TrueInv'
  BY <1>4, NavigationKeeps, TrueNavigation
<1>5. ASSUME Sync \/ Command PROVE TrueInv'
  BY <1>5, CommandAsks, TrueCommand DEF OwnInv
<1> QED
  BY <1>1, <1>2, <1>3, <1>4, <1>5 DEF Next, User, Navigation, Command

(* A set that the backend has struck off or replaced does not live on in   *)
(* the cache once every command of its account has been heard, for any     *)
(* number of commands in flight, unless two of the same account crossed    *)
(* (clearSavedSteamCookies, ensure_valid).                                 *)
THEOREM CacheHonest == Spec => []CacheTrue
<1>1. Init => OwnInv /\ TrueInv
  BY DEF Init, OwnInv, SetsStayOwn, TrueInv, CacheTrue, Apart, Blank, Maybe, Of
<1> QED
  BY <1>1, TypedInit, TypedStep, OwnStep, TrueStep, PTL DEF Spec, TrueInv
=============================================================================
