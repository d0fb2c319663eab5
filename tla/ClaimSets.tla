----------------------------- MODULE ClaimSets -----------------------------
(***************************************************************************)
(* The data of the idle-claims registry for ONE account: a claim set maps  *)
(* each owner to the games it wants idling (src-tauri/src/idling/claims.rs,*)
(* type OwnerClaims).  A missing owner entry and an empty one mean the     *)
(* same thing to every reader, and both are {} here.  Game names are left  *)
(* out: no decision depends on them.                                       *)
(***************************************************************************)
EXTENDS Naturals, FiniteSets, FiniteSetsExt

CONSTANTS
  Owner,   \* "manual", "auto_idle", "achievement_unlocker", "card_farming"
  App,     \* app ids
  Cap      \* MAX_CONCURRENT_GAMES

ASSUME ClaimSetsAssumption == IsFiniteSet(App) /\ Cap \in Nat

OwnerClaims == [Owner -> SUBSET App]

Nobody == [o \in Owner |-> {}]

(* Every game some owner claims: what union_targets merges. *)
Union(oc) == UNION {oc[o] : o \in Owner}

(* Mutant: the union is not capped. *)
MutUncapped(games) == {games}

(* What union_targets may return.  The claims live in hash maps, so which  *)
(* games survive the cap is arbitrary.                                     *)
Announceable(games) ==
  kSubset(IF Cardinality(games) <= Cap THEN Cardinality(games) ELSE Cap, games)

(* The change each mutator makes to the claims of its account. *)
WithOwner(oc, o, games)     == [oc EXCEPT ![o] = games]
WithoutApp(oc, g)           == [o \in Owner |-> oc[o] \ {g}]
WithoutAppOf(oc, o, g)      == [oc EXCEPT ![o] = @ \ {g}]
WithoutOwner(oc, o)         == [oc EXCEPT ![o] = {}]
=============================================================================
