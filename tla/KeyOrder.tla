------------------------------ MODULE KeyOrder ------------------------------
(***************************************************************************)
(* A JavaScript object used as a list (shared/stores/sessionStore.ts): its *)
(* keys enumerate in the order in which they were added, and assigning to  *)
(* a key it has already does not move it.                                  *)
(***************************************************************************)
EXTENDS FiniteSets

(* older holds a pair for every two keys, the one added first in front. *)
Listing(S) == [keys : SUBSET S, older : SUBSET (S \X S)]

Empty == [keys |-> {}, older |-> {}]

(* { ...o, [k]: value } *)
Put(o, k) ==
  [keys  |-> o.keys \cup {k},
   older |-> IF k \in o.keys THEN o.older ELSE o.older \cup (o.keys \X {k})]

(* The entries of o whose keys are in S, in their order. *)
Select(o, S) ==
  [keys  |-> o.keys \cap S,
   older |-> {p \in o.older : p[1] \in S /\ p[2] \in S}]

(* delete o[k], for each k in S *)
Drop(o, S) == Select(o, o.keys \ S)

(* { ...o, ...n } *)
Merge(o, n) ==
  LET new == Select(n, n.keys \ o.keys)
  IN  [keys  |-> o.keys \cup new.keys,
       older |-> o.older \cup new.older \cup (o.keys \X new.keys)]

(* Object.keys(o)[0] ?? none *)
IsOldest(o, k) == k \in o.keys /\ \A j \in o.keys \ {k} : <<k, j>> \in o.older

(* Mutant: undefined, not null. *)
MutFirst(o, none) ==
  IF \E k \in o.keys : IsOldest(o, k) THEN CHOOSE k \in o.keys : IsOldest(o, k) ELSE {}

First(o, none) ==
  IF \E k \in o.keys : IsOldest(o, k) THEN CHOOSE k \in o.keys : IsOldest(o, k) ELSE none
=============================================================================
