--------------------------- MODULE MCAccountViews ---------------------------
(* Two accounts, symmetric: nothing orders them. *)
EXTENDS AccountViews, TLC

CONSTANTS a1, a2

Symmetry == Permutations(Account)
=============================================================================
