---------------------------- MODULE MCIdleClaims ----------------------------
(* TLC instances of the registry: one agent account and the CLI account.   *)
EXTENDS IdleClaims, TLC

CONSTANTS agent, local

Symmetry == Permutations(App) \cup Permutations(Owner) \cup Permutations(Call)
=============================================================================
