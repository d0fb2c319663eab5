-------------------------- MODULE MCFarmingSession --------------------------
(* TLC instance of FarmingSession.                                         *)
EXTENDS FarmingSession, TLC

Symmetry == Permutations(Session) \cup Permutations(App) \cup Permutations(Click)
=============================================================================
