---------------------------- MODULE MCIdleTimers ----------------------------
(* TLC instance of IdleTimers.  Games are not symmetric (one is limited).  *)
EXTENDS IdleTimers, TLC

Symmetry == Permutations(Command)
=============================================================================
