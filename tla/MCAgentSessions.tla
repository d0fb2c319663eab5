-------------------------- MODULE MCAgentSessions ---------------------------
(* TLC instances of the agent sessions of one account. *)
EXTENDS AgentSessions, TLC

Symmetry == Permutations(Task)
=============================================================================
