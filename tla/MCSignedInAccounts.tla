------------------------ MODULE MCSignedInAccounts -------------------------
(* Accounts signed in to through a daemon, and local ones. *)
EXTENDS SignedInAccounts

CONSTANTS a1, a2, l1
=============================================================================
