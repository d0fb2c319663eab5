------------------------- MODULE MCUnlockerSession -------------------------
(* TLC instance of UnlockerSession: a game of two achievements with an     *)
(* override of 1, and a game of one without: no scan reaches its override. *)
EXTENDS UnlockerSession, TLC

CONSTANTS g1, g2

Overrides == g1 :> 1 @@ g2 :> 2
Found == g1 :> 2 @@ g2 :> 1
=============================================================================
