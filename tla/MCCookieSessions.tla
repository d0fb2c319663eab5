-------------------------- MODULE MCCookieSessions --------------------------
(* An agent account and a local one, each with a set of its own. *)
EXTENDS CookieSessions, TLC

CONSTANTS a1, l1, c1, d1

Owners == c1 :> a1 @@ d1 :> l1
=============================================================================
