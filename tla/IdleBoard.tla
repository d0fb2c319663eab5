----------------------------- MODULE IdleBoard -----------------------------
(***************************************************************************)
(* What the idle-claims registry promises, without tasks, owners or locks  *)
(* (claims.rs:1-12): whatever a backend is told to idle is a union of ALL  *)
(* claims of its account - the union as it was when some claim changed,    *)
(* not older than the calls that still wait for their answer.  The board   *)
(* does not promise that the newest union is the one played last.          *)
(*                                                                         *)
(* `wanted` is the union of the claims, `offers` are the unions that have  *)
(* been computed and may still be announced, `playing` is what the backend *)
(* idles.  Losing games is always possible (a process dies, a daemon logs  *)
(* out); starting a game no offer names never is.                          *)
(***************************************************************************)
CONSTANTS
  Account, LocalAccount, App,
  Capped(_)   \* the sets that may stand for a union: capped, arbitrarily

VARIABLES wanted, offers, playing

bvars == <<wanted, offers, playing>>

Init ==
  /\ wanted = [a \in Account |-> {}]
  /\ offers = [a \in Account |-> {}]
  /\ playing = [a \in Account |-> {}]

(* The claims of a change, and the new union is on its way to the backend. *)
Ask(a) ==
  /\ \E games \in SUBSET App : \E targets \in Capped(games) :
       /\ wanted' = [wanted EXCEPT ![a] = games]
       /\ offers' = [offers EXCEPT ![a] = @ \cup {targets}]
  /\ UNCHANGED playing

(* An offer is answered; another call may still carry the same one. *)
Answered(a, targets) ==
  offers' \in {offers, [offers EXCEPT ![a] = @ \ {targets}]}

(* The backend takes an offer.  Only in CLI mode may some of the games     *)
(* fail to start, and none that idles already is interrupted.              *)
Play(a) ==
  /\ \E targets \in offers[a] :
       /\ Answered(a, targets)
       /\ \E started \in SUBSET targets :
            /\ targets \cap playing[a] \subseteq started
            /\ a \notin LocalAccount => started = targets
            /\ playing' = [playing EXCEPT ![a] = started]
  /\ UNCHANGED wanted

(* The announcement fails as a whole. *)
Refuse(a) ==
  /\ \E targets \in offers[a] : Answered(a, targets)
  /\ UNCHANGED <<wanted, playing>>

Lose ==
  /\ playing' \in [Account -> SUBSET App]
  /\ \A a \in Account : playing'[a] \subseteq playing[a]
  /\ UNCHANGED <<wanted, offers>>

(* The wipe of an update announces nothing. *)
Forget ==
  /\ wanted' = [a \in Account |-> {}]
  /\ UNCHANGED <<offers, playing>>

Next == (\E a \in Account : Ask(a) \/ Play(a) \/ Refuse(a)) \/ Lose \/ Forget

Spec == Init /\ [][Next]_bvars
=============================================================================
