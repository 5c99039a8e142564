---- MODULE MCCatchUpSubscription ----
(* Model-checking instance of CatchUpSubscription. *)
EXTENDS CatchUpSubscription

====
