---------------------------- MODULE MCResponder -----------------------------
(* Instances of Responder for TLC; the bounds are constants of the .cfg files. *)
EXTENDS Responder

NoTrouble == {}
AnyTrouble == Troubles
=============================================================================
