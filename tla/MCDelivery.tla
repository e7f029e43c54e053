----------------------------- MODULE MCDelivery -----------------------------
(* Small instances of Delivery for TLC: a well-formed and a malformed command. *)
EXTENDS Delivery, TLC

CONSTANTS good, bad
=============================================================================
