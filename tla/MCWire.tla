------------------------------- MODULE MCWire -------------------------------
(* Three messages around both limits, for TLC. *)
EXTENDS Wire
=============================================================================
