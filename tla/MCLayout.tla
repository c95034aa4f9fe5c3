------------------------------ MODULE MCLayout ------------------------------
(* Layout over every direction of up to MaxLen bytes. *)
EXTENDS Layout
=============================================================================
