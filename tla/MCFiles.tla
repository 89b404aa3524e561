------------------------------ MODULE MCFiles ------------------------------
(* Files with two tasks. *)
EXTENDS Files

CONSTANTS t1, t2

=============================================================================
