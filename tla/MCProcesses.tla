----------------------------- MODULE MCProcesses -----------------------------
(* init and two other processes. *)
EXTENDS Processes

MCWaitFor == {-2, 3}
=============================================================================
