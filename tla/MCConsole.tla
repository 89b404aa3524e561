----------------------------- MODULE MCConsole -----------------------------
(* A screen of three lines and two columns, on either kind of card. *)
EXTENDS Console
=============================================================================
