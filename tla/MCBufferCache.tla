---------------------------- MODULE MCBufferCache ----------------------------
(* Instances of BufferCache for TLC. *)
EXTENDS BufferCache, TLC

CONSTANTS t1, t2, t3, b1, b2, b3, b4

Symmetry == Permutations(Task) \cup Permutations(Block)
=============================================================================
