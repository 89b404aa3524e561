------------------------------ MODULE MCInodes ------------------------------
(* Instances of Inodes for TLC. *)
EXTENDS Inodes, TLC

CONSTANTS t1, t2, t3, f1, f2, d1, d2, s1, s2, s3, s4, s5, s6, b1, b2, b3

Symmetry == Permutations(Slot) \cup Permutations(Block)
    \cup Permutations(File) \cup Permutations(Dir)
=============================================================================
