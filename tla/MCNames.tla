------------------------------- MODULE MCNames -------------------------------
(* Instances of Names for TLC. *)
EXTENDS Names, TLC

CONSTANTS t1, t2, root, n1, n2, n3, a, b, p1, p2

Symmetry == Permutations(Task) \cup Permutations(Name) \cup Permutations(Pos)
=============================================================================
