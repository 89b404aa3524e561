------------------------------ MODULE MCMemory ------------------------------
(* Two processes and a few frames, which are interchangeable; the first    *)
(* page comes from the file, the second is the stack.                      *)
EXTENDS Memory, TLC

Frames == Permutations(Frame)
=============================================================================
