-------------------------------- MODULE Fifo --------------------------------
(* What a pipe promises: a queue of at most Capacity bytes, each of which  *)
(* comes out once and in the order in which it went in.                    *)
EXTENDS Naturals, Sequences

CONSTANT Capacity

VARIABLES queue, received     \* bytes are numbered in the order of writing

Init == queue = <<>> /\ received = <<>>

Put ==
    /\ \E s \in 1..Capacity - Len(queue) :
          queue' = queue \o [i \in 1..s |-> Len(received) + Len(queue) + i]
    /\ UNCHANGED received

Take ==
    \E s \in 1..Len(queue) :
        /\ received' = received \o SubSeq(queue, 1, s)
        /\ queue' = SubSeq(queue, s + 1, Len(queue))

(* The last descriptor is closed, and what is in the queue is lost. *)
Discard == queue' = <<>> /\ received' = <<>>

Spec == Init /\ [][Put \/ Take \/ Discard]_<<queue, received>>
=============================================================================
