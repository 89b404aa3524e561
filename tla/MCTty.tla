------------------------------- MODULE MCTty -------------------------------
(* Tty with cooked modes, a raw mode that waits for two characters, and a *)
(* raw mode with a time limit.                                             *)
EXTENDS Tty, TLC

CONSTANTS t1, t2

Cooked0 == [canon |-> TRUE, echo |-> TRUE, isig |-> TRUE, timed |-> FALSE,
            min |-> 1]
Raw     == [canon |-> FALSE, echo |-> FALSE, isig |-> FALSE, timed |-> FALSE,
            min |-> 2]
Timed   == [canon |-> FALSE, echo |-> FALSE, isig |-> TRUE, timed |-> TRUE,
            min |-> 0]

AllModes == {Cooked0, Raw, Timed}
=============================================================================
