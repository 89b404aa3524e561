------------------------------- MODULE WaitSet -------------------------------
(***************************************************************************)
(* What kernel/sched.c promises to the code that sleeps on a channel: the  *)
(* tasks waiting on a channel form a set; wake_up releases the whole set;  *)
(* a task goes on only after it has been released.  WaitQueue implements   *)
(* it with one pointer per channel and one local variable per sleeper.     *)
(***************************************************************************)
CONSTANTS Task, Chan

VARIABLES
    waiting,    \* waiting[c]: the tasks asleep on c that no wake_up has reached
    released    \* the tasks that a wake_up has reached and that have not gone on

vars == <<waiting, released>>

TypeOK ==
    /\ waiting \in [Chan -> SUBSET Task]
    /\ released \in SUBSET Task

Init ==
    /\ waiting = [c \in Chan |-> {}]
    /\ released = {}

Sleep(t, c) ==
    /\ t \notin released
    /\ \A d \in Chan : t \notin waiting[d]
    /\ waiting' = [waiting EXCEPT ![c] = @ \cup {t}]
    /\ UNCHANGED released

WakeAll(c) ==
    /\ waiting' = [waiting EXCEPT ![c] = {}]
    /\ released' = released \cup waiting[c]

Return(t) ==
    /\ t \in released
    /\ released' = released \ {t}
    /\ UNCHANGED waiting

Next ==
    \/ \E t \in Task, c \in Chan : Sleep(t, c)
    \/ \E c \in Chan : WakeAll(c)
    \/ \E t \in Task : Return(t)

Spec == Init /\ [][Next]_vars
=============================================================================
