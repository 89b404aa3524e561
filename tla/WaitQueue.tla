------------------------------ MODULE WaitQueue ------------------------------
(***************************************************************************)
(* sleep_on, interruptible_sleep_on and wake_up of kernel/sched.c.         *)
(*                                                                         *)
(* A channel is one task pointer.  A sleeper saves the old value of the    *)
(* pointer in the local variable tmp, puts itself there, gives up the      *)
(* processor, and when it runs again makes *tmp runnable: the list of the  *)
(* sleepers of a channel lives in the kernel stacks of those sleepers.     *)
(* The kernel is not preemptive: a task keeps the processor until it calls *)
(* schedule; interrupt handlers, which may call wake_up, run wherever      *)
(* interrupts are enabled.                                                 *)
(***************************************************************************)
EXTENDS Naturals, FiniteSets

CONSTANTS
    Task,       \* task[1] .. task[NR_TASKS-1]
    Idle,       \* task[0]: never sleeps on a channel, its state is never used
    NULL,
    SChan,      \* channels slept on with sleep_on
    IChan,      \* channels slept on with interruptible_sleep_on
    IrqChan,    \* channels that an interrupt handler passes to wake_up
    OpenChan,   \* channels slept on without a cli() before
    TestChan    \* channels whose sleepers test current->signal first

Chan == SChan \cup IChan

ASSUME ChanAssumption ==
    /\ SChan \cap IChan = {}
    /\ IrqChan \subseteq Chan
    /\ OpenChan \subseteq SChan     \* tty_io.c and floppy.c use cli()
    /\ TestChan \subseteq IChan     \* tty_io.c does, floppy.c does not
    /\ Idle \notin Task /\ NULL \notin Task /\ Idle # NULL
    /\ NULL \notin Chan

VARIABLES
    q,          \* q[c]: the task pointer of channel c (*p)
    state,      \* task_struct.state
    signal,     \* signal[t]: task_struct.signal holds an unblocked signal
    current,    \* the task that has the processor
    pc,         \* where a task is in the functions of this module
    on,         \* on[t]: the argument of the call t is in
    tmp,        \* tmp[t]: the local variable of the call t is in
    woken       \* history: a wake_up reached on[t] since t was linked there

vars == <<q, state, signal, current, pc, on, tmp, woken>>

(* task_struct.state *)
RUNNING         == "TASK_RUNNING"
INTERRUPTIBLE   == "TASK_INTERRUPTIBLE"
UNINTERRUPTIBLE == "TASK_UNINTERRUPTIBLE"
ZOMBIE          == "TASK_ZOMBIE"
States == {RUNNING, INTERRUPTIBLE, UNINTERRUPTIBLE, ZOMBIE}

(* "read": tmp is loaded; "linked": *p = current is done; "asleep": in     *)
(* schedule(); "dead": do_exit has called schedule().                      *)
Points == {"run", "read", "linked", "asleep", "dead"}

Init ==
    /\ q = [c \in Chan |-> NULL]
    /\ state = [t \in Task |-> RUNNING]
    /\ signal = [t \in Task |-> FALSE]
    /\ current = Idle
    /\ pc = [t \in Task |-> "run"]
    /\ on = [t \in Task |-> NULL]
    /\ tmp = [t \in Task |-> NULL]
    /\ woken = [t \in Task |-> FALSE]

(* schedule(): tasks in TASK_INTERRUPTIBLE with a signal become runnable,  *)
(* then some runnable task gets the processor, task[0] if there is none.   *)
(* Which one depends on the counters, which the module Scheduler models.   *)
Scan(st) ==
    [t \in Task |-> IF st[t] = INTERRUPTIBLE /\ signal[t] THEN RUNNING ELSE st[t]]

Runnable(st) == {t \in Task : st[t] = RUNNING}

Schedule(st) ==
    /\ state' = Scan(st)
    /\ IF Runnable(Scan(st)) = {}
         THEN current' = Idle
         ELSE current' \in Runnable(Scan(st))

(* A mutant: tmp = p, without the dereference. *)
ReadPointer(t, c) ==
    /\ current = t /\ pc[t] = "run"
    /\ pc' = [pc EXCEPT ![t] = "read"]
    /\ on' = [on EXCEPT ![t] = c]
    /\ tmp' = [tmp EXCEPT ![t] = c]
    /\ UNCHANGED <<q, state, signal, current, woken>>

(* tmp = *p, the first access of both functions *)
ReadHead(t, c) ==
    /\ current = t /\ pc[t] = "run"
    /\ c \in TestChan => ~signal[t]
    /\ pc' = [pc EXCEPT ![t] = "read"]
    /\ on' = [on EXCEPT ![t] = c]
    /\ tmp' = [tmp EXCEPT ![t] = q[c]]
    /\ woken' = [woken EXCEPT ![t] = FALSE]
    /\ UNCHANGED <<q, state, signal, current>>

(* *p = current *)
LinkSelf(t) ==
    /\ current = t /\ pc[t] = "read"
    /\ q' = [q EXCEPT ![on[t]] = t]
    /\ pc' = [pc EXCEPT ![t] = "linked"]
    /\ UNCHANGED <<state, signal, current, on, tmp, woken>>

SleepState(c) == IF c \in IChan THEN INTERRUPTIBLE ELSE UNINTERRUPTIBLE

(* current->state = ...; schedule() *)
Suspend(t) ==
    /\ current = t /\ pc[t] = "linked"
    /\ pc' = [pc EXCEPT ![t] = "asleep"]
    /\ Schedule([state EXCEPT ![t] = SleepState(on[t])])
    /\ UNCHANGED <<q, signal, on, tmp, woken>>

MakeRunning(st, x) == IF x = NULL THEN st ELSE [st EXCEPT ![x] = RUNNING]

Leave(t) ==
    /\ pc' = [pc EXCEPT ![t] = "run"]
    /\ on' = [on EXCEPT ![t] = NULL]
    /\ tmp' = [tmp EXCEPT ![t] = NULL]
    /\ woken' = [woken EXCEPT ![t] = FALSE]

(* A mutant: the task returns without waking the one it found before it. *)
ReturnAlone(t) ==
    /\ current = t /\ pc[t] = "asleep" /\ on[t] \in SChan
    /\ Leave(t)
    /\ UNCHANGED <<q, state, signal, current>>

(* sleep_on after schedule(): if (tmp) tmp->state = 0 *)
ReturnSleepOn(t) ==
    /\ current = t /\ pc[t] = "asleep" /\ on[t] \in SChan
    /\ state' = MakeRunning(state, tmp[t])
    /\ Leave(t)
    /\ UNCHANGED <<q, signal, current>>

(* interruptible_sleep_on after schedule(): another task is at the head of *)
(* the channel: make it runnable and goto repeat.                          *)
RepeatInterruptible(t) ==
    LET h == q[on[t]] IN
    /\ current = t /\ pc[t] = "asleep" /\ on[t] \in IChan
    /\ h \notin {NULL, t}
    /\ Schedule([state EXCEPT ![h] = RUNNING, ![t] = INTERRUPTIBLE])
    /\ UNCHANGED <<q, signal, pc, on, tmp, woken>>

(* interruptible_sleep_on after schedule(): *p = NULL; wake tmp; return.   *)
ReturnInterruptible(t) ==
    /\ current = t /\ pc[t] = "asleep" /\ on[t] \in IChan
    /\ q[on[t]] \in {NULL, t}
    /\ q' = [q EXCEPT ![on[t]] = NULL]
    /\ state' = MakeRunning(state, tmp[t])
    /\ Leave(t)
    /\ UNCHANGED <<signal, current>>

(* A mutant: without *p = NULL. *)
WakeKeepingHead(c) ==
    /\ state' = MakeRunning(state, q[c])
    /\ woken' = [t \in Task |-> woken[t] \/ (on[t] = c /\ pc[t] \in {"linked", "asleep"})]
    /\ UNCHANGED <<q, signal, current, pc, on, tmp>>

(* wake_up(c).  The history variable records that the call was meant for   *)
(* every task linked on c.                                                 *)
wake_up(c) ==
    /\ state' = MakeRunning(state, q[c])
    /\ q' = [q EXCEPT ![c] = NULL]
    /\ woken' = [t \in Task |->
                   \/ woken[t]
                   \/ on[t] = c /\ pc[t] \in {"linked", "asleep"}]
    /\ UNCHANGED <<signal, current, pc, on, tmp>>

WakeByTask(t, c) ==
    /\ current = t /\ pc[t] = "run"
    /\ wake_up(c)

(* A mutant: the sleepers call no cli(). *)
NeverOff == TRUE

(* Between cli() and schedule() no handler runs; schedule() switches to a  *)
(* task with interrupts enabled, or to one that returns from its own call. *)
InterruptsOn ==
    IF current = Idle THEN TRUE
    ELSE pc[current] \in {"run", "dead"} \/ on[current] \in OpenChan

WakeByInterrupt(c) ==
    /\ c \in IrqChan
    /\ InterruptsOn
    /\ wake_up(c)

(* A signal is posted by a handler (tty_intr) or by another task (kill).   *)
SendSignal(t) ==
    /\ IChan # {}
    /\ InterruptsOn
    /\ pc[t] # "dead"
    /\ signal' = [signal EXCEPT ![t] = TRUE]
    /\ UNCHANGED <<q, state, current, pc, on, tmp, woken>>

(* ret_from_sys_call: the signal is delivered to the task.                 *)
TakeSignal(t) ==
    /\ current = t /\ pc[t] = "run" /\ signal[t]
    /\ signal' = [signal EXCEPT ![t] = FALSE]
    /\ UNCHANGED <<q, state, current, pc, on, tmp, woken>>

(* do_exit: current->state = TASK_ZOMBIE; ...; schedule()                  *)
Exit(t) ==
    /\ current = t /\ pc[t] = "run"
    /\ pc' = [pc EXCEPT ![t] = "dead"]
    /\ Schedule([state EXCEPT ![t] = ZOMBIE])
    /\ UNCHANGED <<q, signal, on, tmp, woken>>

(* The timer interrupt of a task in user mode whose time slice is over.    *)
(* A dead task that was made runnable again returns from do_exit and goes  *)
(* on in user mode, where it can lose the processor in the same way.       *)
Preempt(t) ==
    /\ current = t /\ pc[t] \in {"run", "dead"}
    /\ Schedule(state)
    /\ UNCHANGED <<q, signal, pc, on, tmp, woken>>

(* for(;;) pause(): task[0] calls schedule() again and again.              *)
IdleLoop ==
    /\ current = Idle
    /\ Schedule(state)
    /\ UNCHANGED <<q, signal, pc, on, tmp, woken>>

TaskStep(t) ==
    \/ \E c \in Chan : ReadHead(t, c)
    \/ LinkSelf(t)
    \/ Suspend(t)
    \/ ReturnSleepOn(t)
    \/ RepeatInterruptible(t)
    \/ ReturnInterruptible(t)
    \/ \E c \in Chan : WakeByTask(t, c)
    \/ TakeSignal(t)
    \/ Exit(t)
    \/ Preempt(t)

Next ==
    \/ \E t \in Task : TaskStep(t)
    \/ \E c \in IrqChan : WakeByInterrupt(c)
    \/ \E t \in Task : SendSignal(t)
    \/ IdleLoop

Spec == Init /\ [][Next]_vars

(* The processor goes on executing, and schedule() does not pass over a    *)
(* runnable task for ever (the module Scheduler shows that the counters    *)
(* give this).  Nothing is assumed of sleeping, waking, signals or exits.  *)
Fairness ==
    /\ WF_vars(IdleLoop)
    /\ \A t \in Task :
        /\ WF_vars(LinkSelf(t) \/ Suspend(t))
        /\ WF_vars(ReturnSleepOn(t) \/ RepeatInterruptible(t) \/ ReturnInterruptible(t))
        /\ WF_vars(Preempt(t))
        /\ SF_vars(Next /\ current # t /\ current' = t)

FairSpec == Spec /\ Fairness

-----------------------------------------------------------------------------

TypeOK ==
    /\ q \in [Chan -> Task \cup {NULL}]
    /\ state \in [Task -> States]
    /\ signal \in [Task -> BOOLEAN]
    /\ current \in Task \cup {Idle}
    /\ pc \in [Task -> Points]
    /\ on \in [Task -> Chan \cup {NULL}]
    /\ tmp \in [Task -> Task \cup {NULL}]
    /\ woken \in [Task -> BOOLEAN]

Asleep(t) == pc[t] = "asleep"
Linked(t) == pc[t] \in {"linked", "asleep"}

(* The tasks that wake-ups starting from the task pointers in P will reach *)
(* through the tmp variables of sleepers: those in every set that P is in  *)
(* and that has the tmp of each of its sleepers.                           *)
Follows(S) == \A u \in S : Linked(u) /\ tmp[u] # NULL => tmp[u] \in S
Reach(P) ==
    {t \in Task : \A S \in SUBSET Task : P \subseteq S /\ Follows(S) => t \in S}

Blocked(t) == Asleep(t) /\ state[t] \in {INTERRUPTIBLE, UNINTERRUPTIBLE}

(* Parts of the invariant of a kernel that only has sleep_on, and that     *)
(* sleeps with interrupts off on what interrupt handlers wake.             *)
StateOK ==
    \A t \in Task :
        /\ pc[t] \in {"run", "read", "linked"} => state[t] = RUNNING
        /\ pc[t] = "asleep" => state[t] \in {RUNNING, UNINTERRUPTIBLE}
        /\ pc[t] = "dead" => state[t] = ZOMBIE
        /\ pc[t] \in {"read", "linked"} => current = t
        /\ current = t => state[t] = RUNNING
        /\ on[t] = NULL <=> pc[t] \in {"run", "dead"}
        /\ on[t] = NULL => tmp[t] = NULL
        /\ woken[t] => Asleep(t)

(* The head of a channel is its last sleeper, not woken yet.               *)
HeadOK ==
    \A c \in Chan : q[c] # NULL =>
        /\ on[q[c]] = c
        /\ ~woken[q[c]]
        /\ pc[q[c]] = "linked" \/ (Asleep(q[c]) /\ state[q[c]] = UNINTERRUPTIBLE)

(* tmp points to an earlier sleeper of the same channel, which is blocked  *)
(* and which nobody else points to, and a wake-up reaches both or none.    *)
TmpOK ==
    \A u \in Task : tmp[u] # NULL =>
        /\ on[tmp[u]] = on[u]
        /\ Asleep(tmp[u]) /\ state[tmp[u]] = UNINTERRUPTIBLE
        /\ woken[u] <=> woken[tmp[u]]
        /\ q[on[u]] = tmp[u] => pc[u] = "read"
        /\ \A v \in Task : tmp[v] = tmp[u] => v = u

EntryOK ==
    \A u \in Task :
        /\ pc[u] = "read" => tmp[u] = q[on[u]]
        /\ pc[u] = "linked" => q[on[u]] = u

(* A blocked task is the head of its channel or the tmp of another task.   *)
HeldOK ==
    \A t \in Task : Blocked(t) => q[on[t]] = t \/ \E u \in Task : tmp[u] = t

(* sched.c:169: a task in sleep_on goes on only after it has been          *)
(* explicitly woken, that is after a wake_up of the channel it sleeps on.  *)
NoEarlyWake ==
    \A t \in Task :
        Asleep(t) /\ on[t] \in SChan /\ state[t] = RUNNING => woken[t]

(* The inductive invariant: it makes the pointers of a channel a chain of  *)
(* its sleepers, cut by wake_up into woken chains that unwind by           *)
(* themselves.                                                             *)
ChainInv == StateOK /\ HeadOK /\ TmpOK /\ EntryOK /\ HeldOK /\ NoEarlyWake

Reachable(t) ==
    t \in Reach(({q[on[t]]} \ {NULL}) \cup
                {u \in Task : Asleep(u) /\ state[u] = RUNNING})

(* No sleeper is lost: a blocked task can be reached from the head of its  *)
(* channel, or from a task that is runnable and still inside the function. *)
(* sched.h:186: wake_up wakes "the sleeping process"; with one pointer per *)
(* channel it does so for all of them only if the chain is never cut.      *)
NoLostSleeper ==
    \A t \in Task :
        Blocked(t) => Reachable(t)

(* The same for the sleepers that no signal can rescue, in a kernel where  *)
(* stray wake-ups of interruptible_sleep_on can hit any task.              *)
NoLostUninterruptible ==
    \A t \in Task : Asleep(t) /\ state[t] = UNINTERRUPTIBLE => Reachable(t)

(* From some point on nobody calls wake_up and no signal comes or goes.    *)
Quiet == <>[][signal' = signal /\ ~\E c \in Chan : wake_up(c)]_vars

(* sched.h:25: a signalled sleeper of interruptible_sleep_on can go and    *)
(* run its handler: it gets out of the function, or dies, however the      *)
(* other sleepers pass the wake on, even when nothing else happens.        *)
SignalReturns ==
    Quiet => \A t \in Task : (signal[t] /\ on[t] \in IChan) ~> (on[t] \notin IChan)

(* sched.h:35: a zombie has stopped running; nothing makes it run again.   *)
ZombieStays == [][\A t \in Task : state[t] = ZOMBIE => state'[t] = ZOMBIE]_vars

(* Every task that a wake_up was meant for returns from sleep_on.          *)
WokenReturns == \A t \in Task : woken[t] ~> ~woken[t]

WS == INSTANCE WaitSet WITH
        waiting <- [c \in Chan |-> {t \in Task : on[t] = c /\ Linked(t) /\ ~woken[t]}],
        released <- {t \in Task : woken[t]}

(* The queue of pointers implements the set of waiting tasks.              *)
ImplementsWaitSet == WS!Spec
=============================================================================
