------------------------------ MODULE Scheduler ------------------------------
(***************************************************************************)
(* kernel/sched.c: schedule, do_timer and what they share with sleeping,   *)
(* sys_nice, sys_alarm and the end of a system call.                       *)
(*                                                                         *)
(* A task in user mode is preempted by the clock; one in kernel mode runs  *)
(* until it calls schedule itself, which every other module of this        *)
(* project relies on.  A sleeping task stays in kernel mode.               *)
(*                                                                         *)
(* The names every module has (Init, Next, ...) are prefixed here, because *)
(* SchedulerAndDisk_proofs extends this module and HardDisk together.      *)
(***************************************************************************)
EXTENDS Integers

CONSTANTS
    Task,           \* slots of task[] that are in use, without task 0
    NoAlarm,
    MaxPriority,    \* bound on what sys_nice is asked for
    MaxAlarm,       \* bound on the ticks sys_alarm is asked for
    Nicer,          \* tasks that call sys_nice
    Signalled       \* tasks that set alarms and are sent signals

ASSUME SchedulerAssumption ==
    /\ Task \subseteq Nat \ {0}
    /\ MaxPriority \in Nat \ {0} /\ MaxAlarm \in Nat
    /\ Nicer \subseteq Task /\ Signalled \subseteq Task
    /\ NoAlarm \notin Int

Idle == 0

VARIABLES
    state,      \* TASK_RUNNING, TASK_INTERRUPTIBLE or TASK_UNINTERRUPTIBLE
    counter,    \* ticks left of the time slice
    priority,
    alarm,      \* alarm - jiffies, not less than -1, or NoAlarm if none is set
    signal,     \* is there a signal that is not blocked?
    mode,       \* where the task is, or will go on when it runs
    current     \* the task that runs

schedVars == <<state, counter, priority, alarm, signal, mode, current>>

SchedInit ==
    /\ state = [t \in Task |-> "running"]
    /\ counter = [t \in Task |-> MaxPriority]
    /\ priority = [t \in Task |-> MaxPriority]
    /\ alarm = [t \in Task |-> NoAlarm]
    /\ signal = [t \in Task |-> FALSE]
    /\ mode = [t \in Task |-> "user"]
    /\ current = Idle

In(t, m) == current = t /\ mode[t] = m

-----------------------------------------------------------------------------
(* schedule *)

(* Mutant: the states of the tasks are not looked at. *)
ChoiceOfAll(t, S, left) == \A u \in Task : left[u] <= left[t]

(* The last of the tasks in S with the largest counter. *)
Choice(t, S, left) ==
    t \in S /\ \A u \in S : left[u] < left[t] \/ (left[u] = left[t] /\ u <= t)

(* Mutants: the old slice is not halved; every task gets a new slice       *)
(* whenever schedule is called.                                            *)
RefillMore(S, left) ==
    IF S # {} /\ \A t \in S : left[t] = 0
      THEN [t \in Task |-> left[t] + priority[t]] ELSE left
RefillAlways(S, left) == [t \in Task |-> (left[t] \div 2) + priority[t]]

(* The counters after schedule: a new slice for all tasks, those asleep    *)
(* too, if all that can run have used up theirs.  As priority is positive, *)
(* once is enough.                                                         *)
Refilled(S, left) ==
    IF S # {} /\ \A t \in S : left[t] = 0
      THEN [t \in Task |-> (left[t] \div 2) + priority[t]]
      ELSE left

(* schedule, called when the tasks are in the states st, with left in      *)
(* their counters and the alarms due: alarms and signals, then the choice. *)
Schedule(st, left, due) ==
    LET sig == [t \in Task |-> signal[t] \/ due[t] = -1]
        woken == [t \in Task |->
                    IF st[t] = "interruptible" /\ sig[t] THEN "running" ELSE st[t]]
        runnable == {t \in Task : woken[t] = "running"}
    IN
    /\ state' = woken
    /\ signal' = sig
    /\ alarm' = [t \in Task |-> IF due[t] = -1 THEN NoAlarm ELSE due[t]]
    /\ counter' = Refilled(runnable, left)
    /\ IF runnable = {} THEN current' = Idle
       ELSE current' \in Task /\ Choice(current', runnable, counter')
    /\ UNCHANGED priority

-----------------------------------------------------------------------------
(* do_timer.  Timers and floppy motors are left out. *)

(* The alarms one tick later. *)
Later ==
    [t \in Task |-> IF alarm[t] # NoAlarm /\ alarm[t] >= 0 THEN alarm[t] - 1 ELSE alarm[t]]

LessOne(t) == [counter EXCEPT ![t] = IF @ > 1 THEN @ - 1 ELSE 0]

NoSchedule(left, due) ==
    counter' = left /\ alarm' = due /\ UNCHANGED <<state, priority, signal, current>>

(* Mutant: schedule is called whatever the mode. *)
TickPreempts(t) ==
    LET left == LessOne(t) IN
    /\ current = t /\ mode[t] # "return"
    /\ IF left[t] > 0 THEN NoSchedule(left, Later) ELSE Schedule(state, left, Later)
    /\ UNCHANGED mode

(* Mutant: no schedule at the end of the slice. *)
TickCounts(t) ==
    current = t /\ NoSchedule(LessOne(t), Later) /\ UNCHANGED mode

(* A tick while t runs; schedule only at the end of its slice and from     *)
(* user mode.                                                              *)
Tick(t) ==
    LET left == LessOne(t) IN
    /\ current = t
    /\ IF left[t] > 0 \/ mode[t] # "user"
         THEN NoSchedule(left, Later) ELSE Schedule(state, left, Later)
    /\ mode' = [mode EXCEPT ![t] = IF @ = "user" THEN "return" ELSE @]

(* A tick while task 0 runs.  Its slice stays used up; the schedule that   *)
(* do_timer may call is the one its next pause calls.                      *)
IdleTick == current = Idle /\ NoSchedule(counter, Later) /\ UNCHANGED mode

(* Task 0 calls pause for ever. *)
IdlePause == current = Idle /\ Schedule(state, counter, alarm) /\ UNCHANGED mode

-----------------------------------------------------------------------------
(* System calls *)

Syscall(t) ==
    /\ In(t, "user")
    /\ mode' = [mode EXCEPT ![t] = "kernel"]
    /\ UNCHANGED <<state, counter, priority, alarm, signal, current>>

(* sleep_on, interruptible_sleep_on, sys_pause, sys_waitpid: st, schedule. *)
Sleep(t, st) ==
    /\ In(t, "kernel")
    /\ Schedule([state EXCEPT ![t] = st], counter, alarm)
    /\ UNCHANGED mode

(* sys_alarm, in ticks. *)
SysAlarm(t, ticks) ==
    /\ In(t, "kernel")
    /\ alarm' = [alarm EXCEPT ![t] = IF ticks > 0 THEN ticks ELSE NoAlarm]
    /\ UNCHANGED <<state, counter, priority, signal, mode, current>>

(* Mutant: sys_nice lets the priority drop to zero. *)
SysNiceToZero(t, increment) ==
    /\ In(t, "kernel")
    /\ priority[t] - increment \in 0..MaxPriority
    /\ priority' = [priority EXCEPT ![t] = @ - increment]
    /\ UNCHANGED <<state, counter, alarm, signal, mode, current>>

SysNice(t, increment) ==
    /\ In(t, "kernel")
    /\ priority[t] - increment \in 1..MaxPriority
    /\ priority' = [priority EXCEPT ![t] = @ - increment]
    /\ UNCHANGED <<state, counter, alarm, signal, mode, current>>

(* sys_kill, and the signals of the terminal. *)
SendSig(u) ==
    /\ signal' = [signal EXCEPT ![u] = TRUE]
    /\ UNCHANGED <<state, counter, priority, alarm, mode, current>>

(* wake_up, by a task or an interrupt. *)
WakeUp(u) ==
    /\ state[u] # "running"
    /\ state' = [state EXCEPT ![u] = "running"]
    /\ UNCHANGED <<counter, priority, alarm, signal, mode, current>>

(* The end of the system call: reschedule if the slice is used up. *)
EndCall(t) ==
    /\ In(t, "kernel")
    /\ IF counter[t] = 0 THEN Schedule(state, counter, alarm)
       ELSE UNCHANGED <<state, counter, priority, alarm, signal, current>>
    /\ mode' = [mode EXCEPT ![t] = "return"]

(* ret_from_sys_call: do_signal, and back to the user. *)
ReturnToUser(t) ==
    /\ In(t, "return")
    /\ \E more \in BOOLEAN :
          /\ more => signal[t]
          /\ signal' = [signal EXCEPT ![t] = more]
    /\ mode' = [mode EXCEPT ![t] = "user"]
    /\ UNCHANGED <<state, counter, priority, alarm, current>>

-----------------------------------------------------------------------------
Sleeps(t) == Sleep(t, "interruptible") \/ Sleep(t, "uninterruptible")

Clock == IdleTick \/ \E t \in Task : Tick(t)

SchedNext ==
    \/ Clock \/ IdlePause
    \/ \E t \in Task :
        \/ Syscall(t) \/ Sleeps(t) \/ EndCall(t) \/ ReturnToUser(t)
        \/ WakeUp(t)
    \/ \E t \in Nicer, increment \in -MaxPriority..MaxPriority : SysNice(t, increment)
    \/ \E t \in Signalled :
        SendSig(t) \/ \E ticks \in 0..MaxAlarm : SysAlarm(t, ticks)

SchedSpec == SchedInit /\ [][SchedNext]_schedVars

(* The clock ticks, task 0 pauses, and a system call ends or sleeps.       *)
SchedFairSpec ==
    /\ SchedSpec
    /\ WF_schedVars(Clock) /\ WF_schedVars(IdlePause)
    /\ \A t \in Task : WF_schedVars(EndCall(t) \/ Sleeps(t)) /\ WF_schedVars(ReturnToUser(t))

-----------------------------------------------------------------------------
SchedTypeOK ==
    /\ state \in [Task -> {"running", "interruptible", "uninterruptible"}]
    /\ counter \in [Task -> Nat]
    /\ priority \in [Task -> 1..MaxPriority]
    /\ alarm \in [Task -> -1..MaxAlarm \cup {NoAlarm}]
    /\ signal \in [Task -> BOOLEAN]
    /\ mode \in [Task -> {"user", "kernel", "return"}]
    /\ current \in Task \cup {Idle}

(* sched.c:155: however often a sleeping task gets a new slice without     *)
(* using the old one, it has less than two slices.                         *)
CounterBound == \A t \in Task : counter[t] < 2 * MaxPriority

(* The task that runs can run, and a task that sleeps sleeps in the        *)
(* kernel; so a task in user mode or on its way there is never found       *)
(* asleep (sched.c:149).                                                   *)
CurrentRuns ==
    \A t \in Task :
        /\ current = t => state[t] = "running"
        /\ state[t] # "running" => mode[t] = "kernel"

(* sched.c:362: a task that executes kernel code keeps the processor until *)
(* it sleeps or its system call ends.                                      *)
NonPreemptive ==
    [][\A t \in Task : In(t, "kernel") /\ current' # t =>
          Sleeps(t) \/ EndCall(t)]_schedVars

(* Every task that can run does so some time: neither new slices for the   *)
(* sleepers nor tasks that sleep before the clock ticks can keep it away.  *)
EveryTaskRuns == \A t \in Task : (state[t] = "running") ~> (current = t)

(* pause() and every other interruptible sleep of a task that has set an   *)
(* alarm ends.                                                             *)
AlarmEndsPause ==
    \A t \in Task :
        (state[t] = "interruptible" /\ alarm[t] # NoAlarm) ~> (current = t)
=============================================================================
