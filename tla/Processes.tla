------------------------------ MODULE Processes ------------------------------
(***************************************************************************)
(* The life of processes: kernel/fork.c, kernel/exit.c, kernel/signal.c,   *)
(* sys_setsid and sys_setpgid of kernel/sys.c and the return of a system   *)
(* call in kernel/system_call.s.                                           *)
(*                                                                         *)
(* Code in the kernel is not preempted (module Scheduler), so each action  *)
(* goes from a point where other tasks may run to the next.  Memory and    *)
(* files of a process are left out, but do_exit may sleep to close them.   *)
(* Task 1 runs init() of init/main.c, as root; the others are programs of  *)
(* one ordinary user that make any call.  TASK_STOPPED, which nothing      *)
(* sets, does not occur.                                                   *)
(***************************************************************************)
EXTENDS Integers, FiniteSetsExt

CONSTANTS
    NR_TASKS,   \* task[0], which never forks again or exits, is left out
    MaxPid,     \* the last pid before they start again at 1
    NULL,       \* the content of a free slot
    Sent,       \* the signals that programs send
    Caught,     \* the signals whose action programs set
    Mask,       \* the sets of signals that programs block
    WaitFor,    \* what programs give to waitpid, next to -1
    Group,      \* the groups that programs move processes to
    MaxCalls    \* bound on calls other than fork, exit, execve and waitpid

SIGHUP == 1
SIGKILL == 9
SIGCHLD == 17
Signal == {SIGHUP, SIGKILL, SIGCHLD}

Slot == 1 .. NR_TASKS - 1
Pid == 1 .. MaxPid

ASSUME ProcessesAssumption ==
    /\ NR_TASKS \in Nat /\ NR_TASKS > 1
    /\ MaxPid \in Nat /\ MaxPid >= NR_TASKS
    /\ Sent \subseteq Signal /\ Caught \subseteq Signal
    /\ Mask \subseteq SUBSET Signal
    /\ WaitFor \subseteq -MaxPid .. MaxPid /\ Group \subseteq Pid
    /\ MaxCalls \in Nat

(* What a slot in use holds. *)
Process ==
    [pid : Pid, father : Pid \union {0}, pgrp : Pid \union {0},
     session : Pid \union {0}, leader : BOOLEAN,
     signal : SUBSET Signal, blocked : SUBSET Signal,
     sigaction : [Signal -> [handler : {"default", "ignore", "function"},
                             mask : SUBSET Signal, once : BOOLEAN]],
     pc : {"user", "return", "waitpid", "exiting", "zombie"},
     waits : -MaxPid .. MaxPid]

ASSUME NullAssumption == NULL \notin Process

VARIABLES
    task,       \* the table of processes
    last_pid,
    shell,      \* the pid init waits for, or 0
    calls       \* calls made so far, of those that are bounded

vars == <<task, last_pid, shell, calls>>

(* sa_handler, with sa_mask and SA_ONESHOT where a function handles the    *)
(* signal.                                                                 *)
SIG_DFL == [handler |-> "default", mask |-> {}, once |-> FALSE]
SIG_IGN == [handler |-> "ignore", mask |-> {}, once |-> FALSE]
Handler(mask, once) == [handler |-> "function", mask |-> mask, once |-> once]

Init ==
    /\ task = [s \in Slot |-> IF s # 1 THEN NULL ELSE
                [pid |-> 1, father |-> 0, pgrp |-> 0, session |-> 0, leader |-> FALSE,
                 signal |-> {}, blocked |-> {}, sigaction |-> [n \in Signal |-> SIG_DFL],
                 pc |-> "user", waits |-> 0]]
    /\ last_pid = 1
    /\ shell = 0
    /\ calls = 0

(* The slots in use, those of processes that live, and the zombies. *)
Used(t) == {s \in Slot : t[s] # NULL}
Zombies(t) == {s \in Used(t) : t[s].pc = "zombie"}
At(s, pc) == s \in Used(task) /\ task[s].pc = pc
Call(s) == At(s, "user") /\ calls < MaxCalls /\ s # 1 /\ calls' = calls + 1

(* The table t after signal n was sent to S.  Signals are sent to zombies  *)
(* as well.                                                                *)
Signalled(t, S, n) ==
    [s \in Slot |-> IF s \in S THEN [t[s] EXCEPT !.signal = @ \union {n}] ELSE t[s]]

Returned(t, s) == [t EXCEPT ![s].pc = "return", ![s].waits = 0]

-----------------------------------------------------------------------------
(* fork *)

After(p) == IF p = MaxPid THEN 1 ELSE p + 1

(* find_empty_process: the next pid after last_pid that no task has. *)
NextPid(t) ==
    LET free == Pid \ {t[s].pid : s \in Used(t)}
        distance(p) == (p - After(last_pid)) % MaxPid
    IN  CHOOSE p \in free : \A q \in free : distance(p) <= distance(q)

(* copy_process *)
Child(father, p) ==
    [father EXCEPT !.pid = p, !.father = father.pid, !.signal = {}, !.leader = FALSE,
                   !.pc = "user"]

(* sys_fork.  last_pid has moved also if there is no free slot, or no      *)
(* memory.                                                                 *)
Fork(s) ==
    /\ At(s, "user")
    /\ s = 1 => shell = 0
    /\ last_pid' = NextPid(task)
    /\ UNCHANGED calls
    /\ \/ UNCHANGED shell /\ task' = Returned(task, s)
       \/ /\ Used(task) # Slot
          /\ task' = Returned([task EXCEPT ![Min(Slot \ Used(task))] =
                                    Child(task[s], last_pid')], s)
          /\ shell' = IF s = 1 THEN last_pid' ELSE shell

-----------------------------------------------------------------------------
(* exit *)

ChildrenOf(t, s) == {q \in Used(t) : t[q].father = t[s].pid}

(* Mutant: init is not told of zombies it gets. *)
GivenSilently(t, s) ==
    [q \in Slot |-> IF q \in ChildrenOf(t, s) THEN [t[q] EXCEPT !.father = 1] ELSE t[q]]

(* do_exit gives the children of task s to init, which is told if one of   *)
(* them is a zombie.                                                       *)
GivenToInit(t, s) ==
    LET given == [q \in Slot |-> IF q \in ChildrenOf(t, s)
                                   THEN [t[q] EXCEPT !.father = 1] ELSE t[q]]
    IN  IF ChildrenOf(t, s) \intersect Zombies(t) = {} THEN given
        ELSE Signalled(given, {1}, SIGCHLD)

(* do_exit up to where it closes files and may sleep. *)
Exiting(t, s) == [GivenToInit(t, s) EXCEPT ![s].pc = "exiting"]

(* sys_exit *)
Exit(s) ==
    /\ At(s, "user") /\ s # 1
    /\ task' = Exiting(task, s)
    /\ UNCHANGED <<last_pid, shell, calls>>

(* kill_session *)
SessionKilled(t, s) ==
    Signalled(t, {q \in Used(t) : t[q].session = t[s].session}, SIGHUP)

(* tell_father.  A process without father is not left to be waited for. *)
FatherTold(t, s) ==
    LET father == {q \in Used(t) : t[q].pid = t[s].father}
    IN  IF father = {} THEN [t EXCEPT ![s] = NULL]
        ELSE Signalled(t, {Min(father)}, SIGCHLD)

(* The rest of do_exit. *)
BecomeZombie(s) ==
    LET hungUp == IF task[s].leader THEN SessionKilled(task, s) ELSE task
    IN
    /\ At(s, "exiting")
    /\ task' = FatherTold([hungUp EXCEPT ![s].pc = "zombie"], s)
    /\ UNCHANGED <<last_pid, shell, calls>>

-----------------------------------------------------------------------------
(* waitpid *)

(* The children of s that waitpid(pid) waits for. *)
Matching(t, s, pid) ==
    {q \in ChildrenOf(t, s) \ {s} :
        \/ pid > 0 /\ t[q].pid = pid
        \/ pid = 0 /\ t[q].pgrp = t[s].pgrp
        \/ pid = -1
        \/ pid < -1 /\ t[q].pgrp = -pid}

(* Mutant: the caller sleeps without having looked. *)
SleepFirst(t, s, pid, nohang) ==
    /\ task' = [t EXCEPT ![s].pc = "waitpid", ![s].waits = pid]
    /\ UNCHANGED shell

(* sys_waitpid from repeat on: the zombie in the highest slot is released; *)
(* without one, but with children, the caller sleeps, unless WNOHANG.      *)
(* init compares the pid it gets with that of its shell.                   *)
LookForZombie(t, s, pid, nohang) ==
    LET children == Matching(t, s, pid)
        found == children \intersect Zombies(t)
    IN
    IF found # {} THEN
        /\ task' = Returned([t EXCEPT ![Max(found)] = NULL], s)
        /\ shell' = IF s = 1 /\ t[Max(found)].pid = shell THEN 0 ELSE shell
    ELSE
        /\ IF children # {} /\ ~nohang
             THEN task' = [t EXCEPT ![s].pc = "waitpid", ![s].waits = pid]
             ELSE task' = Returned(t, s)
        /\ UNCHANGED shell

(* sys_waitpid.  init waits for any child, and only while it has a shell. *)
Waitpid(s, pid, nohang) ==
    /\ At(s, "user")
    /\ s = 1 => shell # 0 /\ pid = -1 /\ ~nohang
    /\ LookForZombie(task, s, pid, nohang)
    /\ UNCHANGED <<last_pid, calls>>

(* Mutant: only the end of a child wakes the father. *)
WakesForChild(s) == SIGCHLD \in task[s].signal \ task[s].blocked

(* schedule wakes a task that sleeps interruptibly for any signal but the  *)
(* blocked ones; SIGKILL, of those here, is not _BLOCKABLE.                *)
Wakes(s) == task[s].signal \ (task[s].blocked \ {SIGKILL}) # {}

(* sys_waitpid after its schedule: SIGCHLD alone starts it again, any      *)
(* other signal ends it with EINTR.                                        *)
WaitpidWakes(s) ==
    LET t == [task EXCEPT ![s].signal = @ \ {SIGCHLD}] IN
    /\ At(s, "waitpid") /\ Wakes(s)
    /\ IF t[s].signal = {} THEN LookForZombie(t, s, t[s].waits, FALSE)
       ELSE task' = Returned(t, s) /\ UNCHANGED shell
    /\ UNCHANGED <<last_pid, calls>>

-----------------------------------------------------------------------------
(* kill *)

(* send_sig is allowed by init, which is root, and between the others.  *)
Allowed(s, q) == s = 1 \/ q # 1

(* The tasks that sys_kill sends a signal to.  pid = 0 compares the groups *)
(* with the pid of the caller.  The else of pid < -1 belongs to the if in  *)
(* the loop of pid = -1: there, the first success, from the last slot      *)
(* down, goes on with group 1 in the slots below, and pid < -1 reaches     *)
(* nobody.                                                                 *)
Killed(s, pid) ==
    LET others == {q \in Used(task) : Allowed(s, q)} IN
    CASE pid = 0 -> {q \in Used(task) : task[q].pgrp = task[s].pid}
      [] pid > 0 -> {q \in others : task[q].pid = pid}
      [] pid = -1 -> {q \in others : q = Max(others) \/ task[q].pgrp = 1}
      [] OTHER -> {}

(* sys_kill *)
Kill(s, pid, n) ==
    /\ Call(s)
    /\ n \in Sent
    /\ task' = Returned(Signalled(task, Killed(s, pid), n), s)
    /\ UNCHANGED <<last_pid, shell>>

-----------------------------------------------------------------------------
(* signal *)

(* sys_ssetmask: SIGKILL is taken out. *)
Ssetmask(s, mask) ==
    /\ Call(s)
    /\ task' = Returned([task EXCEPT ![s].blocked = mask \ {SIGKILL}], s)
    /\ UNCHANGED <<last_pid, shell>>

(* sys_signal, with a function that handles the signal once with no mask,  *)
(* SIG_IGN or SIG_DFL; sys_sigaction, with a function and a mask, to which *)
(* the signal itself is added.                                             *)
SetAction(s, n) ==
    /\ Call(s)
    /\ n \in Caught \ {SIGKILL}
    /\ \E action \in {SIG_DFL, SIG_IGN, Handler({}, TRUE)}
                       \union {Handler(mask \union {n}, FALSE) : mask \in Mask} :
         task' = Returned([task EXCEPT ![s].sigaction[n] = action], s)
    /\ UNCHANGED <<last_pid, shell>>

(* do_execve forgets the handlers, when it succeeds. *)
Execve(s) ==
    /\ At(s, "user") /\ s # 1
    /\ task' = Returned([task EXCEPT ![s].sigaction = [n \in Signal |-> SIG_DFL]], s)
    /\ UNCHANGED <<last_pid, shell, calls>>

(* do_signal for n in task s of t. *)
DoSignal(t, s, n) ==
    LET action == t[s].sigaction[n] IN
    IF action.handler = "ignore" \/ (action.handler = "default" /\ n = SIGCHLD)
      THEN [t EXCEPT ![s].pc = "user"]
    ELSE IF action.handler = "default" THEN Exiting(t, s)
    ELSE [t EXCEPT ![s].pc = "user",
                   ![s].sigaction[n] = IF action.once THEN SIG_DFL ELSE @,
                   ![s].blocked = @ \union action.mask]

Pending(s) == task[s].signal \ task[s].blocked

(* ret_from_sys_call: one signal, the lowest that is not blocked. *)
ReturnToUser(s) ==
    /\ At(s, "return")
    /\ task' = IF Pending(s) = {} THEN [task EXCEPT ![s].pc = "user"]
               ELSE LET n == Min(Pending(s))
                    IN  DoSignal([task EXCEPT ![s].signal = @ \ {n}], s, n)
    /\ UNCHANGED <<last_pid, shell, calls>>

(* The clock interrupts a program, which returns to it like a call does. *)
Tick(s) ==
    /\ At(s, "user") /\ Pending(s) # {}
    /\ task' = [task EXCEPT ![s].pc = "return"]
    /\ UNCHANGED <<last_pid, shell, calls>>

-----------------------------------------------------------------------------
(* Sessions and groups, sys.c *)

(* sys_setsid, without the tty.  A leader may not, as it is not root. *)
Setsid(s) ==
    LET pid == task[s].pid IN
    /\ Call(s)
    /\ ~task[s].leader
    /\ task' = Returned([task EXCEPT ![s].leader = TRUE, ![s].session = pid,
                                     ![s].pgrp = pid], s)
    /\ UNCHANGED <<last_pid, shell>>

(* sys_setpgid: no process of another session, and no leader, is moved to  *)
(* a group.  Programs do not move init.                                    *)
Setpgid(s, q, pgid) ==
    /\ Call(s)
    /\ q \in Used(task) \ {1}
    /\ ~task[q].leader /\ task[q].session = task[s].session
    /\ task' = Returned([task EXCEPT ![q].pgrp = pgid], s)
    /\ UNCHANGED <<last_pid, shell>>

-----------------------------------------------------------------------------
Next ==
    \E s \in Slot :
        \/ Fork(s) \/ Exit(s) \/ BecomeZombie(s)
        \/ \E pid \in WaitFor \union {-1}, nohang \in BOOLEAN : Waitpid(s, pid, nohang)
        \/ WaitpidWakes(s)
        \/ \E pid \in Pid \union {0, -1, -2}, n \in Sent : Kill(s, pid, n)
        \/ \E mask \in Mask : Ssetmask(s, mask)
        \/ \E n \in Signal : SetAction(s, n)
        \/ Execve(s) \/ ReturnToUser(s) \/ Tick(s) \/ Setsid(s)
        \/ \E q \in Slot, pgid \in Group : Setpgid(s, q, pgid)

Spec == Init /\ [][Next]_vars

(* The clock runs, files get closed, tasks that can run get their turn, and *)
(* init goes on with its loop.  Programs need not do anything.             *)
Fairness ==
    /\ \A s \in Slot :
         WF_vars(BecomeZombie(s)) /\ WF_vars(WaitpidWakes(s))
           /\ WF_vars(ReturnToUser(s)) /\ WF_vars(Tick(s))
    /\ WF_vars(Fork(1)) /\ WF_vars(Waitpid(1, -1, FALSE))

FairSpec == Spec /\ Fairness

(* Programs exit, sooner or later, and memory does not run out when init   *)
(* forks.                                                                  *)
QuietSpec ==
    /\ FairSpec
    /\ \A s \in Slot \ {1} : SF_vars(Exit(s))
    /\ SF_vars(Fork(1) /\ shell' # 0)

-----------------------------------------------------------------------------
(* The table and the counters have the expected types. *)
TypeOK ==
    /\ task \in [Slot -> Process \union {NULL}]
    /\ last_pid \in Pid
    /\ shell \in Pid \union {0}
    /\ calls \in 0 .. MaxCalls

(* No two processes have the same pid, also after pids started again at 1, *)
(* and each but init has a father that lives and has not yet given its     *)
(* children away: every exit has somebody to tell.                         *)
OneFather ==
    \A s \in Used(task) :
        /\ \A q \in Used(task) : task[q].pid = task[s].pid => q = s
        /\ s # 1 => \E f \in Used(task) \ {s} :
             task[f].pid = task[s].father /\ task[f].pc \notin {"exiting", "zombie"}

(* A process that sleeps in waitpid while there is a zombie that it waits  *)
(* for has a SIGCHLD to wake it, whether the zombie was its child when it  *)
(* died or was given to it by a father that exited.  With three processes  *)
(* beside init a zombie can be moved into the group that is waited for,    *)
(* and this fails.                                                         *)
ChildNotMissed ==
    \A s \in Used(task) :
        task[s].pc = "waitpid"
          /\ Matching(task, s, task[s].waits) \intersect Zombies(task) # {}
        => SIGCHLD \in task[s].signal

(* The process init takes for its shell exists and is its child: nobody    *)
(* else releases it, and its pid is not given away, so that init does not  *)
(* wait for a shell that is gone.                                          *)
ShellKnown ==
    shell # 0 => \E q \in Used(task) : task[q].pid = shell /\ task[q].father = 1

(* Who is whose child, and who knows of it. *)
FamilyInv == TypeOK /\ OneFather /\ ChildNotMissed /\ ShellKnown

(* A process with a SIGKILL that is not blocked, and no lower signal before *)
(* it, exits, wherever it is, unless a lower signal comes.                 *)
KillKills ==
    \A s \in Slot \ {1} :
        (s \in Used(task) /\ SIGKILL \in Pending(s) /\ task[s].pc # "zombie")
          ~> \/ s \notin Used(task) \/ task[s].pc = "zombie"
             \/ SIGHUP \in Pending(s)

(* A process that sleeps in waitpid with a zombie to wait for wakes up,    *)
(* unless it has blocked SIGCHLD.                                          *)
WaitEnds ==
    \A s \in Slot :
        (At(s, "waitpid") /\ SIGCHLD \notin task[s].blocked
           /\ Matching(task, s, task[s].waits) \intersect Zombies(task) # {})
          ~> ~At(s, "waitpid")

(* When the shell is gone init starts another. *)
ShellComesBack == shell = 0 ~> shell # 0

(* What the comment of sys_kill says: -1 is for every process but the      *)
(* first, -p for the group p.                                              *)
KillReaches ==
    \A s \in Used(task) \ {1} : At(s, "user") =>
        /\ Killed(s, -1) = {q \in Used(task) \ {1} : Allowed(s, q)}
        /\ \A p \in Pid \ {1} :
             Killed(s, -p) = {q \in Used(task) : Allowed(s, q) /\ task[q].pgrp = p}
=============================================================================
