----------------------- MODULE SchedulerAndDisk_proofs -----------------------
(***************************************************************************)
(* The scheduler, for any tasks and priorities, and the request list and   *)
(* the handlers of the hard disk, for any number of request slots, any     *)
(* blocks and any bound on errors.  The two share no variable.             *)
(***************************************************************************)
EXTENDS Scheduler, HardDisk, SequenceTheorems, WellFoundedInduction, TLAPS

-----------------------------------------------------------------------------
(* The scheduler. *)
States == {"running", "interruptible", "uninterruptible"}
Alarms == -1..MaxAlarm \cup {NoAlarm}

SchedInv == SchedTypeOK /\ CounterBound /\ CurrentRuns

(* Half the old slice and the priority are less than two slices.             *)
LEMMA HalfAndPriority ==
    ASSUME NEW c \in Nat, NEW p \in 1..MaxPriority, c < 2 * MaxPriority
    PROVE  (c \div 2) + p \in Nat /\ (c \div 2) + p < 2 * MaxPriority
<1>1. MaxPriority \in Nat
  BY SchedulerAssumption
<1>2. c \div 2 \in Nat /\ c \div 2 < MaxPriority
  BY <1>1
<1> QED
  BY <1>1, <1>2

(* What schedule leaves behind: counters below the bound, a task that can    *)
(* run, and nobody asleep who was not.                                       *)
LEMMA ScheduleLemma ==
    ASSUME SchedInv,
           NEW st \in [Task -> States], NEW left \in [Task -> Nat],
           NEW due \in [Task -> Alarms],
           \A t \in Task : left[t] < 2 * MaxPriority,
           Schedule(st, left, due)
    PROVE  /\ state' \in [Task -> States]
           /\ \A t \in Task : state'[t] # "running" => st[t] # "running"
           /\ counter' \in [Task -> Nat]
           /\ \A t \in Task : counter'[t] < 2 * MaxPriority
           /\ priority' = priority
           /\ alarm' \in [Task -> Alarms]
           /\ signal' \in [Task -> BOOLEAN]
           /\ current' \in Task \cup {Idle}
           /\ \A t \in Task : current' = t => state'[t] = "running"
<1> DEFINE sig == [t \in Task |-> signal[t] \/ due[t] = -1]
           woken == [t \in Task |->
                       IF st[t] = "interruptible" /\ sig[t] THEN "running" ELSE st[t]]
           runnable == {t \in Task : woken[t] = "running"}
<1>1. /\ state' = woken /\ signal' = sig
      /\ alarm' = [t \in Task |-> IF due[t] = -1 THEN NoAlarm ELSE due[t]]
      /\ counter' = Refilled(runnable, left)
      /\ IF runnable = {} THEN current' = Idle
         ELSE current' \in Task /\ Choice(current', runnable, counter')
      /\ priority' = priority
  BY DEF Schedule
<1>2. /\ state' \in [Task -> States]
      /\ \A t \in Task : state'[t] # "running" => st[t] # "running"
  BY <1>1 DEF States
<1>3. counter' \in [Task -> Nat] /\ \A t \in Task : counter'[t] < 2 * MaxPriority
  <2>1. \A t \in Task : (left[t] \div 2) + priority[t] \in Nat
                          /\ (left[t] \div 2) + priority[t] < 2 * MaxPriority
    BY HalfAndPriority DEF SchedInv, SchedTypeOK
  <2>2. CASE counter' = left
    BY <2>2
  <2>3. CASE counter' = [t \in Task |-> (left[t] \div 2) + priority[t]]
    BY <2>1, <2>3
  <2> QED
    BY <1>1, <2>2, <2>3 DEF Refilled
<1>4. alarm' \in [Task -> Alarms] /\ signal' \in [Task -> BOOLEAN]
  BY <1>1 DEF Alarms
<1>5. /\ current' \in Task \cup {Idle}
      /\ \A t \in Task : current' = t => state'[t] = "running"
  <2>1. CASE runnable = {}
    <3>1. current' = Idle /\ Idle \notin Task
      BY <1>1, <2>1, SchedulerAssumption DEF Idle
    <3> QED
      BY <3>1
  <2>2. CASE runnable # {}
    <3>1. current' \in runnable
      BY <1>1, <2>2 DEF Choice
    <3>2. current' \in Task /\ woken[current'] = "running"
      BY <3>1
    <3> QED
      BY <1>1, <3>2
  <2> QED
    BY <2>1, <2>2
<1> QED
  BY <1>1, <1>2, <1>3, <1>4, <1>5

(* The alarms and the counter after a tick have their types.                *)
LEMMA TickLemma ==
    ASSUME SchedInv, NEW t \in Task
    PROVE  /\ Later \in [Task -> Alarms]
           /\ LessOne(t) \in [Task -> Nat]
           /\ \A u \in Task : LessOne(t)[u] < 2 * MaxPriority
<1>1. Later \in [Task -> Alarms]
  <2>1. ASSUME NEW u \in Task
        PROVE  (IF alarm[u] # NoAlarm /\ alarm[u] >= 0 THEN alarm[u] - 1 ELSE alarm[u])
                 \in Alarms
    <3>1. alarm[u] \in Alarms /\ MaxAlarm \in Nat
      BY SchedulerAssumption DEF SchedInv, SchedTypeOK, Alarms
    <3>2. CASE alarm[u] # NoAlarm /\ alarm[u] >= 0
      BY <3>1, <3>2 DEF Alarms
    <3> QED
      BY <3>1, <3>2
  <2> QED
    BY <2>1 DEF Later
<1>2. counter \in [Task -> Nat] /\ \A u \in Task : counter[u] < 2 * MaxPriority
  BY DEF SchedInv, SchedTypeOK, CounterBound
<1>3. MaxPriority \in Nat \ {0}
  BY SchedulerAssumption
<1>4. ASSUME NEW u \in Task
      PROVE  LessOne(t)[u] \in Nat /\ LessOne(t)[u] < 2 * MaxPriority
  <2>1. CASE u = t
    BY <1>2, <1>3, <2>1 DEF LessOne
  <2>2. CASE u # t
    BY <1>2, <2>2 DEF LessOne
  <2> QED
    BY <2>1, <2>2
<1>5. LessOne(t) \in [Task -> Nat]
  <2>1. LessOne(t) = [u \in Task |-> LessOne(t)[u]]
    BY <1>2 DEF LessOne
  <2> QED
    BY <1>4, <2>1
<1> QED
  BY <1>1, <1>4, <1>5

LEMMA SchedInitInv == SchedInit => SchedInv
<1> SUFFICES ASSUME SchedInit PROVE SchedInv
  OBVIOUS
<1>1. MaxPriority \in Nat \ {0} /\ MaxPriority \in 1..MaxPriority
  BY SchedulerAssumption
<1>2. SchedTypeOK
  BY <1>1 DEF SchedInit, SchedTypeOK
<1>3. CounterBound
  <2>1. MaxPriority < 2 * MaxPriority
    BY <1>1
  <2>2. \A t \in Task : counter[t] = MaxPriority
    BY DEF SchedInit
  <2> QED
    BY <2>1, <2>2 DEF CounterBound
<1>4. CurrentRuns
  <2>1. Idle \notin Task
    BY SchedulerAssumption DEF Idle
  <2> QED
    BY <2>1 DEF SchedInit, CurrentRuns
<1> QED
  BY <1>2, <1>3, <1>4 DEF SchedInv

LEMMA SchedNextInv == SchedInv /\ [SchedNext]_schedVars => SchedInv'
<1> SUFFICES ASSUME SchedInv, [SchedNext]_schedVars PROVE SchedInv'
  OBVIOUS
<1> USE DEF States, Alarms
<1>t. /\ state \in [Task -> States] /\ counter \in [Task -> Nat]
      /\ priority \in [Task -> 1..MaxPriority] /\ alarm \in [Task -> Alarms]
      /\ signal \in [Task -> BOOLEAN] /\ mode \in [Task -> {"user", "kernel", "return"}]
      /\ current \in Task \cup {Idle}
  BY DEF SchedInv, SchedTypeOK
<1>c. \A t \in Task : counter[t] < 2 * MaxPriority
  BY DEF SchedInv, CounterBound
<1>r. \A t \in Task : /\ current = t => state[t] = "running"
                      /\ state[t] # "running" => mode[t] = "kernel"
  BY DEF SchedInv, CurrentRuns
<1>1. ASSUME NEW t \in Task, Tick(t) PROVE SchedInv'
  <2>1. /\ Later \in [Task -> Alarms] /\ LessOne(t) \in [Task -> Nat]
        /\ \A u \in Task : LessOne(t)[u] < 2 * MaxPriority
    BY TickLemma
  <2>2. /\ current = t /\ state[t] = "running"
        /\ mode' = [mode EXCEPT ![t] = IF @ = "user" THEN "return" ELSE @]
    BY <1>1, <1>r DEF Tick
  <2>3. mode' \in [Task -> {"user", "kernel", "return"}]
          /\ \A u \in Task : u # t => mode'[u] = mode[u]
    BY <1>t, <2>2
  <2>4. CASE NoSchedule(LessOne(t), Later)
    BY <1>t, <1>r, <2>1, <2>2, <2>3, <2>4
      DEF NoSchedule, SchedInv, SchedTypeOK, CounterBound, CurrentRuns
  <2>5. CASE Schedule(state, LessOne(t), Later)
    <3>1. /\ state' \in [Task -> States]
          /\ \A u \in Task : state'[u] # "running" => state[u] # "running"
          /\ counter' \in [Task -> Nat]
          /\ \A u \in Task : counter'[u] < 2 * MaxPriority
          /\ priority' = priority /\ alarm' \in [Task -> Alarms]
          /\ signal' \in [Task -> BOOLEAN] /\ current' \in Task \cup {Idle}
          /\ \A u \in Task : current' = u => state'[u] = "running"
      BY <1>t, <2>1, <2>5, ScheduleLemma
    <3>2. SchedTypeOK' /\ CounterBound'
      BY <1>t, <2>3, <3>1 DEF SchedTypeOK, CounterBound
    <3>3. CurrentRuns'
      BY <1>r, <2>2, <2>3, <3>1 DEF CurrentRuns
    <3> QED
      BY <3>2, <3>3 DEF SchedInv
  <2> QED
    BY <1>1, <2>4, <2>5 DEF Tick
<1>2. CASE IdleTick
  <2>1. Later \in [Task -> Alarms]
    <3>1. CASE Task = {}
      BY <3>1 DEF Later
    <3>2. CASE Task # {}
      <4>1. PICK t \in Task : TRUE
        BY <3>2
      <4> QED
        BY <4>1, TickLemma
    <3> QED
      BY <3>1, <3>2
  <2> QED
    BY <1>2, <1>t, <1>c, <1>r, <2>1
      DEF IdleTick, NoSchedule, SchedInv, SchedTypeOK, CounterBound, CurrentRuns
(* The steps that end in schedule: tasks may only be put to sleep, and      *)
(* modes changed, where CurrentRuns allows it.                              *)
<1>s. ASSUME NEW st \in [Task -> States], Schedule(st, counter, alarm),
             mode' \in [Task -> {"user", "kernel", "return"}],
             \A t \in Task : st[t] # "running" => mode'[t] = "kernel"
      PROVE  SchedInv'
  <2>1. /\ state' \in [Task -> States]
        /\ \A u \in Task : state'[u] # "running" => st[u] # "running"
        /\ counter' \in [Task -> Nat]
        /\ \A u \in Task : counter'[u] < 2 * MaxPriority
        /\ priority' = priority /\ alarm' \in [Task -> Alarms]
        /\ signal' \in [Task -> BOOLEAN] /\ current' \in Task \cup {Idle}
        /\ \A u \in Task : current' = u => state'[u] = "running"
    BY <1>t, <1>c, <1>s, ScheduleLemma
  <2>2. SchedTypeOK' /\ CounterBound'
    BY <1>t, <1>s, <2>1 DEF SchedTypeOK, CounterBound
  <2>3. CurrentRuns'
    BY <1>s, <2>1 DEF CurrentRuns
  <2> QED
    BY <2>2, <2>3 DEF SchedInv
<1>3. CASE IdlePause
  BY <1>3, <1>t, <1>r, <1>s DEF IdlePause
<1>4. ASSUME NEW t \in Task, Syscall(t) PROVE SchedInv'
  BY <1>4, <1>t, <1>c, <1>r DEF Syscall, In, SchedInv, SchedTypeOK, CounterBound, CurrentRuns
<1>5. ASSUME NEW t \in Task, NEW x \in {"interruptible", "uninterruptible"}, Sleep(t, x)
      PROVE  SchedInv'
  <2> DEFINE st == [state EXCEPT ![t] = x]
  <2>1. st \in [Task -> States] /\ Schedule(st, counter, alarm)
    BY <1>5, <1>t DEF Sleep
  <2>2. mode' = mode /\ mode[t] = "kernel"
    BY <1>5 DEF Sleep, In
  <2>3. \A u \in Task : st[u] # "running" => mode'[u] = "kernel"
    BY <1>t, <1>r, <2>2
  <2> HIDE DEF st
  <2> QED
    BY <1>t, <1>s, <2>1, <2>2, <2>3
<1>6. ASSUME NEW t \in Task, EndCall(t) PROVE SchedInv'
  <2>1. /\ current = t /\ state[t] = "running"
        /\ mode' = [mode EXCEPT ![t] = "return"]
    BY <1>6, <1>r DEF EndCall, In
  <2>2. /\ mode' \in [Task -> {"user", "kernel", "return"}]
        /\ \A u \in Task : state[u] # "running" => mode'[u] = "kernel"
    BY <1>t, <1>r, <2>1
  <2>3. CASE Schedule(state, counter, alarm)
    BY <1>t, <1>s, <2>2, <2>3
  <2>4. CASE UNCHANGED <<state, counter, priority, alarm, signal, current>>
    BY <1>t, <1>c, <1>r, <2>2, <2>4 DEF SchedInv, SchedTypeOK, CounterBound, CurrentRuns
  <2> QED
    BY <1>6, <2>3, <2>4 DEF EndCall
<1>7. ASSUME NEW t \in Task, ReturnToUser(t) PROVE SchedInv'
  <2>1. current = t /\ state[t] = "running"
    BY <1>7, <1>r DEF ReturnToUser, In
  <2> QED
    BY <1>7, <1>t, <1>c, <1>r, <2>1
      DEF ReturnToUser, SchedInv, SchedTypeOK, CounterBound, CurrentRuns
<1>8. ASSUME NEW t \in Task, SendSig(t) PROVE SchedInv'
  BY <1>8, <1>t, <1>c, <1>r DEF SendSig, SchedInv, SchedTypeOK, CounterBound, CurrentRuns
<1>9. ASSUME NEW t \in Task, WakeUp(t) PROVE SchedInv'
  BY <1>9, <1>t, <1>c, <1>r DEF WakeUp, SchedInv, SchedTypeOK, CounterBound, CurrentRuns
<1>10. ASSUME NEW t \in Task, NEW ticks \in 0..MaxAlarm, SysAlarm(t, ticks) PROVE SchedInv'
  <2>1. alarm' \in [Task -> Alarms]
    BY <1>10, <1>t, SchedulerAssumption DEF SysAlarm
  <2> QED
    BY <1>10, <1>t, <1>c, <1>r, <2>1
      DEF SysAlarm, SchedInv, SchedTypeOK, CounterBound, CurrentRuns
<1>11. ASSUME NEW t \in Task, NEW i \in -MaxPriority..MaxPriority, SysNice(t, i)
       PROVE  SchedInv'
  <2>1. priority' \in [Task -> 1..MaxPriority]
    BY <1>11, <1>t DEF SysNice
  <2> QED
    BY <1>11, <1>t, <1>c, <1>r, <2>1
      DEF SysNice, SchedInv, SchedTypeOK, CounterBound, CurrentRuns
<1>12. CASE UNCHANGED schedVars
  BY <1>12, <1>t, <1>c, <1>r DEF schedVars, SchedInv, SchedTypeOK, CounterBound, CurrentRuns
<1> QED
  <2>1. CASE SchedNext
    BY <2>1, <1>1, <1>2, <1>3, <1>4, <1>5, <1>6, <1>7, <1>8, <1>9, <1>10, <1>11,
       SchedulerAssumption DEF SchedNext, Clock, Sleeps
  <2> QED
    BY <2>1, <1>12

(* Every state has the types of SchedTypeOK (sched.c).                           *)
THEOREM SchedulerTypes == SchedSpec => []SchedTypeOK
<1>1. SchedInv => SchedTypeOK
  BY DEF SchedInv
<1> QED
  BY <1>1, SchedInitInv, SchedNextInv, PTL DEF SchedSpec

(* No counter reaches two slices of the highest priority (sched.c:155).     *)
THEOREM CountersBounded == SchedSpec => []CounterBound
<1>1. SchedInv => CounterBound
  BY DEF SchedInv
<1> QED
  BY <1>1, SchedInitInv, SchedNextInv, PTL DEF SchedSpec

(* schedule switches to tasks that can run, and tasks sleep in the kernel   *)
(* (sched.c:149).                                                           *)
THEOREM OnlyRunnableRun == SchedSpec => []CurrentRuns
<1>1. SchedInv => CurrentRuns
  BY DEF SchedInv
<1> QED
  BY <1>1, SchedInitInv, SchedNextInv, PTL DEF SchedSpec

(* The kernel is not preemptive (sched.c:362).                              *)
THEOREM KernelNotPreempted == SchedSpec => NonPreemptive
<1>1. ASSUME [SchedNext]_schedVars
      PROVE  [\A t \in Task : In(t, "kernel") /\ current' # t =>
                 Sleeps(t) \/ EndCall(t)]_schedVars
  <2> SUFFICES ASSUME SchedNext, NEW t \in Task, In(t, "kernel"), current' # t
               PROVE  Sleeps(t) \/ EndCall(t)
    BY <1>1
  <2>1. current = t /\ mode[t] = "kernel" /\ t # Idle
    BY SchedulerAssumption DEF In, Idle
  <2>2. ASSUME NEW u \in Task, Tick(u) PROVE FALSE
    <3>1. u = t
      BY <2>1, <2>2 DEF Tick
    <3> QED
      BY <2>1, <2>2, <3>1 DEF Tick, NoSchedule
  <2>3. ~IdleTick /\ ~IdlePause
    BY <2>1 DEF IdleTick, IdlePause
  <2>4. ASSUME NEW u \in Task, Sleeps(u) \/ EndCall(u) PROVE Sleeps(t) \/ EndCall(t)
    <3>1. u = t
      BY <2>1, <2>4 DEF Sleeps, Sleep, EndCall, In
    <3> QED
      BY <2>4, <3>1
  <2>5. ASSUME NEW u \in Task,
               \/ Syscall(u) \/ ReturnToUser(u) \/ SendSig(u) \/ WakeUp(u)
               \/ \E ticks \in 0..MaxAlarm : SysAlarm(u, ticks)
               \/ \E i \in -MaxPriority..MaxPriority : SysNice(u, i)
        PROVE  FALSE
    BY <2>1, <2>5 DEF Syscall, ReturnToUser, SendSig, WakeUp, SysAlarm, SysNice
  <2> QED
    BY <2>2, <2>3, <2>4, <2>5, SchedulerAssumption DEF SchedNext, Clock
<1> QED
  BY <1>1, PTL DEF SchedSpec, NonPreemptive

-----------------------------------------------------------------------------
(* The hard disk. *)
(* The drive is idle while do_hd_request runs, and busy with the first     *)
(* request otherwise.                                                      *)
DriveOK ==
    /\ drive \in [cmd : {"none", "READ", "WRITE", "SPECIFY", "RESTORE"},
                  sector : Nat, left : Nat]
    /\ drive.cmd = "none" <=> drive = NoCommand
    /\ drive # NoCommand => ~busy /\ queue # <<>>

(* What is left of a request and what has been moved make up its block.    *)
MovedOK ==
    /\ moved \in [Slot -> SUBSET Nat]
    /\ \A s \in Slot : request[s] # NULL =>
        /\ status[s] = "none"
        /\ request[s].sector + request[s].nr_sectors = 2 * request[s].block + 2
        /\ moved[s] = IF request[s].nr_sectors = 2 THEN {} ELSE {2 * request[s].block}

DiskInv == QueueInv /\ DriveOK /\ MovedOK

-----------------------------------------------------------------------------
(* Lists of different slots. *)
Elements(l) == {l[i] : i \in 1..Len(l)}
Distinct(l) == \A i, j \in 1..Len(l) : l[i] = l[j] => i = j

(* The elevator puts a request behind CURRENT at least.                    *)
LEMMA PlaceBehindFirst ==
    ASSUME NEW l \in Seq(Slot), l # <<>>, NEW req
    PROVE  Place(l, req) \in 1..Len(l)
<1> DEFINE Fits(i) == /\ \/ IN_ORDER(request[l[i]], req)
                         \/ ~IN_ORDER(request[l[i]], request[l[i + 1]])
                      /\ IN_ORDER(req, request[l[i + 1]])
           places == {i \in 1..Len(l) - 1 : Fits(i)} \cup {Len(l)}
<1>1. Len(l) \in Nat \ {0}
  BY EmptySeq
<1>2. places \subseteq 1..Len(l) /\ Len(l) \in places
  BY <1>1
<1>3. Place(l, req) = CHOOSE i \in places : \A j \in places : i <= j
  BY DEF Place
<1> HIDE DEF places
<1>4. \E i \in places : \A j \in places : i <= j
  <2> DEFINE Less == OpToRel(<, Nat)
  <2>1. IsWellFoundedOn(Less, Nat)
    BY NatLessThanWellFounded, Zenon
  <2>2. \A i, j \in Nat : j < i => <<j, i>> \in Less
    BY Zenon DEF OpToRel
  <2> HIDE DEF Less
  <2>3. places \subseteq Nat /\ places # {}
    BY <1>1, <1>2
  <2>4. PICK i \in places : \A j \in places : ~(<<j, i>> \in Less)
    BY <2>1, <2>3, WFMin, Zenon
  <2>5. ASSUME NEW j \in places PROVE i <= j
    <3>1. i \in Nat /\ j \in Nat
      BY <2>3
    <3>2. ~(j < i)
      BY <2>2, <2>4, <3>1, Zenon
    <3> QED BY <3>1, <3>2
  <2> QED BY <2>5
<1> QED BY <1>2, <1>3, <1>4

(* A slot put in behind the first one leaves the rest as it is.            *)
LEMMA Inserted ==
    ASSUME NEW l \in Seq(Slot), l # <<>>, Distinct(l),
           NEW s \in Slot \ Elements(l), NEW p \in 1..Len(l)
    PROVE  LET m == InsertAt(l, p + 1, s) IN
           /\ m \in Seq(Slot) /\ m # <<>> /\ Head(m) = Head(l)
           /\ Distinct(m) /\ Elements(m) = Elements(l) \cup {s}
<1> DEFINE n == Len(l)
           a == SubSeq(l, 1, p)
           b == SubSeq(l, p + 1, n)
           m == InsertAt(l, p + 1, s)
<1>1. n \in Nat /\ p \in 1..n /\ \A i \in 1..n : l[i] \in Slot
  BY ElementOfSeq
<1>2. a \in Seq(Slot) /\ Len(a) = p /\ \A i \in 1..p : a[i] = l[i]
  BY <1>1, SubSeqProperties
<1>3. b \in Seq(Slot) /\ Len(b) = n - p /\ \A i \in 1..n - p : b[i] = l[p + i]
  BY <1>1, SubSeqProperties
<1>4. <<s>> \in Seq(Slot) /\ Len(<<s>>) = 1 /\ <<s>>[1] = s
  OBVIOUS
<1>5. m = (a \o <<s>>) \o b
  <2>1. (p + 1) - 1 = p
    BY <1>1
  <2> QED BY <2>1 DEF InsertAt
<1> HIDE DEF a, b, m, n
<1>6. /\ a \o <<s>> \in Seq(Slot) /\ Len(a \o <<s>>) = p + 1
      /\ \A i \in 1..p + 1 : (a \o <<s>>)[i] = IF i <= p THEN l[i] ELSE s
  BY <1>1, <1>2, <1>4, ConcatProperties
<1>7. /\ m \in Seq(Slot) /\ Len(m) = n + 1
      /\ \A i \in 1..p : m[i] = l[i]
      /\ m[p + 1] = s
      /\ \A i \in p + 1..n : m[i + 1] = l[i]
  <2>1. /\ m \in Seq(Slot) /\ Len(m) = Len(a \o <<s>>) + Len(b)
        /\ \A i \in 1..Len(a \o <<s>>) + Len(b) :
              m[i] = IF i <= Len(a \o <<s>>) THEN (a \o <<s>>)[i] ELSE b[i - Len(a \o <<s>>)]
    BY <1>3, <1>5, <1>6, ConcatProperties
  <2>2. /\ m \in Seq(Slot) /\ Len(m) = n + 1
        /\ \A i \in 1..n + 1 :
              m[i] = IF i <= p + 1 THEN (a \o <<s>>)[i] ELSE b[i - (p + 1)]
    <3>1. Len(a \o <<s>>) = p + 1 /\ Len(b) = n - p /\ (p + 1) + (n - p) = n + 1
      BY <1>1, <1>3, <1>6
    <3>2. Len(a \o <<s>>) + Len(b) = n + 1
      BY <3>1
    <3> QED BY <2>1, <3>1, <3>2
  <2>3. \A i \in 1..p + 1 : m[i] = IF i <= p THEN l[i] ELSE s
    <3> TAKE i \in 1..p + 1
    <3>1. i \in 1..n + 1 /\ i <= p + 1
      BY <1>1
    <3>2. m[i] = (a \o <<s>>)[i]
      BY <2>2, <3>1
    <3> QED BY <1>6, <3>2
  <2>4. ASSUME NEW i \in p + 1..n PROVE m[i + 1] = l[i]
    <3>1. m[i + 1] = b[(i + 1) - (p + 1)]
      BY <1>1, <2>2
    <3>2. (i + 1) - (p + 1) = i - p /\ i - p \in 1..n - p /\ p + (i - p) = i
      BY <1>1
    <3> QED BY <1>3, <3>1, <3>2
  <2> QED BY <1>1, <2>2, <2>3, <2>4
<1>8. m # <<>> /\ Head(m) = Head(l)
  BY <1>1, <1>7 DEF n
<1>9. \A j \in 1..n : l[j] # s
  BY DEF Elements, n
<1>10. \A j, k \in 1..n : l[j] = l[k] => j = k
  BY DEF Distinct, n
<1>13. \A i \in 1..n + 1 :
          \/ i \in 1..n /\ i <= p /\ m[i] = l[i]
          \/ i = p + 1 /\ m[i] = s
          \/ i - 1 \in 1..n /\ i - 1 > p /\ m[i] = l[i - 1]
  <2> TAKE i \in 1..n + 1
  <2>1. CASE i <= p
    BY <1>1, <1>7, <2>1
  <2>2. CASE i = p + 1
    BY <1>7, <2>2
  <2>3. CASE i > p + 1
    <3>1. i - 1 \in p + 1..n /\ i - 1 \in 1..n /\ i - 1 > p /\ (i - 1) + 1 = i
      BY <1>1, <2>3
    <3> QED BY <1>7, <3>1
  <2> QED BY <1>1, <2>1, <2>2, <2>3
<1>11. Distinct(m)
  <2> SUFFICES ASSUME NEW i \in 1..n + 1, NEW j \in 1..n + 1, m[i] = m[j] PROVE i = j
    BY <1>7 DEF Distinct
  <2> QED BY <1>1, <1>9, <1>10, <1>13
<1>12. Elements(m) = Elements(l) \cup {s}
  <2>1. ASSUME NEW x \in Elements(m) PROVE x \in Elements(l) \cup {s}
    <3>1. PICK i \in 1..n + 1 : x = m[i]
      BY <1>7 DEF Elements
    <3> QED BY <1>13, <3>1 DEF Elements, n
  <2>2. s \in Elements(m)
    <3>1. p + 1 \in 1..Len(m) /\ m[p + 1] = s
      BY <1>1, <1>7
    <3> QED BY <3>1 DEF Elements
  <2>3. ASSUME NEW j \in 1..n PROVE l[j] \in Elements(m)
    <3>1. \/ j \in 1..Len(m) /\ m[j] = l[j]
          \/ j + 1 \in 1..Len(m) /\ m[j + 1] = l[j]
      BY <1>1, <1>7
    <3> QED BY <3>1 DEF Elements
  <2> QED BY <2>1, <2>2, <2>3 DEF Elements, n
<1> QED BY <1>7, <1>8, <1>11, <1>12 DEF m

(* Without its first slot. *)
LEMMA Removed ==
    ASSUME NEW l \in Seq(Slot), l # <<>>, Distinct(l)
    PROVE  /\ Head(l) \in Elements(l) /\ Elements(l) \subseteq Slot
           /\ Tail(l) \in Seq(Slot) /\ Distinct(Tail(l))
           /\ Elements(Tail(l)) = Elements(l) \ {Head(l)}
<1>1. /\ Len(l) \in Nat \ {0} /\ Head(l) = l[1]
      /\ \A i \in 1..Len(l) : l[i] \in Slot
  BY EmptySeq, ElementOfSeq
<1>2. /\ Tail(l) \in Seq(Slot) /\ Len(Tail(l)) = Len(l) - 1
      /\ \A i \in 1..Len(Tail(l)) : Tail(l)[i] = l[i + 1]
  BY HeadTailProperties
<1>3. Distinct(Tail(l))
  BY <1>1, <1>2 DEF Distinct
<1>4. Elements(Tail(l)) = Elements(l) \ {Head(l)}
  <2>1. ASSUME NEW i \in 1..Len(Tail(l)) PROVE Tail(l)[i] \in Elements(l) \ {l[1]}
    BY <1>1, <1>2 DEF Distinct, Elements
  <2>2. ASSUME NEW i \in 1..Len(l), l[i] # l[1] PROVE l[i] \in Elements(Tail(l))
    <3>1. i - 1 \in 1..Len(Tail(l)) /\ Tail(l)[i - 1] = l[i]
      BY <1>1, <1>2, <2>2
    <3> QED BY <3>1 DEF Elements
  <2> QED BY <1>1, <2>1, <2>2 DEF Elements
<1> QED BY <1>1, <1>2, <1>3, <1>4 DEF Elements

-----------------------------------------------------------------------------
(* The first request of the list is one in use. *)
LEMMA FirstInUse ==
    ASSUME TypeOK, Listed, queue # <<>>
    PROVE  Current \in Slot /\ CURRENT \in Request /\ CURRENT # NULL
<1>1. Distinct(queue) /\ Elements(queue) = {s \in Slot : request[s] # NULL}
  BY DEF Listed, Distinct, Elements
<1>2. Head(queue) \in {s \in Slot : request[s] # NULL}
  BY <1>1, Removed DEF TypeOK
<1> QED BY <1>2 DEF TypeOK, Current, CURRENT

(* Ending the first request leaves the others as they are. *)
LEMMA EndRequestKeeps ==
    ASSUME TypeOK, Listed, queue # <<>>, NEW how \in {"ok", "failed"},
           EndRequest(how)
    PROVE  /\ request' \in [Slot -> Request \cup {NULL}] /\ queue' \in Seq(Slot)
           /\ status' \in [Slot -> {"none", "ok", "failed"}]
           /\ Listed'
           /\ \A s \in Slot : request'[s] # NULL =>
                 s # Current /\ request'[s] = request[s] /\ status'[s] = status[s]
<1> USE DEF TypeOK, EndRequest
<1>1. Current \in Slot
  BY FirstInUse
<1>2. Distinct(queue) /\ Elements(queue) = {s \in Slot : request[s] # NULL}
  BY DEF Listed, Distinct, Elements
<1>3. /\ Tail(queue) \in Seq(Slot) /\ Distinct(Tail(queue))
      /\ Elements(Tail(queue)) = Elements(queue) \ {Current}
  BY <1>2, Removed DEF Current
<1>4. {s \in Slot : request'[s] # NULL} = Elements(queue')
  BY <1>1, <1>2, <1>3
<1>5. Listed'
  BY <1>3, <1>4 DEF Listed, Distinct, Elements
<1> QED BY <1>1, <1>3, <1>5

(* A bad answer ends the request or counts an error of it.                 *)
LEMMA BadKeeps ==
    ASSUME TypeOK, Listed, MovedOK, queue # <<>>, bad_rw_intr
    PROVE  /\ request' \in [Slot -> Request \cup {NULL}] /\ queue' \in Seq(Slot)
           /\ status' \in [Slot -> {"none", "ok", "failed"}]
           /\ reset' \in BOOLEAN /\ recalibrate' \in BOOLEAN
           /\ Listed' /\ MovedOK'
<1> USE DEF TypeOK, bad_rw_intr
<1> DEFINE errors == CURRENT.errors + 1
<1>1. Current \in Slot /\ CURRENT \in Request /\ CURRENT # NULL
  BY FirstInUse
<1>2. errors \in Nat
  BY <1>1 DEF Request
<1>3. CASE errors >= MAX_ERRORS
  <2>1. EndRequest("failed")
    BY <1>3
  <2>2. reset' \in BOOLEAN
    BY <1>3
  <2>3. MovedOK'
    BY <2>1, EndRequestKeeps DEF MovedOK
  <2> QED BY <2>1, <2>2, <2>3, EndRequestKeeps
<1>4. CASE ~(errors >= MAX_ERRORS)
  <2>1. /\ request' = [request EXCEPT ![Current].errors = errors]
        /\ reset' = (reset \/ errors > MAX_ERRORS \div 2)
        /\ UNCHANGED <<queue, status, moved>>
    BY <1>4
  <2>2. errors \in 0..MAX_ERRORS - 1
    BY <1>2, <1>4, DiskAssumption
  <2>3. request'[Current] = [request[Current] EXCEPT !.errors = errors]
    BY <1>1, <2>1
  <2> HIDE DEF errors
  <2>4. request'[Current] \in Request
    BY <1>1, <2>2, <2>3 DEF Request, CURRENT
  <2>5. request'[Current] # NULL
    BY <2>4, NullAssumption
  <2>6. \A s \in Slot : s # Current => request'[s] = request[s]
    BY <2>1
  <2>7. request' \in [Slot -> Request \cup {NULL}]
    BY <1>1, <2>1, <2>4, <2>6
  <2>8. \A s \in Slot : request'[s] # NULL <=> request[s] # NULL
    BY <1>1, <2>5, <2>6 DEF CURRENT
  <2>9. Listed'
    BY <2>1, <2>8 DEF Listed
  <2>10. /\ request'[Current].sector = CURRENT.sector
         /\ request'[Current].nr_sectors = CURRENT.nr_sectors
         /\ request'[Current].block = CURRENT.block
    BY <1>1, <2>3 DEF Request, CURRENT
  <2>11. MovedOK'
    <3> SUFFICES ASSUME NEW s \in Slot, request'[s] # NULL
                 PROVE  /\ status'[s] = "none"
                        /\ request'[s].sector + request'[s].nr_sectors = 2 * request'[s].block + 2
                        /\ moved'[s] = IF request'[s].nr_sectors = 2 THEN {} ELSE {2 * request'[s].block}
      BY DEF MovedOK
    <3>1. request[s] # NULL /\ moved'[s] = moved[s] /\ status'[s] = status[s]
      BY <2>1, <2>8
    <3>2. /\ request'[s].sector = request[s].sector
          /\ request'[s].nr_sectors = request[s].nr_sectors
          /\ request'[s].block = request[s].block
      BY <2>6, <2>10 DEF CURRENT
    <3> QED BY <3>1, <3>2 DEF MovedOK
  <2> QED BY <2>1, <2>7, <2>9, <2>11
<1> QED BY <1>3, <1>4

(* A sector is moved: one is left, or none. *)
LEMMA AdvanceKeeps ==
    ASSUME DiskInv, drive # NoCommand, do_hd \in {"read_intr", "write_intr"}, Advance
    PROVE  DiskInv'
<1> USE DEF DiskInv, QueueInv
<1>1. queue # <<>> /\ ~busy
  BY DEF DriveOK
<1>2. Current \in Slot /\ CURRENT \in Request /\ CURRENT # NULL
  BY <1>1, FirstInUse
<1>3. CASE CURRENT.nr_sectors = 1
  <2>1. /\ EndRequest("ok")
        /\ do_hd' = NULL /\ drive' = NoCommand /\ busy' = TRUE
        /\ moved' = [moved EXCEPT ![Current] = @ \cup {drive.sector}]
        /\ UNCHANGED <<reset, recalibrate>>
    BY <1>3 DEF Advance
  <2>2. TypeOK' /\ Listed'
    BY <1>1, <2>1, EndRequestKeeps DEF TypeOK, NoCommand
  <2>3. HandlerFits' /\ DriveOK'
    BY <2>1 DEF HandlerFits, DriveOK, NoCommand
  <2>4. MovedOK'
    <3>1. \A s \in Slot : request'[s] # NULL =>
             s # Current /\ request'[s] = request[s] /\ status'[s] = status[s]
      BY <1>1, <2>1, EndRequestKeeps
    <3>2. \A s \in Slot : s # Current => moved'[s] = moved[s]
      BY <2>1 DEF MovedOK
    <3>3. moved' \in [Slot -> SUBSET Nat]
      BY <2>1 DEF MovedOK, DriveOK
    <3> QED BY <3>1, <3>2, <3>3 DEF MovedOK
  <2> QED BY <2>2, <2>3, <2>4
<1>4. CASE CURRENT.nr_sectors # 1
  <2> DEFINE e == IF CURRENT.cmd = READ THEN 0 ELSE CURRENT.errors
             new == [cmd |-> CURRENT.cmd, block |-> CURRENT.block,
                     sector |-> CURRENT.sector + 1,
                     nr_sectors |-> CURRENT.nr_sectors - 1, errors |-> e]
  <2>1. /\ request' = [request EXCEPT ![Current].sector = @ + 1,
                    ![Current].nr_sectors = @ - 1,
                    ![Current].errors = IF CURRENT.cmd = READ THEN 0 ELSE @]
        /\ drive' = [drive EXCEPT !.sector = @ + 1, !.left = @ - 1]
        /\ moved' = [moved EXCEPT ![Current] = @ \cup {drive.sector}]
        /\ UNCHANGED <<queue, do_hd, busy, status, reset, recalibrate>>
    BY <1>4 DEF Advance
  <2>2. /\ request' \in [Slot -> Request \cup {NULL}]
        /\ request'[Current] \in Request /\ request'[Current] # NULL
        /\ request'[Current].sector = CURRENT.sector + 1
        /\ request'[Current].nr_sectors = CURRENT.nr_sectors - 1
        /\ request'[Current].block = CURRENT.block
        /\ request'[Current].cmd = CURRENT.cmd
        /\ \A s \in Slot : s # Current => request'[s] = request[s]
    <3>1. CURRENT = [cmd |-> CURRENT.cmd, block |-> CURRENT.block,
                     sector |-> CURRENT.sector,
                     nr_sectors |-> CURRENT.nr_sectors, errors |-> CURRENT.errors]
      BY <1>2 DEF Request
    <3>2. request'[Current] = new
      BY <1>2, <2>1, <3>1 DEF TypeOK, CURRENT
    <3>3. e \in 0..MAX_ERRORS - 1 /\ CURRENT.nr_sectors = 2
      BY <1>2, <1>4, DiskAssumption DEF Request
    <3>4. new \in Request
      BY <1>2, <3>3 DEF Request
    <3>5. \A s \in Slot : s # Current => request'[s] = request[s]
      BY <2>1 DEF TypeOK
    <3>6. DOMAIN request' = Slot
      BY <2>1 DEF TypeOK
    <3>7. request' \in [Slot -> Request \cup {NULL}]
      BY <2>1, <3>2, <3>4, <3>5, <3>6 DEF TypeOK
    <3> QED BY <3>2, <3>4, <3>5, <3>7, NullAssumption
  <2> HIDE DEF e, new
  <2>3. /\ drive' = [cmd |-> drive.cmd, sector |-> drive.sector + 1,
                     left |-> drive.left - 1]
        /\ drive.sector = CURRENT.sector /\ drive.left = CURRENT.nr_sectors
        /\ drive.cmd # "none"
    <3>1. drive = [cmd |-> drive.cmd, sector |-> drive.sector, left |-> drive.left]
      BY DEF DriveOK
    <3> QED BY <2>1, <3>1 DEF DriveOK, HandlerFits
  <2>8. DriveOK'
    <3>1. CURRENT.nr_sectors = 2
      BY <1>2, <1>4 DEF Request
    <3>2. drive.sector \in Nat /\ drive.left - 1 \in Nat
      BY <2>3, <3>1 DEF DriveOK
    <3>3. /\ drive' \in [cmd : {"none", "READ", "WRITE", "SPECIFY", "RESTORE"},
                         sector : Nat, left : Nat]
          /\ drive'.cmd = drive.cmd
      BY <2>3, <3>2 DEF DriveOK
    <3> QED BY <1>1, <2>1, <2>3, <3>3 DEF DriveOK, NoCommand
  <2>9. TypeOK'
    BY <2>1, <2>2, <2>3 DEF TypeOK
  <2>4. Current' = Current /\ CURRENT' = request'[Current]
    BY <2>1 DEF Current, CURRENT
  <2>5. Listed'
    <3>1. \A s \in Slot : request'[s] # NULL <=> request[s] # NULL
      BY <1>2, <2>2 DEF CURRENT
    <3>2. {s \in Slot : request'[s] # NULL} = {s \in Slot : request[s] # NULL}
      BY <3>1
    <3>3. queue' = queue
      BY <2>1
    <3> QED BY <3>2, <3>3 DEF Listed
  <2>6. HandlerFits'
    <3>1. drive' # NoCommand /\ queue' # <<>>
      BY <1>1, <2>1, <2>3 DEF NoCommand
    <3>2. /\ drive'.sector = CURRENT'.sector
          /\ drive'.left = CURRENT'.nr_sectors
          /\ drive'.cmd = drive.cmd /\ CURRENT'.cmd = CURRENT.cmd
      BY <2>2, <2>3, <2>4
    <3>3. do_hd' = do_hd
      BY <2>1
    <3> QED BY <3>1, <3>2, <3>3 DEF HandlerFits
  <2>7. MovedOK'
    <3> SUFFICES ASSUME NEW s \in Slot, request'[s] # NULL
                 PROVE  /\ status'[s] = "none"
                        /\ request'[s].sector + request'[s].nr_sectors = 2 * request'[s].block + 2
                        /\ moved'[s] = IF request'[s].nr_sectors = 2 THEN {} ELSE {2 * request'[s].block}
      <4>1. moved' \in [Slot -> SUBSET Nat]
        BY <2>1, <2>3 DEF MovedOK, DriveOK
      <4> QED BY <4>1 DEF MovedOK
    <3>1. CASE s # Current
      <4>1. request'[s] = request[s] /\ moved'[s] = moved[s] /\ status'[s] = status[s]
        BY <2>1, <2>2, <3>1
      <4> QED BY <4>1 DEF MovedOK
    <3>2. CASE s = Current
      <4>1. CURRENT.nr_sectors = 2 /\ CURRENT.sector \in Nat /\ CURRENT.block \in Nat
        BY <1>2, <1>4, DiskAssumption DEF Request
      <4>2. moved[s] = {} /\ CURRENT.sector = 2 * CURRENT.block /\ status[s] = "none"
        <5>1. /\ status[s] = "none" /\ moved[s] = {}
              /\ CURRENT.sector + 2 = 2 * CURRENT.block + 2
          BY <1>2, <3>2, <4>1 DEF MovedOK, CURRENT
        <5> QED BY <4>1, <5>1
      <4>3. moved'[s] = {CURRENT.sector} /\ status'[s] = status[s]
        BY <2>1, <2>3, <3>2, <4>2 DEF MovedOK
      <4>4. /\ request'[s].nr_sectors = 1 /\ request'[s].block = CURRENT.block
            /\ request'[s].sector = CURRENT.sector + 1
        BY <2>2, <3>2, <4>1
      <4> QED BY <4>1, <4>2, <4>3, <4>4
    <3> QED BY <3>1, <3>2
  <2> QED BY <2>5, <2>6, <2>7, <2>8, <2>9
<1> QED BY <1>3, <1>4

(* A new request goes behind CURRENT, or starts the driver. *)
LEMMA AddRequestKeeps ==
    ASSUME DiskInv, NEW s \in Slot, NEW cmd \in {READ, WRITE}, NEW b \in Block,
           AddRequest(s, cmd, b)
    PROVE  DiskInv'
<1> USE DEF DiskInv, QueueInv
<1> DEFINE req == [cmd |-> cmd, block |-> b, sector |-> 2 * b, nr_sectors |-> 2,
                   errors |-> 0]
<1>1. /\ ~busy /\ request[s] = NULL
      /\ request' = [request EXCEPT ![s] = req]
      /\ moved' = [moved EXCEPT ![s] = {}]
      /\ status' = [status EXCEPT ![s] = "none"]
      /\ UNCHANGED <<do_hd, reset, recalibrate, drive>>
  BY DEF AddRequest
<1>2. req \in Request /\ req # NULL /\ b \in Nat
  <2>1. b \in Nat /\ 0 \in 0..MAX_ERRORS - 1
    BY DiskAssumption
  <2>2. req \in Request
    BY <2>1 DEF Request
  <2> QED BY <2>1, <2>2, NullAssumption
<1>3. /\ request' \in [Slot -> Request \cup {NULL}]
      /\ request'[s] = req /\ \A x \in Slot : x # s => request'[x] = request[x]
  BY <1>1, <1>2 DEF TypeOK
<1>4. MovedOK'
  <2>1. /\ moved' \in [Slot -> SUBSET Nat] /\ moved'[s] = {} /\ status'[s] = "none"
        /\ \A x \in Slot :
              x # s => moved'[x] = moved[x] /\ status'[x] = status[x]
    BY <1>1 DEF MovedOK, TypeOK
  <2> SUFFICES ASSUME NEW x \in Slot, request'[x] # NULL
               PROVE  /\ status'[x] = "none"
                      /\ request'[x].sector + request'[x].nr_sectors = 2 * request'[x].block + 2
                      /\ moved'[x] = IF request'[x].nr_sectors = 2 THEN {} ELSE {2 * request'[x].block}
    BY <2>1 DEF MovedOK
  <2>2. CASE x = s
    BY <1>3, <2>1, <2>2
  <2>3. CASE x # s
    BY <1>3, <2>1, <2>3 DEF MovedOK
  <2> QED BY <2>2, <2>3
<1>5. {x \in Slot : request'[x] # NULL} = {x \in Slot : request[x] # NULL} \cup {s}
  BY <1>2, <1>3
<1>6. /\ Distinct(queue) /\ Elements(queue) = {x \in Slot : request[x] # NULL}
      /\ s \notin Elements(queue)
  BY <1>1 DEF Listed, Distinct, Elements
<1> HIDE DEF req
<1>7. CASE queue = <<>>
  <2>1. queue' = <<s>> /\ busy' = TRUE
    BY <1>7 DEF AddRequest
  <2>2. drive = NoCommand
    BY <1>7 DEF DriveOK
  <2>3. Listed'
    BY <1>5, <1>6, <1>7, <2>1 DEF Listed, Elements
  <2>4. TypeOK'
    BY <1>1, <1>3, <2>1 DEF TypeOK
  <2>5. HandlerFits' /\ DriveOK'
    BY <1>1, <2>1, <2>2 DEF HandlerFits, DriveOK
  <2> QED BY <1>4, <2>3, <2>4, <2>5
<1>8. CASE queue # <<>>
  <2>1. /\ queue' = InsertAt(queue, Place(queue, req) + 1, s)
        /\ busy' = busy
    BY <1>8 DEF AddRequest, req
  <2>2. Place(queue, req) \in 1..Len(queue)
    BY <1>8, PlaceBehindFirst DEF TypeOK
  <2>3. /\ queue' \in Seq(Slot) /\ queue' # <<>> /\ Head(queue') = Head(queue)
        /\ Distinct(queue') /\ Elements(queue') = Elements(queue) \cup {s}
    BY <1>6, <1>8, <2>1, <2>2, Inserted DEF TypeOK
  <2>4. Listed'
    BY <1>5, <1>6, <2>3 DEF Listed, Distinct, Elements
  <2>5. TypeOK'
    BY <1>1, <1>3, <2>1, <2>3 DEF TypeOK
  <2>6. DriveOK'
    BY <1>1, <1>8, <2>1, <2>3 DEF DriveOK
  <2>7. Current \in Slot /\ CURRENT # NULL
    BY <1>8, FirstInUse
  <2>8. Current' = Current /\ CURRENT' = CURRENT
    BY <1>1, <1>3, <2>3, <2>7 DEF Current, CURRENT
  <2>9. HandlerFits'
    BY <1>1, <1>8, <2>1, <2>3, <2>8 DEF HandlerFits
  <2> QED BY <1>4, <2>4, <2>5, <2>6, <2>9
<1> QED BY <1>7, <1>8

(* Every step of the list, the driver and the controller. *)
LEMMA DiskInvInductive ==
    ASSUME DiskInv, [Next]_vars
    PROVE  DiskInv'
<1> USE DEF DiskInv, QueueInv
<1>1. ASSUME NEW s \in Slot, NEW cmd \in {READ, WRITE}, NEW b \in Block,
             AddRequest(s, cmd, b)
      PROVE  DiskInv'
  BY <1>1, AddRequestKeeps
<1>2. CASE NoMoreRequests
  <2>1. /\ queue = <<>> /\ drive = NoCommand /\ busy' = FALSE
        /\ UNCHANGED <<request, queue, do_hd, reset, recalibrate, drive, moved,
                       status>>
    BY <1>2 DEF NoMoreRequests, DriveOK
  <2>2. TypeOK' /\ MovedOK'
    BY <2>1 DEF TypeOK, MovedOK
  <2>3. HandlerFits' /\ DriveOK' /\ Listed'
    BY <2>1 DEF HandlerFits, DriveOK, Listed
  <2> QED BY <2>2, <2>3
<1>3. CASE OutOfRange
  <2>1. /\ busy /\ queue # <<>> /\ EndRequest("failed")
        /\ UNCHANGED <<do_hd, reset, recalibrate, busy, drive, moved>>
    BY <1>3 DEF OutOfRange
  <2>2. TypeOK' /\ Listed'
    BY <2>1, EndRequestKeeps DEF TypeOK
  <2>3. drive = NoCommand
    BY <2>1 DEF DriveOK
  <2>4. HandlerFits' /\ DriveOK'
    BY <2>1, <2>3 DEF HandlerFits, DriveOK
  <2>5. MovedOK'
    BY <2>1, EndRequestKeeps DEF MovedOK
  <2> QED BY <2>2, <2>4, <2>5
<1>4. ASSUME NEW c \in {"READ", "WRITE", "SPECIFY", "RESTORE"},
             NEW h \in {"read_intr", "write_intr", "recal_intr"},
             hd_out(c, h), busy, queue # <<>>,
             reset' \in BOOLEAN, recalibrate' \in BOOLEAN,
             UNCHANGED <<request, queue, moved, status>>,
             h = CASE c = "READ" -> "read_intr" [] c = "WRITE" -> "write_intr"
                   [] OTHER -> "recal_intr",
             c = "READ" => CURRENT.cmd = READ, c = "WRITE" => CURRENT.cmd = WRITE
      PROVE  DiskInv'
  <2>1. CURRENT \in Request
    BY <1>4, FirstInUse
  <2>2. /\ do_hd' = h /\ busy' = FALSE
        /\ drive' = [cmd |-> c, sector |-> CURRENT.sector, left |-> CURRENT.nr_sectors]
        /\ CURRENT' = CURRENT
    BY <1>4 DEF hd_out, Current, CURRENT
  <2>3. TypeOK'
    BY <1>4, <2>2 DEF TypeOK
  <2>4. Listed' /\ MovedOK'
    BY <1>4 DEF Listed, MovedOK
  <2>5. drive' # NoCommand /\ drive'.cmd = c
    BY <2>2 DEF NoCommand
  <2>6. DriveOK'
    BY <1>4, <2>1, <2>2, <2>5 DEF DriveOK, NoCommand, Request
  <2>7. HandlerFits'
    BY <1>4, <2>2, <2>5 DEF HandlerFits
  <2> QED BY <2>3, <2>4, <2>6, <2>7
<1>5. CASE Reset
  BY <1>4, <1>5 DEF Reset, reset_hd
<1>6. CASE Recalibrate
  BY <1>4, <1>6 DEF Recalibrate, TypeOK
<1>7. CASE ReadCommand
  BY <1>4, <1>7 DEF ReadCommand, Ready, TypeOK
<1>8. CASE WriteCommand
  BY <1>4, <1>8 DEF WriteCommand, Ready, TypeOK
<1>9. CASE WriteTimeout
  <2>1. /\ busy /\ queue # <<>> /\ bad_rw_intr
        /\ do_hd' = "write_intr" /\ UNCHANGED <<busy, drive>>
    BY <1>9 DEF WriteTimeout, Ready
  <2>2. drive = NoCommand
    BY <2>1 DEF DriveOK
  <2>3. TypeOK' /\ Listed' /\ MovedOK'
    BY <2>1, BadKeeps DEF TypeOK
  <2>4. HandlerFits' /\ DriveOK'
    BY <2>1, <2>2 DEF HandlerFits, DriveOK
  <2> QED BY <2>3, <2>4
<1>10. ASSUME Bad, drive # NoCommand PROVE DiskInv'
  <2>1. /\ queue # <<>> /\ bad_rw_intr
        /\ do_hd' = NULL /\ drive' = NoCommand /\ busy' = TRUE
    BY <1>10 DEF Bad, DriveOK
  <2>3. TypeOK' /\ Listed' /\ MovedOK'
    BY <2>1, BadKeeps DEF TypeOK, NoCommand
  <2>4. HandlerFits' /\ DriveOK'
    BY <2>1 DEF HandlerFits, DriveOK, NoCommand
  <2> QED BY <2>3, <2>4
<1>11. CASE read_intr \/ write_intr
  BY <1>10, <1>11, AdvanceKeeps DEF read_intr, write_intr, Interrupt
<1>12. CASE recal_intr
  <2>1. CASE Bad
    BY <1>10, <1>12, <2>1 DEF recal_intr, Interrupt
  <2>2. CASE /\ do_hd' = NULL /\ drive' = NoCommand /\ busy' = TRUE
             /\ UNCHANGED <<request, queue, reset, recalibrate, moved, status>>
    BY <2>2 DEF TypeOK, Listed, HandlerFits, DriveOK, MovedOK, NoCommand
  <2> QED BY <1>12, <2>1, <2>2 DEF recal_intr
<1>13. CASE UNCHANGED vars
  BY <1>13 DEF vars, TypeOK, Listed, HandlerFits, DriveOK, MovedOK, Current,
        CURRENT
<1> QED
  BY <1>1, <1>2, <1>3, <1>5, <1>6, <1>7, <1>8, <1>9, <1>11, <1>12, <1>13
  DEF Next, do_hd_request, Answer

LEMMA DiskInductive == Spec => []DiskInv
<1>1. Init => DiskInv
  <2> SUFFICES ASSUME Init PROVE DiskInv
    OBVIOUS
  <2>1. TypeOK
    <3>1. request \in [Slot -> Request \cup {NULL}] /\ queue \in Seq(Slot)
      BY DEF Init
    <3>2. /\ do_hd \in {NULL, "read_intr", "write_intr", "recal_intr"}
          /\ reset \in BOOLEAN /\ recalibrate \in BOOLEAN /\ busy \in BOOLEAN
          /\ drive.cmd = "none"
          /\ status \in [Slot -> {"none", "ok", "failed"}]
      BY DEF Init, NoCommand
    <3> QED BY <3>1, <3>2 DEF TypeOK
  <2>2. Listed
    BY DEF Init, Listed
  <2>3. HandlerFits /\ DriveOK /\ MovedOK
    BY DEF Init, HandlerFits, DriveOK, MovedOK, NoCommand
  <2> QED BY <2>1, <2>2, <2>3 DEF DiskInv, QueueInv
<1>2. DiskInv /\ [Next]_vars => DiskInv'
  BY DiskInvInductive
<1> QED BY <1>1, <1>2, PTL DEF Spec

(* The list of requests and the handler that do_hd points at are what the  *)
(* controller is working at (ll_rw_blk.c:64, hd.c:294), through insertions *)
(* at any place, errors, resets and requests that are given up.            *)
THEOREM QueueCorrect == Spec => []QueueInv
<1>1. DiskInv => QueueInv
  BY DEF DiskInv
<1> QED BY <1>1, DiskInductive, PTL

(* A request that ends well has moved the two sectors of its block: hd.c   *)
(* repeats a command from the sector it has come to, whatever failed.      *)
THEOREM TransfersAreWhole == Spec => OkMeansMoved
<1> DEFINE Whole == \A s \in Slot : request[s] # NULL /\ status'[s] = "ok" =>
                       moved'[s] = {2 * request[s].block, 2 * request[s].block + 1}
<1>1. ASSUME DiskInv, Next PROVE Whole
  <2> USE <1>1 DEF DiskInv, QueueInv
  <2> SUFFICES ASSUME NEW s \in Slot, request[s] # NULL, status'[s] = "ok"
               PROVE  moved'[s] = {2 * request[s].block, 2 * request[s].block + 1}
    OBVIOUS
  <2>1. status[s] = "none" /\ status' # status
    BY DEF MovedOK
  <2>2. ASSUME queue # <<>>, EndRequest("failed") PROVE FALSE
    <3>1. Current \in Slot
      BY <2>2, FirstInUse
    <3> QED BY <2>1, <2>2, <3>1 DEF EndRequest, TypeOK
  <2>3. ASSUME queue # <<>>, bad_rw_intr PROVE FALSE
    BY <2>1, <2>2, <2>3 DEF bad_rw_intr
  <2>4. ASSUME NEW r \in Slot, NEW cmd \in {READ, WRITE}, NEW b \in Block,
               AddRequest(r, cmd, b)
        PROVE  FALSE
    BY <2>1, <2>4 DEF AddRequest, TypeOK
  <2>5. ASSUME do_hd_request PROVE FALSE
    BY <2>1, <2>2, <2>3, <2>5
    DEF do_hd_request, NoMoreRequests, OutOfRange, Reset, Recalibrate,
        ReadCommand, WriteCommand, WriteTimeout, Ready
  <2>6. Answer
    BY <2>4, <2>5 DEF Next
  <2>7. drive # NoCommand /\ queue # <<>>
    BY <2>6 DEF Answer, read_intr, write_intr, recal_intr, Interrupt, DriveOK
  <2>8. Advance /\ do_hd \in {"read_intr", "write_intr"}
    BY <2>1, <2>3, <2>6, <2>7
    DEF Answer, read_intr, write_intr, recal_intr, Interrupt, Bad
  <2>9. Current \in Slot /\ CURRENT \in Request /\ CURRENT # NULL
    BY <2>7, FirstInUse
  <2>10. /\ CURRENT.nr_sectors = 1
         /\ status' = [status EXCEPT ![Current] = "ok"]
         /\ moved' = [moved EXCEPT ![Current] = @ \cup {drive.sector}]
    BY <2>1, <2>8 DEF Advance, EndRequest
  <2>11. s = Current
    BY <2>1, <2>9, <2>10 DEF TypeOK
  <2>12. /\ moved[s] = {2 * request[s].block} /\ drive.sector = CURRENT.sector
         /\ CURRENT.sector + 1 = 2 * request[s].block + 2
    BY <2>7, <2>9, <2>10, <2>11 DEF MovedOK, HandlerFits, CURRENT
  <2>13. drive.sector = 2 * request[s].block + 1
    <3>1. CURRENT.sector \in Nat /\ request[s].block \in Nat
      BY <2>9, <2>11, DiskAssumption DEF Request, CURRENT
    <3>2. \A x, y \in Nat : x + 1 = 2 * y + 2 => x = 2 * y + 1
      OBVIOUS
    <3> QED BY <2>12, <3>1, <3>2, Zenon
  <2> QED BY <2>10, <2>11, <2>12, <2>13 DEF MovedOK
<1>2. DiskInv /\ [Next]_vars => [Whole]_vars
  BY <1>1
<1> QED BY <1>2, DiskInductive, PTL DEF Spec, OkMeansMoved
=============================================================================
