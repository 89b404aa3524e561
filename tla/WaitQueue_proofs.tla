-------------------------- MODULE WaitQueue_proofs --------------------------
(***************************************************************************)
(* Proofs about WaitQueue, for any set of tasks and of channels.           *)
(***************************************************************************)
EXTENDS WaitQueue, TLAPS

(* A kernel that only has sleep_on, and that disables interrupts before it *)
(* sleeps on a channel that an interrupt handler wakes.                    *)
Disciplined == IChan = {} /\ IrqChan \cap OpenChan = {}

(* Nobody is between reading and writing the head of channel c.            *)
NotEntering(c) == \A u \in Task : pc[u] \in {"read", "linked"} => on[u] # c

(* TypeOK holds whatever the channels are: every handler stores a task, or *)
(* NULL, in the pointers of sleep_on.                                      *)
THEOREM TypeCorrect == Spec => []TypeOK
<1>1. Init => TypeOK
  BY ChanAssumption
  DEF Init, TypeOK, States, Points, RUNNING
<1>2. TypeOK /\ [Next]_vars => TypeOK'
  <2> SUFFICES ASSUME TypeOK, [Next]_vars PROVE TypeOK'
    OBVIOUS
  <2> USE DEF TypeOK
  <2>s. ASSUME NEW st \in [Task -> States], Schedule(st)
        PROVE state' \in [Task -> States] /\ current' \in Task \cup {Idle}
    BY <2>s DEF Schedule, Scan, Runnable, States, RUNNING
  <2>m. \A x \in Task \cup {NULL} : MakeRunning(state, x) \in [Task -> States]
    BY DEF MakeRunning, States, RUNNING
  <2>w. ASSUME NEW c \in Chan, wake_up(c) PROVE TypeOK'
    BY <2>w, <2>m DEF wake_up
  <2>1. ASSUME NEW t \in Task, NEW c \in Chan, ReadHead(t, c) PROVE TypeOK'
    BY <2>1 DEF ReadHead, Points
  <2>2. ASSUME NEW t \in Task, LinkSelf(t) PROVE TypeOK'
    BY <2>2 DEF LinkSelf, Points
  <2>3. ASSUME NEW t \in Task, Suspend(t) PROVE TypeOK'
    <3>1. [state EXCEPT ![t] = SleepState(on[t])] \in [Task -> States]
      BY DEF SleepState, States
    <3> QED BY <2>3, <3>1, <2>s DEF Suspend, Points
  <2>4. ASSUME NEW t \in Task, ReturnSleepOn(t) PROVE TypeOK'
    BY <2>4, <2>m DEF ReturnSleepOn, Leave, Points
  <2>5. ASSUME NEW t \in Task, RepeatInterruptible(t) PROVE TypeOK'
    <3>1. [state EXCEPT ![q[on[t]]] = RUNNING, ![t] = INTERRUPTIBLE] \in [Task -> States]
      BY DEF States
    <3> QED BY <2>5, <3>1, <2>s DEF RepeatInterruptible
  <2>6. ASSUME NEW t \in Task, ReturnInterruptible(t) PROVE TypeOK'
    BY <2>6, <2>m DEF ReturnInterruptible, Leave, Points
  <2>7. ASSUME NEW t \in Task, TakeSignal(t) PROVE TypeOK'
    BY <2>7 DEF TakeSignal
  <2>8. ASSUME NEW t \in Task, Exit(t) PROVE TypeOK'
    <3>1. [state EXCEPT ![t] = ZOMBIE] \in [Task -> States]
      BY DEF States
    <3> QED BY <2>8, <3>1, <2>s DEF Exit, Points
  <2>9. ASSUME NEW t \in Task, Preempt(t) PROVE TypeOK'
    BY <2>9, <2>s DEF Preempt
  <2>10. ASSUME NEW t \in Task, SendSignal(t) PROVE TypeOK'
    BY <2>10 DEF SendSignal
  <2>11. ASSUME IdleLoop PROVE TypeOK'
    BY <2>11, <2>s DEF IdleLoop
  <2>12. ASSUME NEW t \in Task, NEW c \in Chan, WakeByTask(t, c) PROVE TypeOK'
    BY <2>12, <2>w DEF WakeByTask
  <2>13. ASSUME NEW c \in IrqChan, WakeByInterrupt(c) PROVE TypeOK'
    BY <2>13, <2>w, ChanAssumption DEF WakeByInterrupt
  <2>14. CASE UNCHANGED vars
    BY <2>14 DEF vars
  <2> QED
    BY <2>1, <2>2, <2>3, <2>4, <2>5, <2>6, <2>7, <2>8, <2>9, <2>10, <2>11,
       <2>12, <2>13, <2>14 DEF Next, TaskStep
<1> QED BY <1>1, <1>2, PTL DEF Spec

-----------------------------------------------------------------------------

(* In a kernel without interruptible sleepers schedule() changes no state. *)
LEMMA ScanIdentity ==
    ASSUME NEW st \in [Task -> States], \A t \in Task : st[t] # INTERRUPTIBLE
    PROVE  Scan(st) = st
  BY DEF Scan

LEMMA NoInterruptible ==
    ASSUME TypeOK, StateOK
    PROVE  \A t \in Task : state[t] # INTERRUPTIBLE
  BY DEF TypeOK, StateOK, Points, RUNNING, INTERRUPTIBLE, UNINTERRUPTIBLE, ZOMBIE

(* A wake_up keeps the chain when no task is between reading and writing   *)
(* the head of that channel.                                               *)
LEMMA WakeUpKeepsChain ==
    ASSUME TypeOK, ChainInv, NEW c \in Chan, NotEntering(c), wake_up(c)
    PROVE  ChainInv'
<1> USE DEF TypeOK
<1>a. c # NULL /\ NULL \notin Task
  BY ChanAssumption
<1>1. ASSUME NEW t \in Task
      PROVE  /\ state'[t] = IF q[c] = t THEN RUNNING ELSE state[t]
             /\ woken'[t] = (woken[t] \/ (on[t] = c /\ Asleep(t)))
  BY <1>a DEF wake_up, MakeRunning, NotEntering, Asleep, Points
<1>2. \A d \in Chan : q'[d] = IF d = c THEN NULL ELSE q[d]
  BY DEF wake_up
<1>3. pc' = pc /\ on' = on /\ tmp' = tmp /\ current' = current
  BY DEF wake_up
<1>4. q[c] # NULL => /\ q[c] \in Task /\ on[q[c]] = c /\ pc[q[c]] = "asleep"
                     /\ state[q[c]] = UNINTERRUPTIBLE
  BY DEF ChainInv, HeadOK, NotEntering, Asleep
<1>5. StateOK'
  BY <1>1, <1>3, <1>4, <1>a
  DEF ChainInv, StateOK, Asleep, RUNNING, UNINTERRUPTIBLE, ZOMBIE
<1>6. HeadOK'
  <2> SUFFICES ASSUME NEW d \in Chan, d # c, q[d] # NULL
               PROVE  /\ on[q[d]] = d /\ ~woken'[q[d]]
                      /\ pc[q[d]] = "linked" \/ (Asleep(q[d]) /\ state'[q[d]] = UNINTERRUPTIBLE)
    BY <1>2, <1>3 DEF HeadOK, Asleep
  <2> QED BY <1>1, <1>4 DEF ChainInv, HeadOK
<1>7. TmpOK'
  <2> SUFFICES ASSUME NEW u \in Task, tmp[u] # NULL
               PROVE  /\ on[tmp[u]] = on[u]
                      /\ Asleep(tmp[u]) /\ state'[tmp[u]] = UNINTERRUPTIBLE
                      /\ woken'[u] <=> woken'[tmp[u]]
                      /\ q'[on[u]] = tmp[u] => pc[u] = "read"
                      /\ \A v \in Task : tmp[v] = tmp[u] => v = u
    BY <1>3 DEF TmpOK, Asleep
  <2>1. /\ on[tmp[u]] = on[u]
        /\ Asleep(tmp[u]) /\ state[tmp[u]] = UNINTERRUPTIBLE
        /\ woken[u] <=> woken[tmp[u]]
        /\ q[on[u]] = tmp[u] => pc[u] = "read"
        /\ \A v \in Task : tmp[v] = tmp[u] => v = u
        /\ tmp[u] \in Task /\ on[u] \in Chan
    BY DEF ChainInv, TmpOK, StateOK
  <2>2. pc[u] \in {"read", "linked", "asleep"}
    BY <2>1, ChanAssumption DEF ChainInv, StateOK, Points
  <2>3. on[u] = c => Asleep(u)
    BY <2>2 DEF NotEntering, Asleep
  <2>4. q[c] # tmp[u]
    BY <1>4, <2>1, <2>3, <1>a DEF Asleep
  <2>5. woken'[u] <=> woken'[tmp[u]]
    <3>1. CASE on[u] = c
      BY <3>1, <1>1, <2>1, <2>3
    <3>2. CASE on[u] # c
      <4>1. woken'[u] = woken[u] /\ woken'[tmp[u]] = woken[tmp[u]]
        BY <3>2, <1>1, <2>1
      <4> QED BY <4>1, <2>1
    <3> QED BY <3>1, <3>2
  <2>6. q'[on[u]] = tmp[u] => pc[u] = "read"
    BY <1>2, <2>1
  <2> QED BY <1>1, <2>1, <2>4, <2>5, <2>6
<1>8. EntryOK'
  <2> SUFFICES ASSUME NEW u \in Task
               PROVE  /\ pc[u] = "read" => tmp[u] = q'[on[u]]
                      /\ pc[u] = "linked" => q'[on[u]] = u
    BY <1>3 DEF EntryOK
  <2>1. pc[u] \in {"read", "linked"} => on[u] \in Chan /\ on[u] # c
    BY DEF ChainInv, StateOK, NotEntering
  <2> QED BY <1>2, <2>1 DEF ChainInv, EntryOK
<1>9. HeldOK'
  <2> SUFFICES ASSUME NEW t \in Task, Blocked(t)'
               PROVE  q'[on[t]] = t \/ \E u \in Task : tmp[u] = t
    BY <1>3 DEF HeldOK
  <2>1. Blocked(t) /\ q[c] # t /\ on[t] \in Chan
    BY <1>1, <1>3 DEF Blocked, Asleep, RUNNING, INTERRUPTIBLE, UNINTERRUPTIBLE, ChainInv, StateOK
  <2> QED BY <1>2, <2>1 DEF ChainInv, HeldOK
<1>10. NoEarlyWake'
  <2> SUFFICES ASSUME NEW t \in Task, pc[t] = "asleep", on[t] \in SChan, state'[t] = RUNNING
               PROVE  woken'[t]
    BY <1>3 DEF NoEarlyWake, Asleep
  <2>1. CASE q[c] = t
    BY <2>1, <1>1, <1>4, <1>a DEF Asleep
  <2>2. CASE q[c] # t
    BY <2>2, <1>1 DEF ChainInv, NoEarlyWake, Asleep
  <2> QED BY <2>1, <2>2
<1> QED BY <1>5, <1>6, <1>7, <1>8, <1>9, <1>10 DEF ChainInv

-----------------------------------------------------------------------------

LEMMA ScheduleUnchanged ==
    ASSUME NEW st \in [Task -> States], \A t \in Task : st[t] # INTERRUPTIBLE,
           Schedule(st)
    PROVE  /\ state' = st
           /\ current' \in Task \cup {Idle}
           /\ \A t \in Task : current' = t => st[t] = RUNNING
  BY ScanIdentity, ChanAssumption DEF Schedule, Runnable

(* The chain invariant is inductive in a disciplined kernel. *)
LEMMA ChainInvInductive ==
    ASSUME Disciplined, TypeOK, ChainInv, [Next]_vars
    PROVE  ChainInv'
<1> USE DEF TypeOK
<1>a. Chan = SChan /\ NULL \notin Task /\ NULL \notin Chan /\ Idle \notin Task
  BY ChanAssumption DEF Disciplined, Chan
<1>b. \A t \in Task : state[t] # INTERRUPTIBLE
  BY NoInterruptible DEF ChainInv
<1>1. ASSUME NEW t \in Task, NEW c \in Chan, ReadHead(t, c) PROVE ChainInv'
  <2> USE <1>1 DEF ReadHead
  <2>1. StateOK'
    BY <1>a DEF ChainInv, StateOK, Asleep
  <2>2. HeadOK'
    <3>1. \A d \in Chan : q[d] # t
      BY <1>a DEF ChainInv, HeadOK, Asleep
    <3> QED BY <3>1, <1>a DEF ChainInv, HeadOK, Asleep
  <2>3. \A v \in Task : tmp[v] # t
    BY <1>a DEF ChainInv, TmpOK, Asleep
  <2>4. q[c] # NULL => /\ q[c] \in Task /\ on[q[c]] = c /\ ~woken[q[c]]
                       /\ Asleep(q[c]) /\ state[q[c]] = UNINTERRUPTIBLE
                       /\ \A v \in Task : tmp[v] # q[c]
    <3> SUFFICES ASSUME q[c] # NULL
                 PROVE  /\ q[c] \in Task /\ on[q[c]] = c /\ ~woken[q[c]]
                        /\ Asleep(q[c]) /\ state[q[c]] = UNINTERRUPTIBLE
                        /\ \A v \in Task : tmp[v] # q[c]
      OBVIOUS
    <3>1. /\ q[c] \in Task /\ on[q[c]] = c /\ ~woken[q[c]]
          /\ pc[q[c]] = "linked" \/ (Asleep(q[c]) /\ state[q[c]] = UNINTERRUPTIBLE)
      BY DEF ChainInv, HeadOK
    <3>2. \A v \in Task : pc[v] \notin {"read", "linked"}
      BY DEF ChainInv, StateOK
    <3>3. ASSUME NEW v \in Task PROVE tmp[v] # q[c]
      BY <3>1, <3>2, <1>a DEF ChainInv, TmpOK
    <3> QED BY <3>1, <3>2, <3>3
  <2>5. TmpOK'
    <3> SUFFICES ASSUME NEW u \in Task, tmp'[u] # NULL
                 PROVE  /\ on'[tmp'[u]] = on'[u]
                        /\ pc'[tmp'[u]] = "asleep" /\ state[tmp'[u]] = UNINTERRUPTIBLE
                        /\ woken'[u] <=> woken'[tmp'[u]]
                        /\ q[on'[u]] = tmp'[u] => pc'[u] = "read"
                        /\ \A v \in Task : tmp'[v] = tmp'[u] => v = u
      BY DEF TmpOK, Asleep
    <3>1. CASE u = t
      <4>1. q[c] # t
        BY <1>a DEF ChainInv, HeadOK, Asleep
      <4> QED BY <3>1, <4>1, <2>4 DEF Asleep
    <3>2. CASE u # t
      <4>1. tmp'[u] = tmp[u] /\ tmp[u] # t /\ tmp[u] \in Task
        BY <3>2, <2>3
      <4>2. q[c] # tmp[u]
        BY <4>1, <2>4, <3>2
      <4> QED BY <3>2, <4>1, <4>2 DEF ChainInv, TmpOK, Asleep
    <3> QED BY <3>1, <3>2
  <2>6. EntryOK'
    BY <1>a DEF ChainInv, EntryOK, StateOK
  <2>7. HeldOK'
    <3> SUFFICES ASSUME NEW x \in Task, Blocked(x)'
                 PROVE  q[on'[x]] = x \/ \E u \in Task : tmp'[u] = x
      BY DEF HeldOK
    <3>1. x # t /\ Blocked(x)
      BY DEF Blocked, Asleep
    <3>2. q[on[x]] = x \/ \E u \in Task : tmp[u] = x
      BY <3>1 DEF ChainInv, HeldOK
    <3>3. tmp[t] = NULL
      BY DEF ChainInv, StateOK
    <3> QED BY <3>1, <3>2, <3>3, <1>a
  <2>8. NoEarlyWake'
    BY DEF ChainInv, NoEarlyWake, Asleep
  <2> QED BY <2>1, <2>2, <2>5, <2>6, <2>7, <2>8 DEF ChainInv
<1>2. ASSUME NEW t \in Task, LinkSelf(t) PROVE ChainInv'
  <2> USE <1>2 DEF LinkSelf
  <2>1. on[t] \in Chan /\ tmp[t] = q[on[t]] /\ ~woken[t]
    BY DEF ChainInv, StateOK, EntryOK, Asleep
  <2>2. StateOK'
    BY DEF ChainInv, StateOK, Asleep
  <2>3. HeadOK'
    BY <2>1, <1>a DEF ChainInv, HeadOK, Asleep
  <2>4. \A v \in Task : tmp[v] # t
    BY <1>a DEF ChainInv, TmpOK, Asleep
  <2>5. TmpOK'
    BY <2>1, <2>4, <1>a DEF ChainInv, TmpOK, Asleep, StateOK
  <2>6. EntryOK'
    BY <2>1 DEF ChainInv, EntryOK, StateOK
  <2>7. HeldOK'
    BY <2>1, <1>a DEF ChainInv, HeldOK, Blocked, Asleep
  <2>8. NoEarlyWake'
    BY DEF ChainInv, NoEarlyWake, Asleep
  <2> QED BY <2>2, <2>3, <2>5, <2>6, <2>7, <2>8 DEF ChainInv
<1>3. ASSUME NEW t \in Task, Suspend(t) PROVE ChainInv'
  <2> USE <1>3 DEF Suspend
  <2>1. on[t] \in SChan /\ q[on[t]] = t /\ on[t] # NULL /\ tmp[t] # t
    BY <1>a DEF ChainInv, StateOK, EntryOK, TmpOK, Asleep
  <2>2. /\ state' = [state EXCEPT ![t] = UNINTERRUPTIBLE]
        /\ \A u \in Task : current' = u => state'[u] = RUNNING
    <3>1. SleepState(on[t]) = UNINTERRUPTIBLE
      BY <2>1 DEF SleepState, Disciplined
    <3>2. [state EXCEPT ![t] = UNINTERRUPTIBLE] \in [Task -> States]
      BY DEF States
    <3>3. \A u \in Task : [state EXCEPT ![t] = UNINTERRUPTIBLE][u] # INTERRUPTIBLE
      BY <1>b DEF UNINTERRUPTIBLE, INTERRUPTIBLE
    <3> QED BY <3>1, <3>2, <3>3, ScheduleUnchanged
  <2>3. \A v \in Task : v # t => pc[v] \notin {"read", "linked"}
    BY DEF ChainInv, StateOK
  <2>4. StateOK'
    BY <2>1, <2>2, <2>3 DEF ChainInv, StateOK, Asleep, RUNNING, UNINTERRUPTIBLE, ZOMBIE
  <2>5. HeadOK'
    BY <2>2, <2>1 DEF ChainInv, HeadOK, Asleep
  <2>6. TmpOK'
    BY <2>2, <2>1 DEF ChainInv, TmpOK, Asleep
  <2>7. EntryOK'
    BY <2>3 DEF ChainInv, EntryOK
  <2>8. HeldOK'
    BY <2>1, <2>2 DEF ChainInv, HeldOK, Blocked, Asleep
  <2>9. NoEarlyWake'
    BY <2>2 DEF ChainInv, NoEarlyWake, Asleep, RUNNING, UNINTERRUPTIBLE
  <2> QED BY <2>4, <2>5, <2>6, <2>7, <2>8, <2>9 DEF ChainInv
<1>4. ASSUME NEW t \in Task, ReturnSleepOn(t) PROVE ChainInv'
  <2> USE <1>4 DEF ReturnSleepOn, Leave
  <2>1. /\ on[t] # NULL /\ woken[t]
        /\ \A d \in Chan : q[d] # t
        /\ \A v \in Task : tmp[v] # t
    BY <1>a DEF ChainInv, StateOK, HeadOK, TmpOK, NoEarlyWake, Asleep,
                RUNNING, UNINTERRUPTIBLE
  <2>2. \A v \in Task : pc[v] \notin {"read", "linked"}
    BY DEF ChainInv, StateOK
  <2>3. tmp[t] # NULL =>
          /\ tmp[t] \in Task /\ Asleep(tmp[t]) /\ woken[tmp[t]]
          /\ state[tmp[t]] = UNINTERRUPTIBLE
          /\ \A d \in Chan : q[d] # tmp[t]
          /\ \A v \in Task : tmp[v] = tmp[t] => v = t
    BY <2>1, <2>2 DEF ChainInv, TmpOK, HeadOK
  <2>4. \A v \in Task :
          state'[v] = IF tmp[t] = v THEN RUNNING ELSE state[v]
    BY <1>a DEF MakeRunning
  <2>5. StateOK'
    BY <2>3, <2>4, <1>a DEF ChainInv, StateOK, Asleep, RUNNING, UNINTERRUPTIBLE
  <2>6. HeadOK'
    BY <2>1, <2>3, <2>4 DEF ChainInv, HeadOK, Asleep
  <2>7. TmpOK'
    <3> SUFFICES ASSUME NEW u \in Task, u # t, tmp[u] # NULL
                 PROVE  /\ on'[tmp[u]] = on[u]
                        /\ pc'[tmp[u]] = "asleep" /\ state'[tmp[u]] = UNINTERRUPTIBLE
                        /\ woken[u] <=> woken'[tmp[u]]
                        /\ q[on[u]] = tmp[u] => pc[u] = "read"
                        /\ \A v \in Task : tmp'[v] = tmp[u] => v = u
      BY DEF TmpOK, Asleep
    <3>1. tmp[u] \in Task /\ tmp[u] # t /\ tmp[u] # tmp[t]
      BY <2>1, <2>3
    <3> QED BY <3>1, <2>4 DEF ChainInv, TmpOK, Asleep
  <2>8. EntryOK'
    BY <2>2 DEF ChainInv, EntryOK
  <2>9. HeldOK'
    <3> SUFFICES ASSUME NEW x \in Task, Blocked(x)'
                 PROVE  q[on'[x]] = x \/ \E u \in Task : tmp'[u] = x
      BY DEF HeldOK
    <3>1. x # t /\ x # tmp[t] /\ Blocked(x)
      BY <2>4 DEF Blocked, Asleep, RUNNING, INTERRUPTIBLE, UNINTERRUPTIBLE
    <3>2. q[on[x]] = x \/ \E u \in Task : tmp[u] = x
      BY <3>1 DEF ChainInv, HeldOK
    <3> QED BY <3>1, <3>2
  <2>10. NoEarlyWake'
    <3> SUFFICES ASSUME NEW x \in Task, x # t, Asleep(x), on[x] \in SChan, state'[x] = RUNNING
                 PROVE  woken[x]
      BY DEF NoEarlyWake, Asleep
    <3> QED BY <2>3, <2>4, <1>a DEF ChainInv, NoEarlyWake
  <2> QED BY <2>5, <2>6, <2>7, <2>8, <2>9, <2>10 DEF ChainInv
<1>5. ASSUME NEW t \in Task, NEW c \in Chan, WakeByTask(t, c) PROVE ChainInv'
  <2>1. NotEntering(c)
    BY <1>5 DEF WakeByTask, NotEntering, ChainInv, StateOK
  <2> QED BY <1>5, <2>1, WakeUpKeepsChain DEF WakeByTask
<1>6. ASSUME NEW c \in IrqChan, WakeByInterrupt(c) PROVE ChainInv'
  <2>1. c \in Chan
    BY ChanAssumption
  <2>2. NotEntering(c)
    BY <1>6, <1>a DEF WakeByInterrupt, InterruptsOn, NotEntering, ChainInv, StateOK, Disciplined
  <2> QED BY <1>6, <2>1, <2>2, WakeUpKeepsChain DEF WakeByInterrupt
<1>7. ASSUME NEW t \in Task, Exit(t) PROVE ChainInv'
  <2> USE <1>7 DEF Exit
  <2>1. /\ on[t] = NULL /\ ~woken[t]
        /\ \A d \in Chan : q[d] # t
        /\ \A v \in Task : tmp[v] # t
        /\ \A v \in Task : pc[v] \notin {"read", "linked"}
    BY <1>a DEF ChainInv, StateOK, HeadOK, TmpOK, Asleep
  <2>2. /\ state' = [state EXCEPT ![t] = ZOMBIE]
        /\ \A u \in Task : current' = u => state'[u] = RUNNING
    <3>1. [state EXCEPT ![t] = ZOMBIE] \in [Task -> States]
      BY DEF States
    <3>2. \A u \in Task : [state EXCEPT ![t] = ZOMBIE][u] # INTERRUPTIBLE
      BY <1>b DEF ZOMBIE, INTERRUPTIBLE
    <3> QED BY <3>1, <3>2, ScheduleUnchanged
  <2>3. StateOK'
    BY <2>1, <2>2 DEF ChainInv, StateOK, Asleep
  <2>4. HeadOK'
    BY <2>1, <2>2 DEF ChainInv, HeadOK, Asleep
  <2>5. TmpOK'
    BY <2>1, <2>2 DEF ChainInv, TmpOK, Asleep
  <2>6. EntryOK'
    BY <2>1 DEF ChainInv, EntryOK
  <2>7. HeldOK'
    BY <2>2 DEF ChainInv, HeldOK, Blocked, Asleep
  <2>8. NoEarlyWake'
    BY <2>2 DEF ChainInv, NoEarlyWake, Asleep
  <2> QED BY <2>3, <2>4, <2>5, <2>6, <2>7, <2>8 DEF ChainInv
<1>8. ASSUME UNCHANGED <<q, state, pc, on, tmp, woken>>,
             \A t \in Task : pc[t] \notin {"read", "linked"} \/ current' = current,
             \A t \in Task : current' = t => state[t] = RUNNING
      PROVE  ChainInv'
  <2>1. StateOK'
    BY <1>8 DEF ChainInv, StateOK, Asleep
  <2> QED
    BY <1>8, <2>1 DEF ChainInv, HeadOK, TmpOK, EntryOK, HeldOK, NoEarlyWake, Asleep, Blocked
<1>9. ASSUME NEW t \in Task, Preempt(t) PROVE ChainInv'
  <2>1. Schedule(state) /\ UNCHANGED <<q, pc, on, tmp, woken>>
    BY <1>9 DEF Preempt
  <2>2. state' = state /\ \A u \in Task : current' = u => state[u] = RUNNING
    BY <2>1, <1>b, ScheduleUnchanged
  <2>3. \A u \in Task : pc[u] \notin {"read", "linked"}
    BY <1>9 DEF Preempt, ChainInv, StateOK
  <2> QED BY <2>1, <2>2, <2>3, <1>8
<1>10. ASSUME IdleLoop PROVE ChainInv'
  <2>1. Schedule(state) /\ UNCHANGED <<q, pc, on, tmp, woken>>
    BY <1>10 DEF IdleLoop
  <2>2. state' = state /\ \A u \in Task : current' = u => state[u] = RUNNING
    BY <2>1, <1>b, ScheduleUnchanged
  <2>3. \A u \in Task : pc[u] \notin {"read", "linked"}
    BY <1>10, <1>a DEF IdleLoop, ChainInv, StateOK
  <2> QED BY <2>1, <2>2, <2>3, <1>8
<1>11. ASSUME NEW t \in Task, TakeSignal(t) \/ SendSignal(t) PROVE ChainInv'
  BY <1>11, <1>8 DEF TakeSignal, SendSignal, ChainInv, StateOK
<1>12. ASSUME NEW t \in Task, RepeatInterruptible(t) \/ ReturnInterruptible(t) PROVE FALSE
  BY <1>12 DEF RepeatInterruptible, ReturnInterruptible, Disciplined
<1>13. CASE UNCHANGED vars
  BY <1>13, <1>8 DEF vars, ChainInv, StateOK
<1> QED
  BY <1>1, <1>2, <1>3, <1>4, <1>5, <1>6, <1>7, <1>9, <1>10, <1>11, <1>12, <1>13
  DEF Next, TaskStep

-----------------------------------------------------------------------------

(* The pointers and local variables of sleep_on form chains, and the tasks *)
(* of a chain are all woken or all waiting.                                *)
THEOREM ChainCorrect ==
    ASSUME Disciplined
    PROVE  Spec => []ChainInv
<1>1. Init => ChainInv
  BY ChanAssumption
  DEF Init, ChainInv, StateOK, HeadOK, TmpOK, EntryOK, HeldOK, NoEarlyWake,
      Asleep, Blocked, RUNNING, INTERRUPTIBLE, UNINTERRUPTIBLE
<1>2. TypeOK /\ ChainInv /\ [Next]_vars => ChainInv'
  BY ChainInvInductive
<1> QED BY <1>1, <1>2, TypeCorrect, PTL DEF Spec

(* sched.c:169: in such a kernel a task leaves sleep_on only after a       *)
(* wake_up of the channel it sleeps on.                                    *)
THEOREM SleepersAreWokenExplicitly ==
    ASSUME Disciplined
    PROVE  Spec => []NoEarlyWake
<1>1. ChainInv => NoEarlyWake
  BY DEF ChainInv
<1> QED BY <1>1, ChainCorrect, PTL

(* In such a kernel nothing makes a zombie runnable again: no tmp of a     *)
(* sleeper and no head of a channel points to a task that has exited.      *)
THEOREM ZombiesStay ==
    ASSUME Disciplined
    PROVE  Spec => ZombieStays
<1>1. TypeOK /\ ChainInv /\ [Next]_vars =>
        [\A t \in Task : state[t] = ZOMBIE => state'[t] = ZOMBIE]_vars
  <2> SUFFICES ASSUME TypeOK, ChainInv, Next, NEW z \in Task, state[z] = ZOMBIE
               PROVE  state'[z] = ZOMBIE
    BY DEF vars
  <2> USE DEF TypeOK
  <2>a. /\ NULL \notin Task /\ ChainInv
        /\ \A t \in Task : state[t] # INTERRUPTIBLE
    BY ChanAssumption, NoInterruptible DEF ChainInv
  <2>b. /\ pc[z] = "dead" /\ on[z] = NULL /\ current # z
        /\ \A c \in Chan : q[c] # z
        /\ \A u \in Task : tmp[u] # z
    BY <2>a, ChanAssumption
    DEF ChainInv, StateOK, HeadOK, TmpOK, Asleep, Points, RUNNING, UNINTERRUPTIBLE, ZOMBIE
  <2>c. ASSUME NEW x \in Task \cup {NULL}, x # z, state' = MakeRunning(state, x)
        PROVE  state'[z] = ZOMBIE
    BY <2>c DEF MakeRunning
  <2>s. ASSUME NEW st \in [Task -> States], Schedule(st), st[z] = ZOMBIE
        PROVE  state'[z] = ZOMBIE
    BY <2>s DEF Schedule, Scan, ZOMBIE, INTERRUPTIBLE
  <2>1. ASSUME NEW t \in Task, Suspend(t) PROVE state'[z] = ZOMBIE
    <3>1. [state EXCEPT ![t] = SleepState(on[t])] \in [Task -> States]
      BY DEF SleepState, States
    <3> QED BY <2>1, <2>b, <2>s, <3>1 DEF Suspend
  <2>2. ASSUME NEW t \in Task, ReturnSleepOn(t) \/ ReturnInterruptible(t)
        PROVE  state'[z] = ZOMBIE
    BY <2>2, <2>b, <2>c DEF ReturnSleepOn, ReturnInterruptible
  <2>3. ASSUME NEW t \in Task, RepeatInterruptible(t) PROVE state'[z] = ZOMBIE
    <3>1. on[t] \in Chan /\ q[on[t]] # z
      BY <2>3, <2>b DEF RepeatInterruptible, Chan
    <3>2. [state EXCEPT ![q[on[t]]] = RUNNING, ![t] = INTERRUPTIBLE] \in [Task -> States]
      BY DEF States
    <3> QED BY <2>3, <2>b, <2>s, <3>1, <3>2 DEF RepeatInterruptible
  <2>4. ASSUME NEW c \in Chan, wake_up(c) PROVE state'[z] = ZOMBIE
    BY <2>4, <2>b, <2>c DEF wake_up
  <2>5. ASSUME NEW t \in Task, Exit(t) PROVE state'[z] = ZOMBIE
    <3>1. [state EXCEPT ![t] = ZOMBIE] \in [Task -> States]
      BY DEF States
    <3> QED BY <2>5, <2>b, <2>s, <3>1 DEF Exit
  <2>6. ASSUME Schedule(state) PROVE state'[z] = ZOMBIE
    BY <2>6, <2>s
  <2> QED
    BY <2>1, <2>2, <2>3, <2>4, <2>5, <2>6, ChanAssumption
    DEF Next, TaskStep, ReadHead, LinkSelf, WakeByTask, TakeSignal, Preempt,
        WakeByInterrupt, SendSignal, IdleLoop
<1> QED BY <1>1, TypeCorrect, ChainCorrect, PTL DEF Spec, ZombieStays

-----------------------------------------------------------------------------

WSWaiting == [c \in Chan |-> {t \in Task : on[t] = c /\ Linked(t) /\ ~woken[t]}]
WSReleased == {t \in Task : woken[t]}

(* A wake_up of the pointer releases the whole set of waiting tasks. *)
LEMMA WakeUpReleasesAll ==
    ASSUME TypeOK, StateOK, NEW c \in Chan, NotEntering(c), wake_up(c)
    PROVE  WS!WakeAll(c)
<1> USE DEF TypeOK
<1>1. \A t \in Task : woken'[t] = (woken[t] \/ (on[t] = c /\ Linked(t)))
  BY DEF wake_up, Linked
<1>2. pc' = pc /\ on' = on
  BY DEF wake_up
<1>3. WSWaiting' = [WSWaiting EXCEPT ![c] = {}]
  BY <1>1, <1>2 DEF WSWaiting, Linked
<1>4. WSReleased' = WSReleased \cup WSWaiting[c]
  BY <1>1, <1>2 DEF WSWaiting, WSReleased
<1> QED BY <1>3, <1>4 DEF WS!WakeAll, WSWaiting, WSReleased

(* In a disciplined kernel sleep_on and wake_up implement the abstract set *)
(* of waiting tasks: linking adds the task, wake_up empties the set, and a *)
(* task returns only when it is no longer in it.                           *)
THEOREM ImplementsSet ==
    ASSUME Disciplined
    PROVE  Spec => ImplementsWaitSet
<1>1. Init => WS!Init
  BY DEF Init, WS!Init, Linked
<1>2. TypeOK /\ ChainInv /\ [Next]_vars => [WS!Next]_(WS!vars)
  <2> SUFFICES ASSUME TypeOK, ChainInv, [Next]_vars
               PROVE  WS!Next \/ UNCHANGED <<WSWaiting, WSReleased>>
    BY DEF WS!vars, WSWaiting, WSReleased
  <2> USE DEF TypeOK
  <2>a. NULL \notin Task /\ NULL \notin Chan /\ Chan = SChan
    BY ChanAssumption DEF Disciplined, Chan
  <2>u. ASSUME UNCHANGED <<on, woken>>,
               \A t \in Task : on[t] # NULL => Linked(t)' = Linked(t)
        PROVE  UNCHANGED <<WSWaiting, WSReleased>>
    <3>1. ASSUME NEW c \in Chan
          PROVE  {t \in Task : on[t] = c /\ Linked(t) /\ ~woken[t]}
                   = {t \in Task : on'[t] = c /\ Linked(t)' /\ ~woken'[t]}
      BY <2>u, <2>a
    <3> QED BY <2>u, <3>1 DEF WSWaiting, WSReleased
  <2>1. ASSUME NEW t \in Task, NEW c \in Chan, ReadHead(t, c)
        PROVE  UNCHANGED <<WSWaiting, WSReleased>>
    <3>1. ~woken[t] /\ on[t] = NULL
      BY <2>1 DEF ReadHead, ChainInv, StateOK, Asleep
    <3>2. woken' = woken
      BY <2>1, <3>1 DEF ReadHead
    <3>3. ASSUME NEW d \in Chan, NEW u \in Task
          PROVE  (on'[u] = d /\ Linked(u)') <=> (on[u] = d /\ Linked(u))
      BY <2>1, <3>1, <2>a DEF ReadHead, Linked
    <3> QED BY <3>2, <3>3 DEF WSWaiting, WSReleased
  <2>2. ASSUME NEW t \in Task, LinkSelf(t) PROVE WS!Next
    <3>1. on[t] \in Chan /\ ~woken[t] /\ ~Linked(t)
      BY <2>2 DEF LinkSelf, ChainInv, StateOK, Asleep, Linked
    <3>2. WSWaiting' = [WSWaiting EXCEPT ![on[t]] = @ \cup {t}]
      <4>1. ASSUME NEW d \in Chan, NEW u \in Task
            PROVE  (on'[u] = d /\ Linked(u)' /\ ~woken'[u])
                     <=> \/ on[u] = d /\ Linked(u) /\ ~woken[u]
                         \/ d = on[t] /\ u = t
        BY <2>2, <3>1 DEF LinkSelf, Linked
      <4>2. ASSUME NEW d \in Chan
            PROVE  {u \in Task : on'[u] = d /\ Linked(u)' /\ ~woken'[u]}
                     = IF d = on[t] THEN WSWaiting[d] \cup {t} ELSE WSWaiting[d]
        BY <4>1 DEF WSWaiting
      <4> QED BY <4>2, <3>1 DEF WSWaiting
    <3>3. UNCHANGED WSReleased
      BY <2>2 DEF LinkSelf, WSReleased
    <3>4. t \notin WSReleased /\ \A c \in Chan : t \notin WSWaiting[c]
      BY <3>1 DEF WSWaiting, WSReleased
    <3>5. PICK c \in Chan : c = on[t]
      BY <3>1
    <3>6. WS!Sleep(t, c)
      BY <3>2, <3>3, <3>4, <3>5 DEF WS!Sleep, WSWaiting, WSReleased
    <3> QED BY <3>6 DEF WS!Next
  <2>3. ASSUME NEW t \in Task, ReturnSleepOn(t) PROVE WS!Next
    <3>1. woken[t] /\ on[t] \in Chan
      BY <2>3, <2>a DEF ReturnSleepOn, ChainInv, NoEarlyWake, StateOK, Asleep
    <3>2. WSReleased' = WSReleased \ {t}
      BY <2>3 DEF ReturnSleepOn, Leave, WSReleased
    <3>3. ASSUME NEW c \in Chan, NEW u \in Task
          PROVE  (on[u] = c /\ Linked(u) /\ ~woken[u])
                   <=> (on'[u] = c /\ Linked(u)' /\ ~woken'[u])
      BY <2>3, <3>1, <2>a DEF ReturnSleepOn, Leave, Linked
    <3>4. UNCHANGED WSWaiting
      BY <3>3 DEF WSWaiting
    <3> QED BY <3>1, <3>2, <3>4 DEF WS!Next, WS!Return, WSWaiting, WSReleased
  <2>4. ASSUME NEW c \in Chan, NotEntering(c), wake_up(c) PROVE WS!Next
    BY <2>4, WakeUpReleasesAll DEF WS!Next, ChainInv
  <2>5. ASSUME NEW t \in Task, NEW c \in Chan, WakeByTask(t, c) PROVE WS!Next
    BY <2>4, <2>5 DEF WakeByTask, NotEntering, ChainInv, StateOK
  <2>6. ASSUME NEW c \in IrqChan, WakeByInterrupt(c) PROVE WS!Next
    <3>1. c \in Chan
      BY ChanAssumption
    <3>2. NotEntering(c)
      BY <2>6, ChanAssumption
      DEF WakeByInterrupt, InterruptsOn, NotEntering, ChainInv, StateOK, Disciplined
    <3> QED BY <2>4, <2>6, <3>1, <3>2 DEF WakeByInterrupt
  <2>7. ASSUME NEW t \in Task, Suspend(t) PROVE UNCHANGED <<WSWaiting, WSReleased>>
    BY <2>7, <2>u DEF Suspend, Linked
  <2>8. ASSUME NEW t \in Task, Exit(t) PROVE UNCHANGED <<WSWaiting, WSReleased>>
    BY <2>8, <2>u DEF Exit, Linked, ChainInv, StateOK
  <2>9. ASSUME NEW t \in Task,
               TakeSignal(t) \/ SendSignal(t) \/ Preempt(t)
        PROVE  UNCHANGED <<WSWaiting, WSReleased>>
    BY <2>9, <2>u DEF TakeSignal, SendSignal, Preempt, Linked
  <2>10. ASSUME IdleLoop PROVE UNCHANGED <<WSWaiting, WSReleased>>
    BY <2>10, <2>u DEF IdleLoop, Linked
  <2>11. ASSUME NEW t \in Task, RepeatInterruptible(t) \/ ReturnInterruptible(t) PROVE FALSE
    BY <2>11 DEF RepeatInterruptible, ReturnInterruptible, Disciplined
  <2>12. CASE UNCHANGED vars
    BY <2>12, <2>u DEF vars, Linked
  <2> QED
    BY <2>1, <2>2, <2>3, <2>5, <2>6, <2>7, <2>8, <2>9, <2>10, <2>11, <2>12
    DEF Next, TaskStep
<1> QED BY <1>1, <1>2, TypeCorrect, ChainCorrect, PTL DEF Spec, WS!Spec, ImplementsWaitSet
-----------------------------------------------------------------------------
(* The tasks that no signal rescues. *)
Stuck(t) == Asleep(t) /\ state[t] = UNINTERRUPTIBLE

(* A pointer to the sleeper x that a wake-up of x's channel will follow    *)
(* from outside the set B.                                                 *)
HeldFrom(B, x) ==
    \/ q[on[x]] = x
    \/ \E u \in Task \ B : Linked(u) /\ on[u] = on[x] /\ tmp[u] = x

(* Every set of sleepers of one channel is held from outside: this keeps   *)
(* the pointers from closing a circle, whatever stray wake-ups do.         *)
HeldFromOutside ==
    \A c \in SChan : \A B \in SUBSET Task :
        B # {} /\ (\A x \in B : Stuck(x) /\ on[x] = c) => \E x \in B : HeldFrom(B, x)

EnteringOK ==
    \A u \in Task :
        /\ pc[u] \in {"read", "linked"} => current = u /\ on[u] \in Chan
        /\ pc[u] = "read" /\ on[u] \in SChan => tmp[u] = q[on[u]]
        /\ pc[u] = "linked" /\ on[u] \in SChan => q[on[u]] = u
        /\ pc[u] = "asleep" /\ on[u] \in SChan => state[u] \in {RUNNING, UNINTERRUPTIBLE}
        /\ pc[u] = "asleep" /\ on[u] \notin SChan => state[u] # UNINTERRUPTIBLE
        /\ pc[u] = "asleep" => on[u] \in Chan

HeldInv == HeldFromOutside /\ EnteringOK

(* Interrupt handlers wake only channels that sleepers enter with          *)
(* interrupts off.                                                         *)
Guarded == IrqChan \cap OpenChan = {}

(* Of what a step may do, enough to keep sleepers held: whoever is stuck   *)
(* after it was so before, and is held from where he was.                  *)
LEMMA HeldKept ==
    ASSUME HeldFromOutside,
           \A x \in Task : Stuck(x)' /\ on'[x] \in SChan =>
               /\ Stuck(x) /\ on'[x] = on[x]
               /\ \A B \in SUBSET Task :
                     (\A y \in B : Stuck(y)') /\ HeldFrom(B, x) => HeldFrom(B, x)'
    PROVE  HeldFromOutside'
<1> SUFFICES ASSUME NEW c \in SChan, NEW B \in SUBSET Task, B # {},
                    \A x \in B : Stuck(x)' /\ on'[x] = c
             PROVE  \E x \in B : HeldFrom(B, x)'
  BY DEF HeldFromOutside
<1>1. \A x \in B : Stuck(x) /\ on[x] = c
  OBVIOUS
<1>2. PICK x \in B : HeldFrom(B, x)
  BY <1>1 DEF HeldFromOutside
<1>3. HeldFrom(B, x)'
  BY <1>2
<1> QED
  BY <1>3

LEMMA WakeUpKeepsHeld ==
    ASSUME TypeOK, HeldInv, NEW c \in Chan, NotEntering(c) \/ c \notin SChan, wake_up(c)
    PROVE  HeldInv'
<1> USE DEF TypeOK
<1>1. pc' = pc /\ on' = on /\ tmp' = tmp /\ current' = current
      /\ \A d \in Chan : q'[d] = IF d = c THEN NULL ELSE q[d]
  BY DEF wake_up
<1>2. \A x \in Task : state'[x] = IF q[c] = x THEN RUNNING ELSE state[x]
  BY ChanAssumption DEF wake_up, MakeRunning
<1>3. EnteringOK'
  BY <1>1, <1>2 DEF HeldInv, EnteringOK, NotEntering, RUNNING, UNINTERRUPTIBLE
<1>4. HeldFromOutside'
  <2> SUFFICES ASSUME NEW x \in Task, Stuck(x)', on[x] \in SChan
               PROVE  /\ Stuck(x)
                      /\ \A B \in SUBSET Task : HeldFrom(B, x) => HeldFrom(B, x)'
    BY <1>1, HeldKept DEF HeldInv
  <2>1. Stuck(x) /\ q[c] # x
    BY <1>1, <1>2 DEF Stuck, Asleep, RUNNING, UNINTERRUPTIBLE
  <2> QED
    BY <1>1, <2>1 DEF HeldFrom, Linked, Chan
<1> QED
  BY <1>3, <1>4 DEF HeldInv

(* The states after schedule are those before, but for the interruptible   *)
(* sleepers with a signal.                                                 *)
LEMMA ScheduleKeepsStuck ==
    ASSUME NEW st \in [Task -> States], Schedule(st)
    PROVE  /\ state' \in [Task -> States] /\ current' \in Task \cup {Idle}
           /\ \A x \in Task : state'[x] = UNINTERRUPTIBLE <=> st[x] = UNINTERRUPTIBLE
           /\ \A x \in Task : st[x] = RUNNING => state'[x] = RUNNING
           /\ \A x \in Task : current' = x => state'[x] = RUNNING
  BY ChanAssumption
  DEF Schedule, Scan, Runnable, States, RUNNING, INTERRUPTIBLE, UNINTERRUPTIBLE

LEMMA HeldInvInductive ==
    ASSUME Guarded, TypeOK, HeldInv, [Next]_vars
    PROVE  HeldInv'
<1> USE DEF TypeOK
<1>a. NULL \notin Task /\ NULL \notin Chan /\ Idle \notin Task /\ SChan \cap IChan = {}
      /\ SChan \subseteq Chan
  BY ChanAssumption DEF Chan
<1>1. ASSUME NEW t \in Task, NEW c \in Chan, ReadHead(t, c) PROVE HeldInv'
  <2> USE <1>1 DEF ReadHead
  <2>1. EnteringOK'
    BY DEF HeldInv, EnteringOK
  <2>2. HeldFromOutside'
    <3> SUFFICES ASSUME NEW x \in Task, Stuck(x)'
                 PROVE  /\ Stuck(x) /\ on'[x] = on[x]
                        /\ \A B \in SUBSET Task : HeldFrom(B, x) => HeldFrom(B, x)'
      BY HeldKept DEF HeldInv
    <3>1. Stuck(x) /\ x # t
      BY DEF Stuck, Asleep
    <3> QED
      BY <3>1 DEF HeldFrom, Linked
  <2> QED BY <2>1, <2>2 DEF HeldInv
<1>2. ASSUME NEW t \in Task, LinkSelf(t) PROVE HeldInv'
  <2> USE <1>2 DEF LinkSelf
  <2>0. on[t] \in Chan /\ \A u \in Task : u # t => pc[u] \notin {"read", "linked"}
    BY DEF HeldInv, EnteringOK
  <2>1. EnteringOK'
    BY <2>0 DEF HeldInv, EnteringOK
  <2>2. HeldFromOutside'
    <3> SUFFICES ASSUME NEW x \in Task, Stuck(x)', on[x] \in SChan,
                        NEW B \in SUBSET Task, \A y \in B : Stuck(y)', HeldFrom(B, x)
                 PROVE  HeldFrom(B, x)'
      BY HeldKept DEF HeldInv, Stuck, Asleep
    <3>1. t \notin B
      BY DEF Stuck, Asleep
    <3>2. CASE q[on[x]] = x /\ on[x] = on[t]
      <4>1. tmp[t] = x
        BY <3>2 DEF HeldInv, EnteringOK
      <4> QED BY <3>1, <3>2, <4>1 DEF HeldFrom, Linked
    <3>3. CASE q[on[x]] = x /\ on[x] # on[t]
      BY <3>3, <2>0, <1>a DEF HeldFrom
    <3>4. CASE q[on[x]] # x
      BY <3>4 DEF HeldFrom, Linked
    <3> QED BY <3>2, <3>3, <3>4
  <2> QED BY <2>1, <2>2 DEF HeldInv
<1>3. ASSUME NEW t \in Task, Suspend(t) PROVE HeldInv'
  <2> USE <1>3 DEF Suspend
  <2> DEFINE st == [state EXCEPT ![t] = SleepState(on[t])]
  <2>1. st \in [Task -> States] /\ Schedule(st)
    BY DEF SleepState, States
  <2> HIDE DEF st
  <2>2. /\ \A x \in Task : state'[x] = UNINTERRUPTIBLE <=> st[x] = UNINTERRUPTIBLE
        /\ \A x \in Task : st[x] = RUNNING => state'[x] = RUNNING
    BY <2>1, ScheduleKeepsStuck
  <2>3. \A x \in Task : x # t => st[x] = state[x]
    BY DEF st
  <2>4. st[t] = IF on[t] \in IChan THEN INTERRUPTIBLE ELSE UNINTERRUPTIBLE
    BY DEF st, SleepState
  <2>5. on[t] \in Chan /\ (on[t] \in SChan => q[on[t]] = t)
        /\ \A u \in Task : u # t => pc[u] \notin {"read", "linked"}
    BY DEF HeldInv, EnteringOK
  <2>6. EnteringOK'
    BY <1>a, <2>2, <2>3, <2>4, <2>5
    DEF HeldInv, EnteringOK, Chan, INTERRUPTIBLE, UNINTERRUPTIBLE
  <2>7. HeldFromOutside'
    <3> SUFFICES ASSUME NEW c \in SChan, NEW B \in SUBSET Task, B # {},
                        \A x \in B : Stuck(x)' /\ on[x] = c
                 PROVE  \E x \in B : HeldFrom(B, x)'
      BY DEF HeldFromOutside
    <3>1. CASE t \in B
      BY <3>1, <2>5 DEF HeldFrom
    <3>2. CASE t \notin B
      <4>1. \A x \in B : Stuck(x) /\ on[x] = c
        BY <3>2, <2>2, <2>3 DEF Stuck, Asleep
      <4>2. PICK x \in B : HeldFrom(B, x)
        BY <4>1 DEF HeldInv, HeldFromOutside
      <4>3. HeldFrom(B, x)'
        BY <4>2 DEF HeldFrom, Linked
      <4> QED BY <4>3
    <3> QED BY <3>1, <3>2
  <2> QED BY <2>6, <2>7 DEF HeldInv
<1>4. ASSUME NEW t \in Task, ReturnSleepOn(t) PROVE HeldInv'
  <2> USE <1>4 DEF ReturnSleepOn, Leave
  <2>1. \A x \in Task : state'[x] = IF tmp[t] = x THEN RUNNING ELSE state[x]
    BY <1>a DEF MakeRunning
  <2>2. EnteringOK'
    BY <2>1 DEF HeldInv, EnteringOK, RUNNING, UNINTERRUPTIBLE
  <2>3. HeldFromOutside'
    <3> SUFFICES ASSUME NEW x \in Task, Stuck(x)'
                 PROVE  /\ Stuck(x) /\ on'[x] = on[x]
                        /\ \A B \in SUBSET Task : HeldFrom(B, x) => HeldFrom(B, x)'
      BY HeldKept DEF HeldInv
    <3>1. Stuck(x) /\ x # t /\ tmp[t] # x
      BY <2>1 DEF Stuck, Asleep, RUNNING, UNINTERRUPTIBLE
    <3> QED
      BY <3>1 DEF HeldFrom, Linked
  <2> QED BY <2>2, <2>3 DEF HeldInv
<1>5. ASSUME NEW t \in Task, RepeatInterruptible(t) PROVE HeldInv'
  <2> USE <1>5 DEF RepeatInterruptible
  <2> DEFINE st == [state EXCEPT ![q[on[t]]] = RUNNING, ![t] = INTERRUPTIBLE]
  <2>1. st \in [Task -> States] /\ Schedule(st) /\ on[t] \notin SChan
    BY <1>a DEF States
  <2>2. /\ \A x \in Task : x # t => st[x] \in {RUNNING, state[x]}
        /\ st[t] # UNINTERRUPTIBLE
    BY DEF INTERRUPTIBLE, UNINTERRUPTIBLE
  <2> HIDE DEF st
  <2>3. /\ \A x \in Task : state'[x] = UNINTERRUPTIBLE <=> st[x] = UNINTERRUPTIBLE
        /\ \A x \in Task : st[x] = RUNNING => state'[x] = RUNNING
    BY <2>1, ScheduleKeepsStuck
  <2>4. \A u \in Task : pc[u] \notin {"read", "linked"}
    BY DEF HeldInv, EnteringOK
  <2>5. EnteringOK'
    BY <2>1, <2>2, <2>3, <2>4 DEF HeldInv, EnteringOK, RUNNING, UNINTERRUPTIBLE
  <2>6. \A x \in Task : Stuck(x)' => Stuck(x)
    BY <2>2, <2>3 DEF Stuck, Asleep, RUNNING, UNINTERRUPTIBLE
  <2>7. HeldFromOutside'
    BY <2>6, HeldKept DEF HeldInv, HeldFrom, Linked
  <2> QED BY <2>5, <2>7 DEF HeldInv
<1>6. ASSUME NEW t \in Task, ReturnInterruptible(t) PROVE HeldInv'
  <2> USE <1>6 DEF ReturnInterruptible, Leave
  <2>1. \A x \in Task : state'[x] = IF tmp[t] = x THEN RUNNING ELSE state[x]
    BY <1>a DEF MakeRunning
  <2>2. on[t] \notin SChan /\ on[t] \in Chan
        /\ \A d \in SChan : q'[d] = q[d]
    BY <1>a DEF HeldInv, EnteringOK
  <2>3. EnteringOK'
    BY <2>1, <2>2 DEF HeldInv, EnteringOK, RUNNING, UNINTERRUPTIBLE
  <2>4. HeldFromOutside'
    <3> SUFFICES ASSUME NEW x \in Task, Stuck(x)', on'[x] \in SChan
                 PROVE  /\ Stuck(x) /\ on'[x] = on[x]
                        /\ \A B \in SUBSET Task : HeldFrom(B, x) => HeldFrom(B, x)'
      BY HeldKept DEF HeldInv
    <3>1. Stuck(x) /\ x # t /\ tmp[t] # x /\ on'[x] = on[x]
      BY <2>1 DEF Stuck, Asleep, RUNNING, UNINTERRUPTIBLE
    <3> QED
      BY <3>1, <2>2 DEF HeldFrom, Linked
  <2> QED BY <2>3, <2>4 DEF HeldInv
<1>7. ASSUME NEW t \in Task, Exit(t) PROVE HeldInv'
  <2> USE <1>7 DEF Exit
  <2> DEFINE st == [state EXCEPT ![t] = ZOMBIE]
  <2>1. st \in [Task -> States] /\ Schedule(st)
    BY DEF States
  <2>2. \A x \in Task : x # t => st[x] = state[x]
    OBVIOUS
  <2> HIDE DEF st
  <2>3. /\ \A x \in Task : state'[x] = UNINTERRUPTIBLE <=> st[x] = UNINTERRUPTIBLE
        /\ \A x \in Task : st[x] = RUNNING => state'[x] = RUNNING
    BY <2>1, ScheduleKeepsStuck
  <2>4. \A u \in Task : pc[u] \notin {"read", "linked"}
    BY DEF HeldInv, EnteringOK
  <2>5. EnteringOK'
    BY <2>2, <2>3, <2>4 DEF HeldInv, EnteringOK
  <2>6. \A x \in Task : Stuck(x)' => Stuck(x)
    BY <2>2, <2>3 DEF Stuck, Asleep
  <2>7. HeldFromOutside'
    BY <2>6, HeldKept DEF HeldInv, HeldFrom, Linked
  <2> QED BY <2>5, <2>7 DEF HeldInv
<1>8. ASSUME Schedule(state), UNCHANGED <<q, signal, pc, on, tmp, woken>>,
             \A u \in Task : pc[u] \notin {"read", "linked"}
      PROVE  HeldInv'
  <2>1. /\ \A x \in Task : state'[x] = UNINTERRUPTIBLE <=> state[x] = UNINTERRUPTIBLE
        /\ \A x \in Task : state[x] = RUNNING => state'[x] = RUNNING
    BY <1>8, ScheduleKeepsStuck
  <2>2. EnteringOK'
    BY <1>8, <2>1 DEF HeldInv, EnteringOK
  <2>3. HeldFromOutside'
    BY <1>8, <2>1, HeldKept DEF HeldInv, HeldFrom, Linked, Stuck, Asleep
  <2> QED BY <2>2, <2>3 DEF HeldInv
<1>9. ASSUME NEW t \in Task, Preempt(t) PROVE HeldInv'
  <2>1. \A u \in Task : pc[u] \notin {"read", "linked"}
    BY <1>9 DEF Preempt, HeldInv, EnteringOK
  <2> QED BY <1>8, <1>9, <2>1 DEF Preempt
<1>10. ASSUME IdleLoop PROVE HeldInv'
  <2>1. \A u \in Task : pc[u] \notin {"read", "linked"}
    BY <1>10, <1>a DEF IdleLoop, HeldInv, EnteringOK
  <2> QED BY <1>8, <1>10, <2>1 DEF IdleLoop
<1>11. ASSUME NEW t \in Task, NEW c \in Chan, WakeByTask(t, c) PROVE HeldInv'
  <2>1. NotEntering(c)
    BY <1>11 DEF WakeByTask, HeldInv, EnteringOK, NotEntering
  <2> QED BY <1>11, <2>1, WakeUpKeepsHeld DEF WakeByTask
<1>12. ASSUME NEW c \in IrqChan, WakeByInterrupt(c) PROVE HeldInv'
  <2>1. NotEntering(c)
    BY <1>12, <1>a DEF WakeByInterrupt, InterruptsOn, Guarded, HeldInv, EnteringOK, NotEntering
  <2>2. c \in Chan
    BY ChanAssumption
  <2> QED BY <1>12, <2>1, <2>2, WakeUpKeepsHeld DEF WakeByInterrupt
<1>13. ASSUME UNCHANGED <<q, state, current, pc, on, tmp>> PROVE HeldInv'
  <2>1. EnteringOK'
    BY <1>13 DEF HeldInv, EnteringOK
  <2>2. HeldFromOutside'
    BY <1>13, HeldKept DEF HeldInv, HeldFrom, Linked, Stuck, Asleep
  <2> QED BY <2>1, <2>2 DEF HeldInv
<1> QED
  BY <1>1, <1>2, <1>3, <1>4, <1>5, <1>6, <1>7, <1>9, <1>10, <1>11, <1>12, <1>13
  DEF Next, TaskStep, SendSignal, TakeSignal, vars

(* A sleeper held from outside of every set is reached from the head of    *)
(* its channel, or from a task that is already awake.                      *)
LEMMA StuckIsReached ==
    ASSUME TypeOK, HeldInv, NEW t \in Task, Stuck(t), on[t] \in SChan
    PROVE  Reachable(t)
<1> DEFINE P == ({q[on[t]]} \ {NULL}) \cup {u \in Task : Asleep(u) /\ state[u] = RUNNING}
<1> SUFFICES ASSUME NEW S \in SUBSET Task, P \subseteq S, Follows(S), t \notin S
             PROVE  FALSE
  BY DEF Reachable, Reach
<1> DEFINE B == {x \in Task \ S : Stuck(x) /\ on[x] = on[t]}
<1>1. PICK x \in B : HeldFrom(B, x)
  <2>1. B # {} /\ B \in SUBSET Task /\ \A x \in B : Stuck(x) /\ on[x] = on[t]
    OBVIOUS
  <2> QED BY <2>1 DEF HeldInv, HeldFromOutside
<1>2. q[on[x]] # x
  BY ChanAssumption
<1>3. PICK u \in Task \ B : Linked(u) /\ on[u] = on[t] /\ tmp[u] = x
  BY <1>1, <1>2 DEF HeldFrom
<1>4. u \notin S
  BY <1>3, ChanAssumption DEF Follows
<1>5. CASE pc[u] = "linked"
  <2>1. q[on[t]] = u
    BY <1>3, <1>5 DEF HeldInv, EnteringOK
  <2> QED BY <2>1, <1>4, ChanAssumption
<1>6. CASE pc[u] = "asleep"
  <2>1. state[u] \in {RUNNING, UNINTERRUPTIBLE}
    BY <1>3, <1>6 DEF HeldInv, EnteringOK
  <2> QED BY <2>1, <1>3, <1>4, <1>6 DEF Stuck, Asleep
<1> QED
  BY <1>3, <1>5, <1>6 DEF Linked

LEMMA HeldCorrect ==
    ASSUME Guarded
    PROVE  Spec => [](TypeOK /\ HeldInv)
<1>1. Init => HeldInv
  <2> SUFFICES ASSUME Init PROVE HeldInv
    OBVIOUS
  <2>1. \A x \in Task : ~Stuck(x) /\ pc[x] = "run"
    BY DEF Init, Stuck, Asleep
  <2> QED BY <2>1 DEF HeldInv, HeldFromOutside, EnteringOK
<1>2. TypeOK /\ HeldInv /\ [Next]_vars => HeldInv'
  BY HeldInvInductive
<1> QED BY <1>1, <1>2, TypeCorrect, PTL DEF Spec

(* No sleeper of sleep_on is lost, even where interruptible_sleep_on and   *)
(* signals wake whom they please: sched.c:151-170.                         *)
THEOREM UninterruptibleSleepersAreKept ==
    ASSUME Guarded
    PROVE  Spec => []NoLostUninterruptible
<1>1. TypeOK /\ HeldInv => NoLostUninterruptible
  <2> SUFFICES ASSUME TypeOK, HeldInv, NEW t \in Task, Stuck(t)
               PROVE  Reachable(t)
    BY DEF NoLostUninterruptible, Stuck
  <2>1. CASE on[t] \in SChan
    BY <2>1, StuckIsReached
  <2>2. CASE on[t] \notin SChan
    BY <2>2 DEF HeldInv, EnteringOK, Stuck, Asleep
  <2> QED BY <2>1, <2>2
<1> QED BY <1>1, HeldCorrect, PTL

(* No sleeper at all is lost in a kernel with sleep_on only: wake_up, with *)
(* one pointer per channel, wakes "the sleeping process" of sched.h:186.   *)
THEOREM NoSleeperIsLost ==
    ASSUME Disciplined
    PROVE  Spec => []NoLostSleeper
<1>1. Guarded
  BY DEF Disciplined, Guarded
<1>2. TypeOK /\ ChainInv /\ NoLostUninterruptible => NoLostSleeper
  <2> SUFFICES ASSUME TypeOK, ChainInv, NoLostUninterruptible,
                      NEW t \in Task, Blocked(t)
               PROVE  Reachable(t)
    BY DEF NoLostSleeper
  <2>1. state[t] # INTERRUPTIBLE
    BY NoInterruptible DEF ChainInv
  <2> QED BY <2>1 DEF Blocked, NoLostUninterruptible
<1> QED
  BY <1>1, <1>2, TypeCorrect, ChainCorrect, UninterruptibleSleepersAreKept, PTL
=============================================================================
