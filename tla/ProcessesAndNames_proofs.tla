----------------------- MODULE ProcessesAndNames_proofs -----------------------
(***************************************************************************)
(* Who is whose child, and who knows of it, for any number of processes.   *)
(***************************************************************************)
EXTENDS Processes, Names, FiniteSetTheorems, WellFoundedInduction, TLAPS

(* No process is moved to another group, or nobody waits for a group.      *)
(* sys_setpgid also moves a zombie whose father, told of its end, found    *)
(* nothing to wait for and sleeps again: the father is not told then.      *)
GroupsStay == Group = {} \/ \A w \in WaitFor : w > 0 \/ w = -1

(* The invariant, of a table of processes and the pid of the shell: pids   *)
(* are unique, every process but init has a father that lives, and init    *)
(* cannot end, since the only signal that reaches it is SIGCHLD: it is in  *)
(* group 0 and session 0, and a session that is hung up has a leader.      *)
Table == [Slot -> Process \union {NULL}]

Lives(t, s) == t[s].pc \notin {"exiting", "zombie"}

PidsUnique(t) == \A s, q \in Used(t) : t[q].pid = t[s].pid => q = s

FathersLive(t) ==
    \A s \in Used(t) \ {1} : \E f \in Used(t) \ {s} :
        t[f].pid = t[s].father /\ Lives(t, f)

InitLives(t) ==
    /\ 1 \in Used(t) /\ Lives(t, 1)
    /\ t[1].pid = 1 /\ t[1].pgrp = 0 /\ t[1].session = 0
    /\ t[1].signal \subseteq {SIGCHLD}

SlotsOK(t) ==
    \A s \in Used(t) :
        /\ t[s].leader => t[s].session # 0
        /\ t[s].pc = "waitpid" => t[s].waits \in WaitFor \union {-1}

Sound(t) ==
    t \in Table /\ PidsUnique(t) /\ FathersLive(t) /\ InitLives(t) /\ SlotsOK(t)

(* ChildNotMissed and ShellKnown. *)
Told(t) ==
    \A s \in Used(t) :
        t[s].pc = "waitpid" /\ Matching(t, s, t[s].waits) \intersect Zombies(t) # {}
        => SIGCHLD \in t[s].signal

Known(t, sh) == sh # 0 => \E q \in Used(t) : t[q].pid = sh /\ t[q].father = 1

Good(t, sh) == Sound(t) /\ (GroupsStay => Told(t)) /\ Known(t, sh)

IInv ==
    /\ Good(task, shell)
    /\ last_pid \in Pid /\ shell \in Pid \union {0} /\ calls \in 0 .. MaxCalls
-----------------------------------------------------------------------------
(* Slots, pids, the least and the greatest of a set of them. *)
LEMMA Constants ==
    /\ 1 \in Slot /\ 1 \in Pid /\ Slot \subseteq Nat
    /\ NULL \notin Process /\ WaitFor \union {-1} \subseteq -MaxPid .. MaxPid
    /\ Signal = {1, 9, 17}
BY ProcessesAssumption, NullAssumption DEF Slot, Pid, Signal, SIGHUP, SIGKILL, SIGCHLD

LEMMA LeastExists ==
    ASSUME NEW S \in SUBSET Nat, S # {}
    PROVE  \E i \in S : \A j \in S : i <= j
<1> DEFINE Less == OpToRel(<, Nat)
<1>1. IsWellFoundedOn(Less, Nat)
  BY NatLessThanWellFounded, Zenon
<1>2. \A i, j \in Nat : j < i => <<j, i>> \in Less
  BY Zenon DEF OpToRel
<1> HIDE DEF Less
<1>3. PICK i \in S : \A j \in S : ~(<<j, i>> \in Less)
  BY <1>1, WFMin, Zenon
<1>4. ASSUME NEW j \in S PROVE i <= j
  <2>1. ~(j < i)
    BY <1>2, <1>3, Zenon
  <2> QED BY <2>1
<1> QED BY <1>4

LEMMA MinIn ==
    ASSUME NEW S \in SUBSET Nat, S # {}
    PROVE  Min(S) \in S
<1>1. \E i \in S : \A j \in S : i <= j
  BY LeastExists
<1> QED BY <1>1, Zenon DEF Min

LEMMA MaxIn ==
    ASSUME NEW S \in SUBSET Slot, S # {}
    PROVE  Max(S) \in S
<1> DEFINE T == {NR_TASKS - i : i \in S}
<1>1. \A i \in S : i \in Nat /\ NR_TASKS - i \in Nat
  BY ProcessesAssumption DEF Slot
<1>2. T \in SUBSET Nat /\ T # {}
  BY <1>1
<1>3. PICK d \in T : \A e \in T : d <= e
  BY <1>2, LeastExists
<1>4. PICK i \in S : d = NR_TASKS - i
  OBVIOUS
<1>5. ASSUME NEW j \in S PROVE i >= j
  <2>1. d <= NR_TASKS - j
    BY <1>3
  <2> QED BY <2>1, <1>1, <1>4, ProcessesAssumption
<1>6. \E k \in S : \A j \in S : k >= j
  BY <1>5
<1> QED BY <1>6, Zenon DEF Max

(* Pids are more than slots, so that fork finds one that nobody has.       *)
LEMMA NextPidIsFree ==
    ASSUME NEW t \in Table, last_pid \in Pid
    PROVE  NextPid(t) \in Pid /\ \A q \in Used(t) : t[q].pid # NextPid(t)
<1> DEFINE pids == {t[s].pid : s \in Used(t)}
           free == Pid \ pids
           distance(p) == (p - After(last_pid)) % MaxPid
<1>1. IsFiniteSet(Slot) /\ Cardinality(Slot) < MaxPid
  BY FS_Interval, ProcessesAssumption DEF Slot
<1>2. IsFiniteSet(Pid) /\ Cardinality(Pid) = MaxPid
  BY FS_Interval, ProcessesAssumption DEF Pid
<1>3. IsFiniteSet(Used(t)) /\ Cardinality(Used(t)) <= Cardinality(Slot)
  <2>1. Used(t) \in SUBSET Slot
    BY DEF Used
  <2> QED BY <1>1, <2>1, FS_Subset
<1>4. IsFiniteSet(pids) /\ Cardinality(pids) <= Cardinality(Used(t))
  <2> DEFINE f == [s \in Used(t) |-> t[s].pid]
  <2>1. f \in Surjection(Used(t), pids)
    BY DEF Surjection
  <2> HIDE DEF f, pids
  <2> QED BY <1>3, <2>1, FS_Surjection
<1>5. free # {}
  <2>1. SUFFICES ASSUME Pid \subseteq pids PROVE FALSE
    OBVIOUS
  <2> HIDE DEF pids
  <2>2. Cardinality(Pid) <= Cardinality(pids)
    BY <1>4, <2>1, FS_Subset
  <2>3. /\ Cardinality(Pid) \in Nat /\ Cardinality(pids) \in Nat
        /\ Cardinality(Used(t)) \in Nat /\ Cardinality(Slot) \in Nat
    BY <1>1, <1>2, <1>3, <1>4, FS_CardinalityType
  <2> QED BY <1>1, <1>2, <1>3, <1>4, <2>2, <2>3, ProcessesAssumption
<1>6. \A p \in free : distance(p) \in Nat
  BY ProcessesAssumption DEF After, Pid
<1> DEFINE D == {distance(p) : p \in free}
<1>7. \E p \in free : \A q \in free : distance(p) <= distance(q)
  <2>1. D \in SUBSET Nat /\ D # {}
    BY <1>5, <1>6
  <2>2. PICK d \in D : \A e \in D : d <= e
    BY <2>1, LeastExists
  <2>3. PICK p \in free : d = distance(p)
    OBVIOUS
  <2> QED BY <2>2, <2>3
<1>8. NextPid(t) = CHOOSE p \in free : \A q \in free : distance(p) <= distance(q)
  BY DEF NextPid
<1> HIDE DEF distance, free
<1>9. NextPid(t) \in free
  BY <1>7, <1>8, Zenon
<1> QED BY <1>9 DEF free

-----------------------------------------------------------------------------
(* What can be done to a table. *)
LEMMA InUse ==
    ASSUME NEW t \in Table, NEW s \in Used(t)
    PROVE  s \in Slot /\ t[s] \in Process
BY DEF Used, Table

(* One process that lives changes, but not in its pid or its father.       *)
LEMMA Changed ==
    ASSUME NEW t, NEW sh, Good(t, sh), NEW s \in Used(t), NEW r \in Process,
           t[s].pc # "zombie", r.pc \notin {"exiting", "zombie"},
           r.pid = t[s].pid, r.father = t[s].father,
           r.leader => r.session # 0,
           s = 1 => r.pgrp = 0 /\ r.session = 0 /\ r.signal \subseteq {SIGCHLD},
           r.pc = "waitpid" =>
              /\ r.waits \in WaitFor \union {-1} /\ r.pgrp = t[s].pgrp
              /\ Matching(t, s, r.waits) \intersect Zombies(t) = {}
    PROVE  Good([t EXCEPT ![s] = r], sh)
<1> DEFINE u == [t EXCEPT ![s] = r]
<1>1. t \in Table /\ s \in Slot /\ r # NULL
  BY Constants, InUse DEF Good, Sound
<1>2. /\ u \in Table /\ Used(u) = Used(t) /\ u[s] = r
      /\ \A q \in Used(t) : q # s => u[q] = t[q]
  BY <1>1 DEF Used, Table
<1> HIDE DEF u
<1>3. \A q \in Used(t) : u[q].pid = t[q].pid /\ u[q].father = t[q].father
  BY <1>2
<1>4. /\ \A q \in Used(t) : Lives(t, q) => Lives(u, q)
      /\ Zombies(u) = Zombies(t)
  BY <1>2 DEF Lives, Zombies
<1>5. PidsUnique(u) /\ FathersLive(u)
  <2>1. PidsUnique(u)
    BY <1>2, <1>3 DEF Good, Sound, PidsUnique
  <2>2. ASSUME NEW q \in Used(u) \ {1}
        PROVE  \E f \in Used(u) \ {q} : u[f].pid = u[q].father /\ Lives(u, f)
    <3>1. PICK f \in Used(t) \ {q} : t[f].pid = t[q].father /\ Lives(t, f)
      BY <1>2 DEF Good, Sound, FathersLive
    <3> QED BY <3>1, <1>2, <1>3, <1>4
  <2> QED BY <2>1, <2>2 DEF FathersLive
<1>6. InitLives(u)
  BY <1>2, <1>3, <1>4 DEF Good, Sound, InitLives
<1>7. SlotsOK(u)
  BY <1>2 DEF Good, Sound, SlotsOK
<1>8. ASSUME Told(t) PROVE Told(u)
  <2> SUFFICES ASSUME NEW q \in Used(u), u[q].pc = "waitpid",
                      NEW z \in Matching(u, q, u[q].waits) \intersect Zombies(u)
               PROVE  SIGCHLD \in u[q].signal
    BY DEF Told
  <2>1. z \in Zombies(t) /\ z # s /\ z \in Used(t) /\ u[z] = t[z]
    BY <1>2, <1>4 DEF Zombies
  <2>2. u[q].pgrp = t[q].pgrp
    BY <1>2
  <2>3. z \in Matching(t, q, u[q].waits)
    BY <2>1, <2>2, <1>2, <1>3 DEF Matching, ChildrenOf
  <2>4. q # s
    BY <2>1, <2>3, <1>2
  <2> QED BY <2>1, <2>3, <2>4, <1>2, <1>8 DEF Told
<1>9. Known(u, sh)
  BY <1>2, <1>3 DEF Good, Known
<1> QED BY <1>2, <1>5, <1>6, <1>7, <1>8, <1>9 DEF Good, Sound, u

(* Table u is table t after signal n came to S. *)
SignalsAdded(t, u, S, n) ==
    /\ u \in Table /\ Used(u) = Used(t)
    /\ \A s \in Used(t) :
        /\ u[s].pid = t[s].pid /\ u[s].father = t[s].father
        /\ u[s].pgrp = t[s].pgrp /\ u[s].session = t[s].session
        /\ u[s].leader = t[s].leader /\ u[s].pc = t[s].pc
        /\ u[s].waits = t[s].waits
        /\ t[s].signal \subseteq u[s].signal
        /\ s \in S => n \in u[s].signal
        /\ \A m \in u[s].signal : m \in t[s].signal \/ (s \in S /\ m = n)

LEMMA SignalsAdd ==
    ASSUME NEW t \in Table, NEW S \in SUBSET Used(t), NEW n \in Signal
    PROVE  SignalsAdded(t, Signalled(t, S, n), S, n)
<1> DEFINE u == Signalled(t, S, n)
<1>1. \A s \in Used(t) : s \in Slot /\ t[s] \in Process
  BY InUse
<1>2. /\ \A s \in Slot : s \notin S => u[s] = t[s]
      /\ \A s \in S : u[s] = [t[s] EXCEPT !.signal = @ \union {n}]
      /\ u = [s \in Slot |-> u[s]]
  BY <1>1 DEF Signalled
<1> HIDE DEF u
<1>3. \A s \in S : /\ u[s] \in Process /\ u[s].signal = t[s].signal \union {n}
                   /\ u[s].pid = t[s].pid /\ u[s].father = t[s].father
                   /\ u[s].pgrp = t[s].pgrp /\ u[s].session = t[s].session
                   /\ u[s].leader = t[s].leader /\ u[s].pc = t[s].pc
                   /\ u[s].waits = t[s].waits
  <2> SUFFICES ASSUME NEW s \in S
               PROVE  LET r == [t[s] EXCEPT !.signal = @ \union {n}] IN
                      /\ r \in Process /\ r.signal = t[s].signal \union {n}
                      /\ r.pid = t[s].pid /\ r.father = t[s].father
                      /\ r.pgrp = t[s].pgrp /\ r.session = t[s].session
                      /\ r.leader = t[s].leader /\ r.pc = t[s].pc
                      /\ r.waits = t[s].waits
    BY <1>2, ZenonT(40)
  <2>1. t[s] \in Process /\ t[s].signal \union {n} \in SUBSET Signal
    BY <1>1 DEF Process
  <2> QED BY <2>1 DEF Process
<1>4. u \in Table /\ Used(u) = Used(t)
  <2>1. \A s \in Slot : u[s] \in Process \union {NULL} /\ (u[s] # NULL <=> t[s] # NULL)
    BY <1>1, <1>2, <1>3, Constants DEF Used, Table
  <2> QED BY <2>1, <1>2 DEF Table, Used
<1> QED BY <1>1, <1>2, <1>3, <1>4 DEF u, SignalsAdded

(* Signals come, to init only SIGCHLD.                                     *)
LEMMA SignalsCome ==
    ASSUME NEW t, NEW sh, Good(t, sh), NEW S \in SUBSET Used(t), NEW n \in Signal,
           1 \in S => n = SIGCHLD
    PROVE  Good(Signalled(t, S, n), sh)
<1> DEFINE u == Signalled(t, S, n)
<1>1. t \in Table /\ S \in SUBSET Used(t) /\ n \in Signal
  BY DEF Good, Sound
<1>2. SignalsAdded(t, u, S, n)
  BY <1>1, SignalsAdd
<1> HIDE DEF u
<1>3. /\ u \in Table /\ Used(u) = Used(t)
      /\ \A s \in Used(t) :
            /\ u[s].pid = t[s].pid /\ u[s].father = t[s].father
            /\ u[s].pgrp = t[s].pgrp /\ u[s].session = t[s].session
            /\ u[s].leader = t[s].leader /\ u[s].pc = t[s].pc
            /\ u[s].waits = t[s].waits
            /\ t[s].signal \subseteq u[s].signal
            /\ \A m \in u[s].signal : m \in t[s].signal \/ (s \in S /\ m = n)
  BY <1>2 DEF SignalsAdded
<1>4. \A s \in Used(t) : s = 1 => u[s].signal \subseteq t[s].signal \union {SIGCHLD}
  BY <1>3
<1>5. Sound(u)
  <2>1. \A s \in Used(t) : Lives(t, s) => Lives(u, s)
    BY <1>3 DEF Lives
  <2>2. PidsUnique(u)
    BY <1>3, <1>4 DEF Good, Sound, PidsUnique
  <2>3. ASSUME NEW q \in Used(u) \ {1}
        PROVE  \E f \in Used(u) \ {q} : u[f].pid = u[q].father /\ Lives(u, f)
    <3>1. PICK f \in Used(t) \ {q} : t[f].pid = t[q].father /\ Lives(t, f)
      BY <1>3 DEF Good, Sound, FathersLive
    <3> QED BY <3>1, <2>1, <1>3, <1>4
  <2>4. InitLives(u) /\ SlotsOK(u)
    BY <1>3, <1>4, <2>1 DEF Good, Sound, InitLives, SlotsOK
  <2> QED BY <1>3, <2>2, <2>3, <2>4 DEF Sound, FathersLive
<1>6. ASSUME Told(t) PROVE Told(u)
  <2> SUFFICES ASSUME NEW q \in Used(u), u[q].pc = "waitpid",
                      NEW z \in Matching(u, q, u[q].waits) \intersect Zombies(u)
               PROVE  SIGCHLD \in u[q].signal
    BY DEF Told
  <2>1. z \in Zombies(t) /\ z \in Matching(t, q, t[q].waits)
    BY <1>3, <1>4 DEF Zombies, Matching, ChildrenOf
  <2>2. SIGCHLD \in t[q].signal
    BY <2>1, <1>3, <1>4, <1>6 DEF Told
  <2> QED BY <2>2, <1>3, <1>4
<1>7. Known(u, sh)
  BY <1>3, <1>4 DEF Good, Known
<1> QED BY <1>5, <1>6, <1>7 DEF Good, u

(* A process gives its children to init and is about to close its files.   *)
LEMMA Exits ==
    ASSUME NEW t, NEW sh, Good(t, sh), NEW s \in Used(t), s # 1, t[s].pc # "zombie"
    PROVE  Good(Exiting(t, s), sh)
<1> DEFINE C == ChildrenOf(t, s)
           g == [q \in Slot |-> IF q \in C THEN [t[q] EXCEPT !.father = 1] ELSE t[q]]
           u == Exiting(t, s)
<1>1. t \in Table /\ 1 \in Used(t) /\ \A q \in Used(t) : q \in Slot /\ t[q] \in Process
  BY InUse DEF Good, Sound, InitLives
<1>2. g \in Table /\ Used(g) = Used(t)
  <2>1. \A q \in Slot : g[q] \in Process \union {NULL} /\ (g[q] # NULL <=> t[q] # NULL)
    <3>1. ASSUME NEW q \in C PROVE [t[q] EXCEPT !.father = 1] \in Process
      BY <1>1, Constants DEF ChildrenOf, Process
    <3> HIDE DEF C
    <3> QED BY <1>1, <3>1, Constants DEF Used, Table, ChildrenOf, C
  <2> HIDE DEF C
  <2> QED BY <2>1 DEF Table, Used
<1>3. \A q \in Used(t) :
        /\ g[q].pid = t[q].pid /\ g[q].pgrp = t[q].pgrp
        /\ g[q].session = t[q].session /\ g[q].leader = t[q].leader
        /\ g[q].pc = t[q].pc /\ g[q].waits = t[q].waits /\ g[q].signal = t[q].signal
        /\ g[q].father = IF q \in C THEN 1 ELSE t[q].father
  <2> SUFFICES ASSUME NEW q \in Used(t)
               PROVE  LET r == IF q \in C THEN [t[q] EXCEPT !.father = 1] ELSE t[q] IN
                      /\ r.pid = t[q].pid /\ r.pgrp = t[q].pgrp
                      /\ r.session = t[q].session /\ r.leader = t[q].leader
                      /\ r.pc = t[q].pc /\ r.waits = t[q].waits /\ r.signal = t[q].signal
                      /\ r.father = IF q \in C THEN 1 ELSE t[q].father
    BY <1>1
  <2> HIDE DEF C
  <2> QED BY <1>1 DEF Process
<1> HIDE DEF g
<1> DEFINE h == GivenToInit(t, s)
<1>4. /\ h \in Table /\ Used(h) = Used(t)
      /\ \A q \in Used(t) :
            /\ h[q].pid = t[q].pid /\ h[q].pgrp = t[q].pgrp
            /\ h[q].session = t[q].session /\ h[q].leader = t[q].leader
            /\ h[q].pc = t[q].pc /\ h[q].waits = t[q].waits
            /\ t[q].signal \subseteq h[q].signal
            /\ q = 1 => h[q].signal \subseteq t[q].signal \union {SIGCHLD}
            /\ h[q].father = IF q \in C THEN 1 ELSE t[q].father
      /\ C \intersect Zombies(t) # {} => SIGCHLD \in h[1].signal
  <2>1. h = IF C \intersect Zombies(t) = {} THEN g ELSE Signalled(g, {1}, SIGCHLD)
    BY DEF GivenToInit, g
  <2>2. {1} \in SUBSET Used(g) /\ SIGCHLD \in Signal
    BY <1>1, <1>2 DEF Signal
  <2> HIDE DEF h, C
  <2>3. CASE C \intersect Zombies(t) = {}
    BY <2>1, <2>3, <1>2, <1>3
  <2>4. CASE C \intersect Zombies(t) # {}
    <3> DEFINE S == {1}
    <3>1. S \in SUBSET Used(g) /\ h = Signalled(g, S, SIGCHLD) /\ \A q : q \in S <=> q = 1
      BY <2>1, <2>2, <2>4
    <3> HIDE DEF S
    <3> DEFINE k == Signalled(g, S, SIGCHLD)
    <3>2. g \in Table /\ S \in SUBSET Used(g) /\ SIGCHLD \in Signal
      BY <3>1, <2>2, <1>2
    <3>3. SignalsAdded(g, k, S, SIGCHLD)
      BY <3>2, SignalsAdd
    <3>4. /\ k \in Table /\ Used(k) = Used(g)
          /\ \A q \in Used(g) :
              /\ k[q].pid = g[q].pid /\ k[q].father = g[q].father
              /\ k[q].pgrp = g[q].pgrp /\ k[q].session = g[q].session
              /\ k[q].leader = g[q].leader /\ k[q].pc = g[q].pc
              /\ k[q].waits = g[q].waits
              /\ g[q].signal \subseteq k[q].signal
              /\ q \in S => SIGCHLD \in k[q].signal
              /\ \A m \in k[q].signal : m \in g[q].signal \/ (q \in S /\ m = SIGCHLD)
      <4> HIDE DEF k
      <4> QED BY <3>3 DEF SignalsAdded
    <3>5. h = k
      BY <3>1
    <3> HIDE DEF k
    <3> QED BY <3>1, <3>4, <3>5, <1>1, <1>2, <1>3
  <2> QED BY <2>3, <2>4
<1> HIDE DEF h
<1>5. /\ u \in Table /\ Used(u) = Used(t)
      /\ \A q \in Used(t) :
            /\ u[q].pid = t[q].pid /\ u[q].pgrp = t[q].pgrp
            /\ u[q].session = t[q].session /\ u[q].leader = t[q].leader
            /\ u[q].pc = IF q = s THEN "exiting" ELSE t[q].pc
            /\ u[q].waits = t[q].waits
            /\ t[q].signal \subseteq u[q].signal
            /\ q = 1 => u[q].signal \subseteq t[q].signal \union {SIGCHLD}
            /\ u[q].father = IF q \in C THEN 1 ELSE t[q].father
      /\ C \intersect Zombies(t) # {} => SIGCHLD \in u[1].signal
  <2> DEFINE r == [h[s] EXCEPT !.pc = "exiting"]
  <2>1. u = [h EXCEPT ![s] = r]
    BY DEF Exiting, h
  <2>2. s \in Slot /\ h[s] \in Process
    BY <1>4, InUse
  <2>3. /\ r \in Process /\ r.pid = h[s].pid /\ r.pgrp = h[s].pgrp
        /\ r.session = h[s].session /\ r.leader = h[s].leader /\ r.pc = "exiting"
        /\ r.waits = h[s].waits /\ r.signal = h[s].signal /\ r.father = h[s].father
    BY <2>2 DEF Process
  <2> HIDE DEF r, u, C
  <2>4. /\ u \in Table /\ Used(u) = Used(h) /\ u[s] = r
        /\ \A q \in Used(h) : q # s => u[q] = h[q]
    BY <2>1, <2>2, <2>3, <1>4, Constants DEF Table, Used
  <2>5. \A q \in Used(t) :
            /\ u[q].pid = h[q].pid /\ u[q].pgrp = h[q].pgrp
            /\ u[q].session = h[q].session /\ u[q].leader = h[q].leader
            /\ u[q].pc = IF q = s THEN "exiting" ELSE h[q].pc
            /\ u[q].waits = h[q].waits /\ u[q].signal = h[q].signal
            /\ u[q].father = h[q].father
    BY <2>3, <2>4, <1>4
  <2>6. u[1].signal = h[1].signal
    BY <2>5, <1>1
  <2> QED BY <2>4, <2>5, <2>6, <1>4
<1> HIDE DEF u
<1>6. \A q \in Used(t) : q \in C <=> t[q].father = t[s].pid
  BY DEF ChildrenOf
<1> HIDE DEF C
<1>7. s \notin C /\ \A f \in Used(t) : t[f].pid = t[s].pid => f = s
  <2>1. \A f \in Used(t) : t[f].pid = t[s].pid => f = s
    BY DEF Good, Sound, PidsUnique
  <2> QED BY <2>1, <1>6 DEF Good, Sound, FathersLive
<1>8. Sound(u)
  <2>1. PidsUnique(u)
    BY <1>5 DEF Good, Sound, PidsUnique
  <2>2. ASSUME NEW q \in Used(u) \ {1}
        PROVE  \E f \in Used(u) \ {q} : u[f].pid = u[q].father /\ Lives(u, f)
    <3>1. CASE q \in C
      <4>1. u[1].pid = 1 /\ Lives(u, 1) /\ u[q].father = 1
        BY <3>1, <1>1, <1>5 DEF Good, Sound, InitLives, Lives
      <4> QED BY <4>1, <1>1, <1>5
    <3>2. CASE q \notin C
      <4>1. PICK f \in Used(t) \ {q} : t[f].pid = t[q].father /\ Lives(t, f)
        BY <1>5 DEF Good, Sound, FathersLive
      <4>2. f # s
        BY <4>1, <3>2, <1>5, <1>6
      <4> QED BY <4>1, <4>2, <3>2, <1>5 DEF Lives
    <3> QED BY <3>1, <3>2
  <2>3. InitLives(u) /\ SlotsOK(u)
    BY <1>5 DEF Good, Sound, InitLives, SlotsOK, Lives
  <2> QED BY <1>5, <2>1, <2>2, <2>3 DEF Sound, FathersLive
<1>9. ASSUME Told(t) PROVE Told(u)
  <2> SUFFICES ASSUME NEW q \in Used(u), u[q].pc = "waitpid",
                      NEW z \in Matching(u, q, u[q].waits) \intersect Zombies(u)
               PROVE  SIGCHLD \in u[q].signal
    BY DEF Told
  <2>1. /\ q \in Used(t) /\ z \in Used(t) /\ q # s /\ q # z
        /\ t[q].pc = "waitpid" /\ t[z].pc = "zombie" /\ u[z].father = t[q].pid
    BY <1>5 DEF Zombies, Matching, ChildrenOf
  <2>2. z \in Zombies(t)
    BY <2>1 DEF Zombies
  <2>3. CASE z \in C
    <3>1. t[q].pid = 1
      BY <2>1, <2>3, <1>5
    <3>2. q = 1
      BY <3>1, <2>1, <1>1 DEF Good, Sound, InitLives, PidsUnique
    <3> QED BY <3>2, <2>2, <2>3, <1>5
  <2>4. CASE z \notin C
    <3>1. t[z].father = u[z].father
      BY <2>1, <2>4, <1>5
    <3>2. z \in Matching(t, q, t[q].waits)
      BY <2>1, <3>1, <1>5 DEF Matching, ChildrenOf
    <3> QED BY <2>1, <2>2, <3>2, <1>5, <1>9 DEF Told
  <2> QED BY <2>3, <2>4
<1>10. Known(u, sh)
  BY <1>5 DEF Good, Known
<1> QED BY <1>8, <1>9, <1>10 DEF Good, u

(* A process that is about to exit becomes a zombie, and its father, which *)
(* there is, is told.                                                      *)
LEMMA Dies ==
    ASSUME NEW t, NEW sh, Good(t, sh), NEW s \in Used(t), t[s].pc = "exiting"
    PROVE  Good(FatherTold([t EXCEPT ![s].pc = "zombie"], s), sh)
<1> DEFINE r == [t[s] EXCEPT !.pc = "zombie"]
           z == [t EXCEPT ![s] = r]
           u == FatherTold(z, s)
<1>1. t \in Table /\ s \in Slot /\ t[s] \in Process /\ s # 1
  BY InUse DEF Good, Sound, InitLives, Lives
<1>2. /\ r \in Process /\ r.pid = t[s].pid /\ r.pgrp = t[s].pgrp
      /\ r.session = t[s].session /\ r.leader = t[s].leader /\ r.pc = "zombie"
      /\ r.waits = t[s].waits /\ r.signal = t[s].signal /\ r.father = t[s].father
  BY <1>1 DEF Process
<1>3. z = [t EXCEPT ![s].pc = "zombie"]
  OBVIOUS
<1> HIDE DEF r
<1>4. /\ z \in Table /\ Used(z) = Used(t) /\ z[s] = r
      /\ \A q \in Used(t) : q # s => z[q] = t[q]
  BY <1>1, <1>2, Constants DEF Table, Used
<1> HIDE DEF z
<1>5. PICK f \in Used(t) \ {s} : t[f].pid = t[s].father /\ Lives(t, f)
  BY <1>1 DEF Good, Sound, FathersLive
<1>6. {q \in Used(z) : z[q].pid = z[s].father} = {f}
  BY <1>2, <1>4, <1>5 DEF Good, Sound, PidsUnique
<1> DEFINE F == {f}
<1>7. F \in SUBSET Used(z) /\ F \in SUBSET Nat /\ F # {} /\ SIGCHLD \in Signal
  BY <1>4, <1>5, Constants DEF Used, Signal
<1>8. u = Signalled(z, F, SIGCHLD)
  <2>1. Min(F) = f
    BY <1>7, MinIn
  <2>2. u = Signalled(z, {Min(F)}, SIGCHLD)
    BY <1>6 DEF FatherTold
  <2> QED BY <2>1, <2>2
<1>9. \A q : q \in F <=> q = f
  OBVIOUS
<1> HIDE DEF u, F
<1>10. SignalsAdded(z, u, F, SIGCHLD)
  BY <1>4, <1>7, <1>8, SignalsAdd
<1>11. /\ u \in Table /\ Used(u) = Used(t)
       /\ \A q \in Used(t) :
            /\ u[q].pid = t[q].pid /\ u[q].father = t[q].father
            /\ u[q].pgrp = t[q].pgrp /\ u[q].session = t[q].session
            /\ u[q].leader = t[q].leader
            /\ u[q].pc = IF q = s THEN "zombie" ELSE t[q].pc
            /\ u[q].waits = t[q].waits
            /\ t[q].signal \subseteq u[q].signal
            /\ q = f => SIGCHLD \in u[q].signal
            /\ q = 1 => u[q].signal \subseteq t[q].signal \union {SIGCHLD}
  <2>1. \A q \in Used(t) :
            /\ z[q].pid = t[q].pid /\ z[q].father = t[q].father
            /\ z[q].pgrp = t[q].pgrp /\ z[q].session = t[q].session
            /\ z[q].leader = t[q].leader
            /\ z[q].pc = IF q = s THEN "zombie" ELSE t[q].pc
            /\ z[q].waits = t[q].waits /\ z[q].signal = t[q].signal
    BY <1>2, <1>4
  <2> QED BY <2>1, <1>4, <1>9, <1>10 DEF SignalsAdded
<1>12. \A q \in Used(t) : Lives(t, q) => Lives(u, q)
  BY <1>11 DEF Lives
<1>13. Sound(u)
  <2>1. PidsUnique(u)
    BY <1>11 DEF Good, Sound, PidsUnique
  <2>2. ASSUME NEW q \in Used(u) \ {1}
        PROVE  \E g \in Used(u) \ {q} : u[g].pid = u[q].father /\ Lives(u, g)
    <3>1. PICK g \in Used(t) \ {q} : t[g].pid = t[q].father /\ Lives(t, g)
      BY <1>11 DEF Good, Sound, FathersLive
    <3> QED BY <3>1, <1>11, <1>12
  <2>3. InitLives(u)
    BY <1>11, <1>12 DEF Good, Sound, InitLives
  <2>4. SlotsOK(u)
    BY <1>11 DEF Good, Sound, SlotsOK
  <2> QED BY <1>11, <2>1, <2>2, <2>3, <2>4 DEF Sound, FathersLive
<1>14. ASSUME Told(t) PROVE Told(u)
  <2> SUFFICES ASSUME NEW q \in Used(u), u[q].pc = "waitpid",
                      NEW d \in Matching(u, q, u[q].waits) \intersect Zombies(u)
               PROVE  SIGCHLD \in u[q].signal
    BY DEF Told
  <2>1. /\ q \in Used(t) /\ d \in Used(t) /\ t[q].pc = "waitpid"
        /\ d \in Matching(t, q, t[q].waits) /\ t[d].father = t[q].pid
        /\ d # s => d \in Zombies(t)
    BY <1>11 DEF Zombies, Matching, ChildrenOf
  <2>2. CASE d = s
    <3>1. q = f
      BY <2>1, <2>2, <1>5 DEF Good, Sound, PidsUnique
    <3> QED BY <3>1, <2>1, <1>11
  <2>3. CASE d # s
    BY <2>1, <2>3, <1>11, <1>14 DEF Told
  <2> QED BY <2>2, <2>3
<1>15. Known(u, sh)
  BY <1>11 DEF Good, Known
<1> QED BY <1>3, <1>13, <1>14, <1>15 DEF Good, u

(* A zombie is released: it was nobody's father.                           *)
LEMMA Released ==
    ASSUME NEW t, NEW sh, Good(t, sh), NEW z \in Zombies(t), NEW new,
           new # 0 => new = sh /\ t[z].pid # sh
    PROVE  /\ Good([t EXCEPT ![z] = NULL], new)
           /\ Used([t EXCEPT ![z] = NULL]) = Used(t) \ {z}
<1> DEFINE u == [t EXCEPT ![z] = NULL]
<1>1. /\ t \in Table /\ z \in Used(t) /\ z \in Slot /\ t[z].pc = "zombie"
      /\ ~Lives(t, z) /\ z # 1
  BY InUse DEF Good, Sound, InitLives, Zombies, Lives
<1>2. /\ u \in Table /\ Used(u) = Used(t) \ {z}
      /\ \A q \in Used(u) : u[q] = t[q]
  BY <1>1 DEF Used, Table
<1> HIDE DEF u
<1>3. \A q \in Used(u) : Lives(t, q) <=> Lives(u, q)
  BY <1>2 DEF Lives
<1>4. Sound(u)
  <2>1. PidsUnique(u)
    BY <1>2 DEF Good, Sound, PidsUnique
  <2>2. ASSUME NEW q \in Used(u) \ {1}
        PROVE  \E f \in Used(u) \ {q} : u[f].pid = u[q].father /\ Lives(u, f)
    <3>1. PICK f \in Used(t) \ {q} : t[f].pid = t[q].father /\ Lives(t, f)
      BY <1>2 DEF Good, Sound, FathersLive
    <3>2. f \in Used(u)
      BY <3>1, <1>1, <1>2
    <3> QED BY <3>1, <3>2, <1>2, <1>3
  <2>3. InitLives(u) /\ SlotsOK(u)
    BY <1>1, <1>2, <1>3 DEF Good, Sound, InitLives, SlotsOK
  <2> QED BY <1>2, <2>1, <2>2, <2>3 DEF Sound, FathersLive
<1>5. ASSUME Told(t) PROVE Told(u)
  <2> SUFFICES ASSUME NEW q \in Used(u), u[q].pc = "waitpid",
                      NEW d \in Matching(u, q, u[q].waits) \intersect Zombies(u)
               PROVE  SIGCHLD \in u[q].signal
    BY DEF Told
  <2>1. d \in Zombies(t) /\ d \in Matching(t, q, t[q].waits)
    BY <1>2 DEF Zombies, Matching, ChildrenOf
  <2> QED BY <2>1, <1>2, <1>5 DEF Told
<1>6. Known(u, new)
  BY <1>1, <1>2 DEF Good, Known
<1> QED BY <1>2, <1>4, <1>5, <1>6 DEF Good, u

(* A process changes its group, which is not waited for.                   *)
LEMMA Regrouped ==
    ASSUME NEW t, NEW sh, Good(t, sh), NEW s \in Used(t), s # 1, NEW g \in Group
    PROVE  Good([t EXCEPT ![s].pgrp = g], sh)
<1> DEFINE r == [t[s] EXCEPT !.pgrp = g]
           u == [t EXCEPT ![s].pgrp = g]
<1>1. t \in Table /\ s \in Slot /\ t[s] \in Process /\ g \in Pid
  BY InUse, ProcessesAssumption DEF Good, Sound
<1>2. /\ r \in Process /\ r.pid = t[s].pid /\ r.session = t[s].session
      /\ r.leader = t[s].leader /\ r.pc = t[s].pc
      /\ r.waits = t[s].waits /\ r.signal = t[s].signal /\ r.father = t[s].father
  BY <1>1 DEF Process
<1>3. u = [t EXCEPT ![s] = r]
  OBVIOUS
<1> HIDE DEF r, u
<1>4. /\ u \in Table /\ Used(u) = Used(t) /\ u[s] = r
      /\ \A q \in Used(t) : q # s => u[q] = t[q]
  BY <1>1, <1>2, <1>3, Constants DEF Table, Used
<1>5. \A q \in Used(t) :
         /\ u[q].pid = t[q].pid /\ u[q].session = t[q].session
         /\ u[q].leader = t[q].leader /\ u[q].pc = t[q].pc
         /\ u[q].waits = t[q].waits /\ u[q].signal = t[q].signal
         /\ u[q].father = t[q].father /\ (q = 1 => u[q].pgrp = t[q].pgrp)
         /\ Lives(t, q) <=> Lives(u, q)
  BY <1>2, <1>4 DEF Lives
<1>6. Sound(u)
  <2>1. PidsUnique(u)
    BY <1>4, <1>5 DEF Good, Sound, PidsUnique
  <2>2. ASSUME NEW q \in Used(u) \ {1}
        PROVE  \E f \in Used(u) \ {q} : u[f].pid = u[q].father /\ Lives(u, f)
    <3>1. PICK f \in Used(t) \ {q} : t[f].pid = t[q].father /\ Lives(t, f)
      BY <1>4 DEF Good, Sound, FathersLive
    <3> QED BY <3>1, <1>4, <1>5
  <2>3. InitLives(u) /\ SlotsOK(u)
    BY <1>4, <1>5 DEF Good, Sound, InitLives, SlotsOK
  <2> QED BY <1>4, <2>1, <2>2, <2>3 DEF Sound, FathersLive
<1>7. ASSUME GroupsStay, Told(t) PROVE Told(u)
  <2> SUFFICES ASSUME NEW q \in Used(u), u[q].pc = "waitpid",
                      NEW d \in Matching(u, q, u[q].waits) \intersect Zombies(u)
               PROVE  SIGCHLD \in u[q].signal
    BY DEF Told
  <2>1. d \in Zombies(t) /\ q \in Used(t)
    BY <1>4, <1>5 DEF Zombies
  <2>2. t[q].waits > 0 \/ t[q].waits = -1
    BY <2>1, <1>5, <1>7 DEF GroupsStay, Good, Sound, SlotsOK
  <2>3. t[q].waits \in Int
    BY <2>1, InUse, <1>1, ProcessesAssumption DEF Process
  <2>4. d \in Matching(t, q, t[q].waits)
    BY <2>1, <2>2, <2>3, <1>4, <1>5 DEF Matching, ChildrenOf
  <2> QED BY <2>1, <2>4, <1>5, <1>7 DEF Told
<1>8. Known(u, sh)
  BY <1>4, <1>5 DEF Good, Known
<1> QED BY <1>6, <1>7, <1>8 DEF Good, u

(* A child is born, in a free slot and with a pid of its own.              *)
LEMMA Born ==
    ASSUME NEW t, NEW sh, Good(t, sh), NEW s \in Used(t), Lives(t, s),
           t[s].pc # "waitpid", NEW b \in Slot \ Used(t),
           NEW p \in Pid, \A q \in Used(t) : t[q].pid # p, NEW new,
           new = sh \/ (new = p /\ s = 1)
    PROVE  /\ Good([t EXCEPT ![b] = Child(t[s], p)], new)
           /\ s \in Used([t EXCEPT ![b] = Child(t[s], p)])
           /\ [t EXCEPT ![b] = Child(t[s], p)][s] = t[s]
<1> DEFINE r == Child(t[s], p)
           u == [t EXCEPT ![b] = r]
<1>1. t \in Table /\ s \in Slot /\ t[s] \in Process
  BY InUse DEF Good, Sound
<1>2. /\ r \in Process /\ r.pid = p /\ r.father = t[s].pid /\ r.leader = FALSE
      /\ r.pc = "user"
  BY <1>1 DEF Process, Child
<1> HIDE DEF r
<1>3. /\ u \in Table /\ Used(u) = Used(t) \union {b} /\ u[b] = r /\ b # s
      /\ \A q \in Used(t) : u[q] = t[q] /\ q # b
  BY <1>1, <1>2, Constants DEF Table, Used
<1> HIDE DEF u
<1>4. /\ \A q \in Used(t) : Lives(t, q) <=> Lives(u, q)
      /\ Zombies(u) = Zombies(t) /\ b # 1
  BY <1>2, <1>3 DEF Lives, Zombies, Good, Sound, InitLives
<1>5. Sound(u)
  <2>1. PidsUnique(u)
    BY <1>2, <1>3 DEF Good, Sound, PidsUnique
  <2>2. ASSUME NEW q \in Used(u) \ {1}
        PROVE  \E f \in Used(u) \ {q} : u[f].pid = u[q].father /\ Lives(u, f)
    <3>1. CASE q = b
      BY <3>1, <1>2, <1>3, <1>4
    <3>2. CASE q # b
      <4>1. PICK f \in Used(t) \ {q} : t[f].pid = t[q].father /\ Lives(t, f)
        BY <3>2, <1>3 DEF Good, Sound, FathersLive
      <4> QED BY <4>1, <3>2, <1>3, <1>4
    <3> QED BY <3>1, <3>2
  <2>3. InitLives(u)
    BY <1>3, <1>4 DEF Good, Sound, InitLives
  <2>4. SlotsOK(u)
    BY <1>2, <1>3 DEF Good, Sound, SlotsOK
  <2> QED BY <1>3, <2>1, <2>2, <2>3, <2>4 DEF Sound, FathersLive
<1>6. ASSUME Told(t) PROVE Told(u)
  <2> SUFFICES ASSUME NEW q \in Used(u), u[q].pc = "waitpid",
                      NEW d \in Matching(u, q, u[q].waits) \intersect Zombies(u)
               PROVE  SIGCHLD \in u[q].signal
    BY DEF Told
  <2>1. d \in Zombies(t) /\ d \in Used(t) /\ q \in Used(t) /\ u[q] = t[q] /\ u[d] = t[d]
    BY <1>2, <1>3, <1>4 DEF Zombies
  <2>2. d \in Matching(t, q, t[q].waits)
    BY <2>1 DEF Matching, ChildrenOf
  <2> QED BY <2>1, <2>2, <1>6 DEF Told
<1>7. Known(u, new)
  <2>1. CASE new = sh
    BY <2>1, <1>3 DEF Good, Known
  <2>2. CASE new = p /\ s = 1
    <3>1. u[b].pid = new /\ u[b].father = 1
      BY <2>2, <1>2, <1>3 DEF Good, Sound, InitLives
    <3> QED BY <3>1, <1>3 DEF Known
  <2> QED BY <2>1, <2>2
<1> QED BY <1>3, <1>5, <1>6, <1>7 DEF Good, u, r

(* The end of a system call. *)
LEMMA Returns ==
    ASSUME NEW t, NEW sh, Good(t, sh), NEW s \in Used(t),
           t[s].pc \notin {"zombie", "exiting"}
    PROVE  Good(Returned(t, s), sh)
<1> DEFINE r == [t[s] EXCEPT !.pc = "return", !.waits = 0]
<1>1. t \in Table /\ s \in Slot /\ t[s] \in Process
  BY InUse DEF Good, Sound
<1>2. /\ r \in Process /\ r.pid = t[s].pid /\ r.pgrp = t[s].pgrp
      /\ r.session = t[s].session /\ r.leader = t[s].leader /\ r.pc = "return"
      /\ r.signal = t[s].signal /\ r.father = t[s].father
  <2>1. 0 \in -MaxPid .. MaxPid
    BY ProcessesAssumption
  <2> QED BY <1>1, <2>1 DEF Process
<1>3. Returned(t, s) = [t EXCEPT ![s] = r]
  BY <1>1 DEF Returned, Table
<1> HIDE DEF r
<1>4. /\ r.leader => r.session # 0
      /\ s = 1 => r.pgrp = 0 /\ r.session = 0 /\ r.signal \subseteq {SIGCHLD}
  BY <1>2 DEF Good, Sound, SlotsOK, InitLives
<1>5. Good([t EXCEPT ![s] = r], sh)
  BY <1>2, <1>4, Changed
<1> QED BY <1>3, <1>5

(* A process of its own that changes and returns from its call.            *)
LEMMA Calls ==
    ASSUME NEW t, NEW sh, Good(t, sh), NEW s \in Used(t), NEW r \in Process,
           t[s].pc \notin {"exiting", "zombie"}, r.pc \in {"user", "return"},
           r.pid = t[s].pid, r.father = t[s].father, r.leader => r.session # 0,
           s = 1 => r.pgrp = 0 /\ r.session = 0 /\ r.signal \subseteq t[s].signal
    PROVE  Good([t EXCEPT ![s] = r], sh)
<1>1. s = 1 => r.pgrp = 0 /\ r.session = 0 /\ r.signal \subseteq {SIGCHLD}
  BY DEF Good, Sound, InitLives
<1> QED BY <1>1, Changed

(* waitpid, on a table t in which the caller may still be asleep.          *)
LEMMA Looks ==
    ASSUME NEW t \in Table, NEW s \in Used(t), t[s].pc \in {"user", "waitpid"},
           Good([t EXCEPT ![s].pc = "user"], shell),
           NEW pid \in WaitFor \union {-1}, NEW nohang \in BOOLEAN,
           LookForZombie(t, s, pid, nohang)
    PROVE  Good(task', shell') /\ shell' \in {0, shell}
<1> DEFINE v == [t[s] EXCEPT !.pc = "user"]
           u == [t EXCEPT ![s] = v]
           r == [t[s] EXCEPT !.pc = "return", !.waits = 0]
           w == [t[s] EXCEPT !.pc = "waitpid", !.waits = pid]
           children == Matching(t, s, pid)
           found == children \intersect Zombies(t)
           last == Max(found)
<1>1. s \in Slot /\ t[s] \in Process /\ pid \in -MaxPid .. MaxPid
  BY InUse, Constants
<1>2. /\ v \in Process /\ v.pid = t[s].pid /\ v.pgrp = t[s].pgrp
      /\ v.session = t[s].session /\ v.leader = t[s].leader /\ v.pc = "user"
      /\ v.signal = t[s].signal /\ v.father = t[s].father
      /\ r \in Process /\ r.pid = t[s].pid /\ r.pgrp = t[s].pgrp
      /\ r.session = t[s].session /\ r.leader = t[s].leader /\ r.pc = "return"
      /\ r.signal = t[s].signal /\ r.father = t[s].father
      /\ w \in Process /\ w.pid = t[s].pid /\ w.pgrp = t[s].pgrp
      /\ w.session = t[s].session /\ w.leader = t[s].leader /\ w.pc = "waitpid"
      /\ w.signal = t[s].signal /\ w.father = t[s].father /\ w.waits = pid
  <2>1. 0 \in -MaxPid .. MaxPid
    BY ProcessesAssumption
  <2> QED BY <1>1, <2>1 DEF Process
<1>3. Good(u, shell)
  OBVIOUS
<1>4. /\ Returned(t, s) = [t EXCEPT ![s] = r]
      /\ [t EXCEPT ![s].pc = "waitpid", ![s].waits = pid] = [t EXCEPT ![s] = w]
  BY <1>1 DEF Returned, Table
<1>5. /\ \/ /\ found # {}
            /\ task' = Returned([t EXCEPT ![last] = NULL], s)
            /\ shell' = IF s = 1 /\ t[last].pid = shell THEN 0 ELSE shell
         \/ /\ found = {}
            /\ task' = [t EXCEPT ![s].pc = "waitpid", ![s].waits = pid] \/ task' = Returned(t, s)
            /\ shell' = shell
  BY DEF LookForZombie
<1> HIDE DEF r, v, w
<1>6. /\ u \in Table /\ Used(u) = Used(t) /\ u[s] = v
      /\ \A q \in Used(t) : q # s => u[q] = t[q]
      /\ \A x : [u EXCEPT ![s] = x] = [t EXCEPT ![s] = x]
  BY <1>1, <1>2, Constants DEF Table, Used
<1>7. Zombies(u) = Zombies(t) /\ s \notin Zombies(u)
  BY <1>2, <1>6 DEF Zombies
<1> HIDE DEF u
<1>8. found = Matching(u, s, pid) \intersect Zombies(u)
  <2>1. \A q \in Used(t) : q # s =>
           /\ u[q].father = t[q].father /\ u[q].pid = t[q].pid /\ u[q].pgrp = t[q].pgrp
    BY <1>6
  <2> QED BY <2>1, <1>2, <1>6, <1>7 DEF Matching, ChildrenOf
<1>9. /\ r.leader => r.session # 0
      /\ w.leader => w.session # 0
      /\ s = 1 => /\ r.pgrp = 0 /\ r.session = 0 /\ r.signal \subseteq {SIGCHLD}
                  /\ w.pgrp = 0 /\ w.session = 0 /\ w.signal \subseteq {SIGCHLD}
  BY <1>2, <1>3, <1>6 DEF Good, Sound, InitLives, SlotsOK
<1> HIDE DEF children, found
<1>10. CASE found # {}
  <2>1. last \in found
    <3>1. found \in SUBSET Slot
      BY <1>8 DEF Zombies, Used
    <3> QED BY <3>1, <1>10, MaxIn
  <2> HIDE DEF last
  <2>2. last \in Zombies(u) /\ last # s /\ last \in Used(t) /\ u[last] = t[last]
    BY <2>1, <1>6, <1>7, <1>8 DEF Zombies
  <2>3. shell' # 0 => shell' = shell /\ u[last].pid # shell
    <3>1. s # 1 => u[last].pid # shell \/ shell = 0
      <4>1. SUFFICES ASSUME s # 1, shell # 0, u[last].pid = shell PROVE FALSE
        OBVIOUS
      <4>2. u[last].father = u[s].pid
        BY <2>1, <1>6, <1>8 DEF Matching, ChildrenOf
      <4>3. PICK q \in Used(u) : u[q].pid = shell /\ u[q].father = 1
        BY <4>1, <1>3 DEF Good, Known
      <4>4. q = last
        BY <4>1, <4>3, <2>2, <1>3, <1>6 DEF Good, Sound, PidsUnique
      <4>5. u[s].pid = 1 /\ u[1].pid = 1 /\ 1 \in Used(u)
        BY <4>2, <4>3, <4>4, <1>3 DEF Good, Sound, InitLives
      <4> QED BY <4>1, <4>5, <1>3, <1>6 DEF Good, Sound, PidsUnique
    <3> QED BY <3>1, <2>2, <1>5, <1>10
  <2> DEFINE x == [u EXCEPT ![last] = NULL]
  <2>4. Good(x, shell') /\ Used(x) = Used(u) \ {last}
    BY <2>2, <2>3, <1>3, Released
  <2>5. x[s] = v /\ s \in Used(x)
    BY <2>2, <2>4, <1>1, <1>6 DEF Table
  <2> DEFINE y == [t EXCEPT ![last] = NULL]
  <2>6. y[s] = t[s] /\ Returned(y, s) = [x EXCEPT ![s] = r]
    <3>1. y[s] = t[s] /\ last \in Slot /\ DOMAIN t = Slot /\ DOMAIN u = Slot
      BY <2>2, <1>1, <1>6, InUse DEF Table
    <3>2. Returned(y, s) = [y EXCEPT ![s] = r]
      BY <3>1, <1>1 DEF Returned, r, Table
    <3>3. u = [t EXCEPT ![s] = v]
      BY DEF u
    <3> QED BY <3>1, <3>2, <3>3, <2>2, <1>1
  <2> HIDE DEF x, y
  <2>7. Good([x EXCEPT ![s] = r], shell')
    <3>1. /\ x[s].pc \notin {"exiting", "zombie"} /\ r.pc \in {"user", "return"}
          /\ r.pid = x[s].pid /\ r.father = x[s].father /\ r \in Process
          /\ s = 1 => r.pgrp = 0 /\ r.session = 0 /\ r.signal \subseteq x[s].signal
      BY <2>5, <1>2, <1>9
    <3>2. r.leader => r.session # 0
      BY <1>9
    <3> QED BY <3>1, <3>2, <2>4, <2>5, Calls
  <2> QED BY <2>6, <2>7, <1>5, <1>10 DEF y
<1>11. CASE found = {}
  <2>1. Good([u EXCEPT ![s] = r], shell)
    <3>1. /\ u[s].pc \notin {"exiting", "zombie"} /\ r.pc \in {"user", "return"}
          /\ r.pid = u[s].pid /\ r.father = u[s].father /\ r \in Process
          /\ s = 1 => r.pgrp = 0 /\ r.session = 0 /\ r.signal \subseteq u[s].signal
          /\ s \in Used(u)
      BY <1>2, <1>6, <1>9
    <3>2. r.leader => r.session # 0
      BY <1>9
    <3> QED BY <3>1, <3>2, <1>3, Calls
  <2>2. Good([u EXCEPT ![s] = w], shell)
    <3>1. /\ u[s].pc # "zombie" /\ w.pc \notin {"exiting", "zombie"}
          /\ w.pid = u[s].pid /\ w.father = u[s].father /\ w \in Process
          /\ w.waits \in WaitFor \union {-1} /\ w.pgrp = u[s].pgrp
          /\ s \in Used(u)
      BY <1>2, <1>6
    <3>2. /\ w.leader => w.session # 0
          /\ s = 1 => w.pgrp = 0 /\ w.session = 0 /\ w.signal \subseteq {SIGCHLD}
      BY <1>9
    <3>3. Matching(u, s, w.waits) \intersect Zombies(u) = {}
      BY <1>2, <1>8, <1>11
    <3> QED BY <3>1, <3>2, <3>3, <1>3, Changed, Zenon
  <2> QED BY <2>1, <2>2, <1>4, <1>5, <1>6, <1>11
<1> QED BY <1>10, <1>11

-----------------------------------------------------------------------------
(* Every action keeps the invariant. *)
LEMMA IInvInit == Init => IInv
<1> SUFFICES ASSUME Init PROVE IInv
  OBVIOUS
<1>1. /\ task \in Table /\ Used(task) = {1}
      /\ task[1].pid = 1 /\ task[1].pgrp = 0 /\ task[1].session = 0
      /\ task[1].leader = FALSE /\ task[1].signal = {} /\ task[1].pc = "user"
  <2> DEFINE r == [pid |-> 1, father |-> 0, pgrp |-> 0, session |-> 0, leader |-> FALSE,
                   signal |-> {}, blocked |-> {}, sigaction |-> [n \in Signal |-> SIG_DFL],
                   pc |-> "user", waits |-> 0]
  <2>1. r \in Process
    <3>1. 0 \in -MaxPid .. MaxPid
      BY ProcessesAssumption
    <3>2. [n \in Signal |-> SIG_DFL]
             \in [Signal -> [handler : {"default", "ignore", "function"},
                             mask : SUBSET Signal, once : BOOLEAN]]
      BY DEF SIG_DFL
    <3> QED BY <3>1, <3>2, Constants DEF Process
  <2>2. task = [s \in Slot |-> IF s # 1 THEN NULL ELSE r]
    BY DEF Init
  <2>3. /\ r.pid = 1 /\ r.pgrp = 0 /\ r.session = 0
        /\ r.leader = FALSE /\ r.signal = {} /\ r.pc = "user"
    OBVIOUS
  <2> HIDE DEF r
  <2> QED BY <2>1, <2>2, <2>3, Constants DEF Table, Used
<1>2. Sound(task) /\ Told(task)
  BY <1>1 DEF Sound, PidsUnique, FathersLive, InitLives, Lives, SlotsOK, Told
<1>3. Known(task, shell) /\ last_pid \in Pid /\ shell = 0 /\ calls \in 0 .. MaxCalls
  BY Constants, ProcessesAssumption DEF Init, Known
<1> QED BY <1>2, <1>3 DEF IInv, Good

LEMMA ForkKeeps ==
    ASSUME IInv, NEW s \in Slot, Fork(s)
    PROVE  IInv'
<1> DEFINE p == NextPid(task)
           b == Min(Slot \ Used(task))
           u == [task EXCEPT ![b] = Child(task[s], p)]
<1>1. /\ Good(task, shell) /\ task \in Table /\ last_pid \in Pid
      /\ s \in Used(task) /\ task[s].pc = "user" /\ Lives(task, s)
  BY DEF IInv, Good, Sound, Fork, At, Lives
<1>2. p \in Pid /\ \A q \in Used(task) : task[q].pid # p
  BY <1>1, NextPidIsFree
<1>3. /\ last_pid' = p /\ calls' = calls
      /\ \/ shell' = shell /\ task' = Returned(task, s)
         \/ /\ Used(task) # Slot
            /\ task' = Returned(u, s)
            /\ shell' = IF s = 1 THEN p ELSE shell
  BY DEF Fork
<1>4. Used(task) # Slot => b \in Slot \ Used(task)
  <2>1. Slot \ Used(task) \in SUBSET Nat
    BY Constants
  <2>2. Used(task) # Slot => Slot \ Used(task) # {}
    BY DEF Used
  <2> QED BY <2>1, <2>2, MinIn
<1> HIDE DEF p, b
<1>5. CASE shell' = shell /\ task' = Returned(task, s)
  <2>1. Good(Returned(task, s), shell)
    BY <1>1, Returns
  <2> QED BY <2>1, <1>2, <1>3, <1>5 DEF IInv
<1>6. CASE /\ Used(task) # Slot
           /\ task' = Returned(u, s)
           /\ shell' = IF s = 1 THEN p ELSE shell
  <2>1. shell' = shell \/ (shell' = p /\ s = 1)
    BY <1>6
  <2>2. Good(u, shell') /\ s \in Used(u) /\ u[s] = task[s]
    BY <2>1, <1>1, <1>2, <1>4, <1>6, Born
  <2> HIDE DEF u
  <2>3. Good(Returned(u, s), shell')
    BY <2>2, <1>1, Returns
  <2>4. shell' \in Pid \union {0}
    BY <2>1, <1>2 DEF IInv
  <2> QED BY <2>3, <2>4, <1>2, <1>3, <1>6 DEF IInv
<1> QED BY <1>3, <1>5, <1>6

LEMMA ExitKeeps ==
    ASSUME IInv, NEW s \in Slot, Exit(s)
    PROVE  IInv'
<1>1. /\ Good(task, shell) /\ s \in Used(task) /\ s # 1 /\ task[s].pc # "zombie"
      /\ task' = Exiting(task, s) /\ UNCHANGED <<last_pid, shell, calls>>
  BY DEF IInv, Exit, At
<1>2. Good(Exiting(task, s), shell)
  BY <1>1, Exits
<1> QED BY <1>1, <1>2 DEF IInv

LEMMA BecomeZombieKeeps ==
    ASSUME IInv, NEW s \in Slot, BecomeZombie(s)
    PROVE  IInv'
<1> DEFINE S == {q \in Used(task) : task[q].session = task[s].session}
           u == IF task[s].leader THEN Signalled(task, S, SIGHUP) ELSE task
<1>1. /\ Good(task, shell) /\ task \in Table /\ s \in Used(task) /\ task[s].pc = "exiting"
      /\ task' = FatherTold([u EXCEPT ![s].pc = "zombie"], s)
      /\ UNCHANGED <<last_pid, shell, calls>>
  BY DEF IInv, Good, Sound, BecomeZombie, At, SessionKilled
<1>2. Good(u, shell) /\ s \in Used(u) /\ u[s].pc = "exiting"
  <2>1. S \in SUBSET Used(task) /\ SIGHUP \in Signal
    BY DEF Signal
  <2>2. CASE task[s].leader
    <3>1. 1 \notin S
      BY <1>1, <2>2 DEF Good, Sound, InitLives, SlotsOK
    <3> HIDE DEF S
    <3>2. Good(Signalled(task, S, SIGHUP), shell)
      BY <1>1, <2>1, <3>1, SignalsCome
    <3>3. SignalsAdded(task, Signalled(task, S, SIGHUP), S, SIGHUP)
      BY <1>1, <2>1, SignalsAdd
    <3> QED BY <3>2, <3>3, <2>2, <1>1 DEF SignalsAdded
  <2>3. CASE ~task[s].leader
    BY <2>3, <1>1
  <2> QED BY <2>2, <2>3
<1> HIDE DEF u
<1>3. Good(FatherTold([u EXCEPT ![s].pc = "zombie"], s), shell)
  BY <1>2, Dies
<1> QED BY <1>1, <1>3 DEF IInv

LEMMA WaitpidKeeps ==
    ASSUME IInv, NEW s \in Slot, NEW pid \in WaitFor \union {-1}, NEW nohang \in BOOLEAN,
           Waitpid(s, pid, nohang)
    PROVE  IInv'
<1>1. /\ Good(task, shell) /\ task \in Table /\ s \in Used(task) /\ task[s].pc = "user"
      /\ LookForZombie(task, s, pid, nohang) /\ UNCHANGED <<last_pid, calls>>
  BY DEF IInv, Good, Sound, Waitpid, At
<1>2. [task EXCEPT ![s].pc = "user"] = task
  BY <1>1, InUse DEF Table, Process
<1>3. Good(task', shell') /\ shell' \in {0, shell}
  BY <1>1, <1>2, Looks
<1> QED BY <1>1, <1>3 DEF IInv

LEMMA WaitpidWakesKeeps ==
    ASSUME IInv, NEW s \in Slot, WaitpidWakes(s)
    PROVE  IInv'
<1> DEFINE r == [task[s] EXCEPT !.signal = @ \ {SIGCHLD}]
           v == [task[s] EXCEPT !.signal = @ \ {SIGCHLD}, !.pc = "user"]
           t == [task EXCEPT ![s].signal = @ \ {SIGCHLD}]
<1>1. /\ Good(task, shell) /\ task \in Table /\ s \in Used(task)
      /\ task[s] \in Process /\ task[s].pc = "waitpid"
      /\ UNCHANGED <<last_pid, calls>>
  BY InUse DEF IInv, Good, Sound, WaitpidWakes, At
<1>2. \/ LookForZombie(t, s, t[s].waits, FALSE)
      \/ task' = Returned(t, s) /\ shell' = shell
  BY DEF WaitpidWakes
<1>3. /\ r \in Process /\ r.pc = "waitpid" /\ r.waits = task[s].waits
      /\ v \in Process /\ v.pc = "user" /\ v.pid = task[s].pid
      /\ v.father = task[s].father /\ v.pgrp = task[s].pgrp
      /\ v.session = task[s].session /\ v.leader = task[s].leader
      /\ v.signal \subseteq task[s].signal
  BY <1>1 DEF Process
<1>4. /\ t = [task EXCEPT ![s] = r] /\ [t EXCEPT ![s].pc = "user"] = [task EXCEPT ![s] = v]
      /\ Returned(t, s) = Returned([task EXCEPT ![s] = v], s)
  BY <1>1 DEF Table, Returned
<1> HIDE DEF r, v, t
<1>5. /\ v.leader => v.session # 0
      /\ s = 1 => v.pgrp = 0 /\ v.session = 0 /\ v.signal \subseteq task[s].signal
  BY <1>1, <1>3 DEF Good, Sound, InitLives, SlotsOK
<1>6. Good([task EXCEPT ![s] = v], shell)
  BY <1>1, <1>3, <1>5, Calls
<1>7. t \in Table /\ s \in Used(t) /\ t[s] = r
  BY <1>1, <1>3, <1>4, Constants DEF Table, Used
<1>8. CASE LookForZombie(t, s, t[s].waits, FALSE)
  <2>1. t[s].waits \in WaitFor \union {-1} /\ t[s].pc = "waitpid"
    BY <1>1, <1>3, <1>7 DEF Good, Sound, SlotsOK
  <2>2. Good(task', shell') /\ shell' \in {0, shell}
    BY <2>1, <1>4, <1>6, <1>7, <1>8, Looks
  <2> QED BY <2>2, <1>1 DEF IInv
<1>9. CASE task' = Returned(t, s) /\ shell' = shell
  <2> DEFINE u == [task EXCEPT ![s] = v]
  <2>1. s \in Used(u) /\ u[s] = v
    BY <1>1, <1>3, Constants DEF Table, Used
  <2> HIDE DEF u
  <2>2. Good(Returned(u, s), shell)
    BY <2>1, <1>3, <1>6, Returns DEF u
  <2> QED BY <2>2, <1>1, <1>4, <1>9 DEF IInv, u
<1> QED BY <1>2, <1>8, <1>9

LEMMA KillKeeps ==
    ASSUME IInv, NEW s \in Slot, NEW pid \in Pid \union {0, -1, -2}, NEW n \in Sent,
           Kill(s, pid, n)
    PROVE  IInv'
<1> DEFINE K == Killed(s, pid)
           u == Signalled(task, K, n)
<1>1. /\ Good(task, shell) /\ task \in Table /\ s \in Used(task) /\ task[s].pc = "user"
      /\ s # 1 /\ n \in Signal /\ task' = Returned(u, s)
      /\ UNCHANGED <<last_pid, shell>> /\ calls' \in 0 .. MaxCalls
  BY ProcessesAssumption DEF IInv, Good, Sound, Kill, Call, At
<1>2. K \in SUBSET Used(task) /\ 1 \notin K
  <2>1. task[s].pid # 0
    BY <1>1, InUse DEF Process, Pid
  <2>2. CASE pid = 0
    BY <2>1, <2>2, <1>1 DEF Killed, Good, Sound, InitLives
  <2>3. CASE pid > 0
    BY <2>3, <1>1 DEF Killed, Allowed
  <2>4. CASE pid = -1
    BY <2>4, <1>1 DEF Killed, Allowed
  <2>5. CASE pid = -2
    BY <2>5 DEF Killed
  <2> QED BY <2>2, <2>3, <2>4, <2>5 DEF Pid
<1> HIDE DEF K
<1>3. Good(u, shell)
  BY <1>1, <1>2, SignalsCome
<1>4. SignalsAdded(task, u, K, n)
  BY <1>1, <1>2, SignalsAdd
<1> HIDE DEF u
<1>5. s \in Used(u) /\ u[s].pc = "user"
  BY <1>1, <1>4 DEF SignalsAdded
<1>6. Good(Returned(u, s), shell)
  BY <1>3, <1>5, Returns
<1> QED BY <1>1, <1>6 DEF IInv

LEMMA SsetmaskKeeps ==
    ASSUME IInv, NEW s \in Slot, NEW mask \in Mask, Ssetmask(s, mask)
    PROVE  IInv'
<1> DEFINE r == [task[s] EXCEPT !.blocked = mask \ {SIGKILL}]
           u == [task EXCEPT ![s] = r]
<1>1. /\ Good(task, shell) /\ task \in Table /\ s \in Used(task) /\ task[s].pc = "user"
      /\ task[s] \in Process /\ s # 1 /\ task' = Returned(u, s)
      /\ UNCHANGED <<last_pid, shell>> /\ calls' \in 0 .. MaxCalls
  BY InUse, ProcessesAssumption DEF IInv, Good, Sound, Ssetmask, Call, At
<1>2. mask \in SUBSET Signal
  BY ProcessesAssumption
<1>3. /\ r \in Process /\ r.pid = task[s].pid /\ r.father = task[s].father
      /\ r.pc = "user" /\ r.session = task[s].session /\ r.leader = task[s].leader
  BY <1>1, <1>2 DEF Process
<1> HIDE DEF r
<1>4. r.leader => r.session # 0
  BY <1>1, <1>3 DEF Good, Sound, SlotsOK
<1>5. Good(u, shell)
  BY <1>1, <1>3, <1>4, Calls
<1>6. s \in Used(u) /\ u[s] = r
  BY <1>1, <1>3, Constants DEF Table, Used
<1> HIDE DEF u
<1>7. Good(Returned(u, s), shell)
  BY <1>3, <1>5, <1>6, Returns
<1> QED BY <1>1, <1>7 DEF IInv

Action == [handler : {"default", "ignore", "function"}, mask : SUBSET Signal, once : BOOLEAN]

LEMMA SetActionKeeps ==
    ASSUME IInv, NEW s \in Slot, NEW n \in Signal, SetAction(s, n)
    PROVE  IInv'
<1>1. PICK action \in {SIG_DFL, SIG_IGN, Handler({}, TRUE)}
                       \union {Handler(mask \union {n}, FALSE) : mask \in Mask} :
         task' = Returned([task EXCEPT ![s].sigaction[n] = action], s)
  BY DEF SetAction
<1>2. action \in Action
  <2>1. SIG_DFL \in Action /\ SIG_IGN \in Action /\ Handler({}, TRUE) \in Action
    BY DEF Action, SIG_DFL, SIG_IGN, Handler
  <2>2. ASSUME NEW mask \in Mask PROVE Handler(mask \union {n}, FALSE) \in Action
    <3>1. mask \union {n} \in SUBSET Signal
      BY ProcessesAssumption
    <3> QED BY <3>1 DEF Action, Handler
  <2> QED BY <2>1, <2>2
<1> DEFINE r == [task[s] EXCEPT !.sigaction = [@ EXCEPT ![n] = action]]
           u == [task EXCEPT ![s] = r]
<1>3. /\ Good(task, shell) /\ task \in Table /\ s \in Used(task) /\ task[s].pc = "user"
      /\ task[s] \in Process /\ s # 1 /\ UNCHANGED <<last_pid, shell>>
      /\ calls' \in 0 .. MaxCalls
  BY InUse, ProcessesAssumption DEF IInv, Good, Sound, SetAction, Call, At
<1>4. task' = Returned(u, s)
  BY <1>1
<1>5. [task[s].sigaction EXCEPT ![n] = action] \in [Signal -> Action]
  BY <1>2, <1>3 DEF Process, Action
<1>6. /\ r \in Process /\ r.pid = task[s].pid /\ r.father = task[s].father
      /\ r.pc = "user" /\ r.session = task[s].session /\ r.leader = task[s].leader
  BY <1>3, <1>5 DEF Process, Action
<1> HIDE DEF r
<1>7. r.leader => r.session # 0
  BY <1>3, <1>6 DEF Good, Sound, SlotsOK
<1>8. Good(u, shell)
  BY <1>3, <1>6, <1>7, Calls
<1>9. s \in Used(u) /\ u[s] = r
  BY <1>3, <1>6, Constants DEF Table, Used
<1> HIDE DEF u
<1>10. Good(Returned(u, s), shell)
  BY <1>6, <1>8, <1>9, Returns
<1> QED BY <1>3, <1>4, <1>10 DEF IInv

LEMMA ExecveKeeps ==
    ASSUME IInv, NEW s \in Slot, Execve(s)
    PROVE  IInv'
<1> DEFINE r == [task[s] EXCEPT !.sigaction = [n \in Signal |-> SIG_DFL]]
           u == [task EXCEPT ![s] = r]
<1>1. /\ Good(task, shell) /\ task \in Table /\ s \in Used(task) /\ task[s].pc = "user"
      /\ task[s] \in Process /\ s # 1 /\ task' = Returned(u, s)
      /\ UNCHANGED <<last_pid, shell, calls>>
  BY InUse DEF IInv, Good, Sound, Execve, At
<1>2. [n \in Signal |-> SIG_DFL] \in [Signal -> Action]
  BY DEF Action, SIG_DFL
<1>3. /\ r \in Process /\ r.pid = task[s].pid /\ r.father = task[s].father
      /\ r.pc = "user" /\ r.session = task[s].session /\ r.leader = task[s].leader
  BY <1>1, <1>2 DEF Process, Action
<1> HIDE DEF r
<1>4. r.leader => r.session # 0
  BY <1>1, <1>3 DEF Good, Sound, SlotsOK
<1>5. Good(u, shell)
  BY <1>1, <1>3, <1>4, Calls
<1>6. s \in Used(u) /\ u[s] = r
  BY <1>1, <1>3, Constants DEF Table, Used
<1> HIDE DEF u
<1>7. Good(Returned(u, s), shell)
  BY <1>3, <1>5, <1>6, Returns
<1> QED BY <1>1, <1>7 DEF IInv

(* A signal that init gets is SIGCHLD, which does not end it.              *)
LEMMA ReturnToUserKeeps ==
    ASSUME IInv, NEW s \in Slot, ReturnToUser(s)
    PROVE  IInv'
<1>1. /\ Good(task, shell) /\ task \in Table /\ s \in Used(task) /\ task[s].pc = "return"
      /\ task[s] \in Process /\ UNCHANGED <<last_pid, shell, calls>>
  BY InUse DEF IInv, Good, Sound, ReturnToUser, At
<1>2. /\ task[s].leader => task[s].session # 0
      /\ s = 1 => /\ task[s].pgrp = 0 /\ task[s].session = 0
                  /\ task[s].signal \subseteq {SIGCHLD}
  BY <1>1 DEF Good, Sound, SlotsOK, InitLives
<1>3. CASE Pending(s) = {}
  <2> DEFINE r == [task[s] EXCEPT !.pc = "user"]
  <2>1. task' = [task EXCEPT ![s] = r]
    BY <1>3 DEF ReturnToUser
  <2>2. /\ r \in Process /\ r.pid = task[s].pid /\ r.father = task[s].father
        /\ r.pc = "user" /\ r.session = task[s].session /\ r.leader = task[s].leader
        /\ r.pgrp = task[s].pgrp /\ r.signal = task[s].signal
    BY <1>1 DEF Process
  <2> HIDE DEF r
  <2>3. /\ r.leader => r.session # 0
        /\ s = 1 => r.pgrp = 0 /\ r.session = 0 /\ r.signal \subseteq task[s].signal
    BY <1>2, <2>2
  <2>4. Good([task EXCEPT ![s] = r], shell)
    BY <1>1, <2>2, <2>3, Calls
  <2> QED BY <2>1, <2>4, <1>1 DEF IInv
<1>4. CASE Pending(s) # {}
  <2> DEFINE n == Min(Pending(s))
             q == [task[s] EXCEPT !.signal = @ \ {n}]
             t == [task EXCEPT ![s] = q]
             a == q.sigaction[n]
             r == [q EXCEPT !.pc = "user"]
             h == [q EXCEPT !.pc = "user",
                            !.sigaction = [@ EXCEPT ![n] = IF a.once THEN SIG_DFL ELSE a],
                            !.blocked = @ \union a.mask]
  <2>1. n \in Pending(s) /\ n \in Signal /\ n \in task[s].signal
    <3>1. Pending(s) \subseteq task[s].signal /\ task[s].signal \subseteq Signal
      BY <1>1 DEF Pending, Process
    <3>2. Pending(s) \in SUBSET Nat
      BY <3>1, Constants
    <3> QED BY <3>1, <3>2, <1>4, MinIn
  <2>2. task' = DoSignal(t, s, n)
    BY <1>4 DEF ReturnToUser
  <2> HIDE DEF n
  <2>3. /\ q \in Process /\ q.pid = task[s].pid /\ q.father = task[s].father
        /\ q.pc = "return" /\ q.session = task[s].session /\ q.leader = task[s].leader
        /\ q.pgrp = task[s].pgrp /\ q.signal \subseteq task[s].signal
    BY <1>1 DEF Process
  <2> HIDE DEF q
  <2>4. Good(t, shell)
    <3>1. /\ q.leader => q.session # 0
          /\ s = 1 => q.pgrp = 0 /\ q.session = 0 /\ q.signal \subseteq task[s].signal
      BY <1>2, <2>3
    <3> QED BY <1>1, <2>3, <3>1, Calls
  <2>5. t \in Table /\ s \in Used(t) /\ t[s] = q
    BY <1>1, <2>3, Constants DEF Table, Used
  <2>6. a \in Action
    BY <2>1, <2>3 DEF Process, Action
  <2>7. \/ /\ a.handler = "ignore" \/ (a.handler = "default" /\ n = SIGCHLD)
           /\ task' = [t EXCEPT ![s] = r]
        \/ /\ a.handler = "default" /\ n # SIGCHLD
           /\ task' = Exiting(t, s)
        \/ task' = [t EXCEPT ![s] = h]
    <3> HIDE DEF t
    <3>1. /\ [t EXCEPT ![s].pc = "user"] = [t EXCEPT ![s] = r]
          /\ [t EXCEPT ![s].pc = "user",
                       ![s].sigaction[n] = IF a.once THEN SIG_DFL ELSE @,
                       ![s].blocked = @ \union a.mask] = [t EXCEPT ![s] = h]
      BY <1>1, <2>5, ZenonT(40) DEF Table
    <3> QED BY <2>2, <2>5, <3>1 DEF DoSignal
  <2>8. /\ r \in Process /\ r.pid = q.pid /\ r.father = q.father
        /\ r.pc = "user" /\ r.session = q.session /\ r.leader = q.leader
        /\ r.pgrp = q.pgrp /\ r.signal = q.signal
    BY <2>3 DEF Process
  <2>9. /\ h \in Process /\ h.pid = q.pid /\ h.father = q.father
        /\ h.pc = "user" /\ h.session = q.session /\ h.leader = q.leader
        /\ h.pgrp = q.pgrp /\ h.signal = q.signal
    <3> DEFINE f == [q.sigaction EXCEPT ![n] = IF a.once THEN SIG_DFL ELSE a]
    <3>1. f \in [Signal -> Action]
      BY <2>1, <2>3, <2>6 DEF Process, Action, SIG_DFL
    <3>2. q.blocked \union a.mask \in SUBSET Signal
      BY <2>3, <2>6 DEF Process, Action
    <3>3. h = [q EXCEPT !.pc = "user", !.sigaction = f, !.blocked = q.blocked \union a.mask]
      OBVIOUS
    <3> HIDE DEF f, a, h
    <3> QED BY <3>1, <3>2, <3>3, <2>3 DEF Process, Action
  <2> HIDE DEF r, h, a
  <2>10. /\ r.leader => r.session # 0
         /\ s = 1 => r.pgrp = 0 /\ r.session = 0 /\ r.signal \subseteq q.signal
         /\ h.leader => h.session # 0
         /\ s = 1 => h.pgrp = 0 /\ h.session = 0 /\ h.signal \subseteq q.signal
    BY <1>2, <2>3, <2>8, <2>9
  <2> HIDE DEF t
  <2>11. Good([t EXCEPT ![s] = r], shell)
    BY <2>3, <2>4, <2>5, <2>8, <2>10, Calls
  <2>12. Good([t EXCEPT ![s] = h], shell)
    BY <2>3, <2>4, <2>5, <2>9, <2>10, Calls
  <2>13. n # SIGCHLD => Good(Exiting(t, s), shell)
    <3>1. n # SIGCHLD => s # 1
      BY <2>1, <1>2
    <3> QED BY <3>1, <2>3, <2>4, <2>5, Exits
  <2> QED BY <2>7, <2>11, <2>12, <2>13, <1>1 DEF IInv
<1> QED BY <1>3, <1>4

LEMMA TickKeeps ==
    ASSUME IInv, NEW s \in Slot, Tick(s)
    PROVE  IInv'
<1> DEFINE r == [task[s] EXCEPT !.pc = "return"]
<1>1. /\ Good(task, shell) /\ task \in Table /\ s \in Used(task) /\ task[s].pc = "user"
      /\ task[s] \in Process /\ task' = [task EXCEPT ![s] = r]
      /\ UNCHANGED <<last_pid, shell, calls>>
  BY InUse DEF IInv, Good, Sound, Tick, At
<1>2. /\ r \in Process /\ r.pid = task[s].pid /\ r.father = task[s].father
      /\ r.pc = "return" /\ r.session = task[s].session /\ r.leader = task[s].leader
      /\ r.pgrp = task[s].pgrp /\ r.signal = task[s].signal
  BY <1>1 DEF Process
<1> HIDE DEF r
<1>3. /\ r.leader => r.session # 0
      /\ s = 1 => r.pgrp = 0 /\ r.session = 0 /\ r.signal \subseteq task[s].signal
  BY <1>1, <1>2 DEF Good, Sound, SlotsOK, InitLives
<1>4. Good([task EXCEPT ![s] = r], shell)
  BY <1>1, <1>2, <1>3, Calls
<1> QED BY <1>1, <1>4 DEF IInv

LEMMA SetsidKeeps ==
    ASSUME IInv, NEW s \in Slot, Setsid(s)
    PROVE  IInv'
<1> DEFINE p == task[s].pid
           r == [task[s] EXCEPT !.leader = TRUE, !.session = p, !.pgrp = p]
           u == [task EXCEPT ![s] = r]
<1>1. /\ Good(task, shell) /\ task \in Table /\ s \in Used(task) /\ task[s].pc = "user"
      /\ task[s] \in Process /\ s # 1 /\ UNCHANGED <<last_pid, shell>>
      /\ calls' \in 0 .. MaxCalls
  BY InUse, ProcessesAssumption DEF IInv, Good, Sound, Setsid, Call, At
<1>2. task' = Returned([task EXCEPT ![s].leader = TRUE, ![s].session = p, ![s].pgrp = p], s)
  BY DEF Setsid
<1>3. p \in Pid /\ p # 0
  BY <1>1 DEF Process, Pid
<1> HIDE DEF p
<1>4. task' = Returned(u, s)
  <2>1. [task EXCEPT ![s].leader = TRUE, ![s].session = p, ![s].pgrp = p] = u
    BY <1>1 DEF Table
  <2> QED BY <1>2, <2>1
<1>5. /\ r \in Process /\ r.pid = task[s].pid /\ r.father = task[s].father
      /\ r.pc = "user" /\ r.session = p
  BY <1>1, <1>3 DEF Process
<1> HIDE DEF r
<1>6. Good(u, shell)
  BY <1>1, <1>3, <1>5, Calls
<1>7. s \in Used(u) /\ u[s] = r
  BY <1>1, <1>5, Constants DEF Table, Used
<1> HIDE DEF u
<1>8. Good(Returned(u, s), shell)
  BY <1>5, <1>6, <1>7, Returns
<1> QED BY <1>1, <1>4, <1>8 DEF IInv

LEMMA SetpgidKeeps ==
    ASSUME IInv, NEW s \in Slot, NEW q \in Slot, NEW pgid \in Group, Setpgid(s, q, pgid)
    PROVE  IInv'
<1> DEFINE u == [task EXCEPT ![q].pgrp = pgid]
<1>1. /\ Good(task, shell) /\ task \in Table /\ s \in Used(task) /\ task[s].pc = "user"
      /\ q \in Used(task) /\ q # 1 /\ task' = Returned(u, s)
      /\ UNCHANGED <<last_pid, shell>> /\ calls' \in 0 .. MaxCalls
  BY ProcessesAssumption DEF IInv, Good, Sound, Setpgid, Call, At
<1>2. Good(u, shell)
  BY <1>1, Regrouped
<1>3. s \in Used(u) /\ u[s].pc = "user"
  <2> DEFINE r == [task[q] EXCEPT !.pgrp = pgid]
  <2>1. task[q] \in Process /\ pgid \in Pid
    BY <1>1, InUse, ProcessesAssumption
  <2>2. r \in Process /\ r.pc = task[q].pc
    BY <2>1 DEF Process
  <2>3. u = [task EXCEPT ![q] = r]
    OBVIOUS
  <2> HIDE DEF r, u
  <2> QED BY <2>2, <2>3, <1>1, Constants DEF Table, Used
<1> HIDE DEF u
<1>4. Good(Returned(u, s), shell)
  BY <1>2, <1>3, Returns
<1> QED BY <1>1, <1>4 DEF IInv

LEMMA IInvInductive == IInv /\ [Next]_vars => IInv'
<1> SUFFICES ASSUME IInv, [Next]_vars PROVE IInv'
  OBVIOUS
<1>1. CASE Next
  BY <1>1, ForkKeeps, ExitKeeps, BecomeZombieKeeps, WaitpidKeeps, WaitpidWakesKeeps,
     KillKeeps, SsetmaskKeeps, SetActionKeeps, ExecveKeeps, ReturnToUserKeeps, TickKeeps,
     SetsidKeeps, SetpgidKeeps DEF Next
<1>2. CASE UNCHANGED vars
  BY <1>2 DEF vars, IInv
<1> QED BY <1>1, <1>2

LEMMA Inductive == Spec => []IInv
<1>1. IInv /\ [Next]_vars => IInv'
  BY IInvInductive
<1> QED BY <1>1, IInvInit, PTL DEF Spec

LEMMA GoodFamily == IInv => TypeOK /\ OneFather /\ ShellKnown /\ (GroupsStay => ChildNotMissed)
<1> SUFFICES ASSUME IInv PROVE TypeOK /\ OneFather /\ ShellKnown /\ (GroupsStay => ChildNotMissed)
  OBVIOUS
<1>1. TypeOK
  BY DEF IInv, Good, Sound, Table, TypeOK
<1>2. OneFather
  BY DEF IInv, Good, Sound, PidsUnique, FathersLive, Lives, OneFather
<1>3. ShellKnown /\ (GroupsStay => ChildNotMissed)
  BY DEF IInv, Good, Known, Told, ShellKnown, ChildNotMissed
<1> QED BY <1>1, <1>2, <1>3

-----------------------------------------------------------------------------
(* Every process but init has a father that lives and can be told of its   *)
(* end, no two have the same pid, and the shell that init waits for is a   *)
(* child of init, whatever the processes do: do_exit, release, waitpid and *)
(* find_empty_process.                                                     *)
THEOREM EveryoneHasAFather == Spec => [](TypeOK /\ OneFather /\ ShellKnown)
<1>1. IInv => TypeOK /\ OneFather /\ ShellKnown
  BY GoodFamily
<1> QED BY <1>1, Inductive, PTL

(* Nor does a father sleep in waitpid, not told, while there is a zombie   *)
(* that it waits for, if no process is moved to another group or nobody    *)
(* waits for a group.                                                      *)
THEOREM FamilyIsSound == GroupsStay => (Spec => []FamilyInv)
<1> SUFFICES ASSUME GroupsStay PROVE Spec => []FamilyInv
  OBVIOUS
<1>1. IInv => FamilyInv
  BY GoodFamily DEF FamilyInv
<1> QED BY <1>1, Inductive, PTL

-----------------------------------------------------------------------------
(***************************************************************************)
(* Directories and links, for any tasks, inodes and names, as long as the  *)
(* names of a file and the calls in progress are too few to wrap its count *)
(* of links, an unsigned char.                                             *)
(***************************************************************************)
FewNames ==
    /\ IsFiniteSet(Task) /\ IsFiniteSet(Node) /\ IsFiniteSet(Pos)
    /\ Cardinality(Node \X Pos) + 3 * Cardinality(Task) < 256

-----------------------------------------------------------------------------
(* A state as a value, so that a call that ends can be taken apart: first  *)
(* it changes the links, then it gives up what it holds.                   *)
Calling == Creating \cup Removing
Frames == [op : Calling \cup {NONE}, name : Name \cup {NONE}, dir : Node \cup {NONE},
           pos : Pos \cup {NONE}, node : Node \cup {NONE}]
Entry == [name : Name, node : Node]
Inode == [kind : {"free", "file", "dir"}, nlinks : Nat, parent : Node \cup {NONE},
          entry : [Pos -> Entry \cup {NONE}]]
Places == {"user", "walk", "file", "add_entry", "linked", "got", "empty_dir", "cleared"}
Shots == [node : [Node -> Inode], pc : [Task -> Places], local : [Task -> Frames],
          odd : SUBSET Oddities]
Now == [node |-> node, pc |-> pc, local |-> local, odd |-> odd]

Dir(s, t)  == s.local[t].dir
Held(s, t) == s.local[t].node
Op(s, t)   == s.local[t].op
Has(s, n)  == {u \in Task : n \in {Dir(s, u), Held(s, u)}}
Ents(s, n) ==
    {e \in Node \X Pos : s.node[e[1]].entry[e[2]] # NONE /\ s.node[e[1]].entry[e[2]].node = n}
Named(s, n) == Ents(s, n) # {}
Sons(s, n) ==
    {m \in Node \ {Root} : s.node[m].kind = "dir" /\ s.node[m].parent = n /\ Named(s, m)}

(* Tasks whose step on an inode is not counted yet, or not any more. *)
Linking(s, n)  == {t \in Task : s.pc[t] = "linked" /\ Held(s, t) = n}
Clearing(s, n) == {t \in Task : s.pc[t] = "cleared" /\ Held(s, t) = n}
Making(s, n)   == {t \in Task : s.pc[t] = "add_entry" /\ Held(s, t) = n /\ Op(s, t) # "link"}
Leaving(s, n)  == {t \in Task : s.pc[t] = "cleared" /\ Dir(s, t) = n /\ Op(s, t) = "rmdir"}

(* What a task knows of itself and of the inode it holds. *)
Fresh(s, t) ==
    /\ ~Named(s, Held(s, t)) /\ Has(s, Held(s, t)) = {t} /\ Held(s, t) # Root
    /\ Op(s, t) = "mkdir" => /\ s.node[Held(s, t)].kind = "dir"
                             /\ s.node[Held(s, t)].nlinks = 2
                             /\ s.node[Held(s, t)].parent = Dir(s, t)
    /\ Op(s, t) # "mkdir" => /\ s.node[Held(s, t)].kind = "file"
                             /\ s.node[Held(s, t)].nlinks = 1
WalkOK(s, t) ==
    /\ s.local[t].name \in Name /\ Dir(s, t) \in Node
    /\ Held(s, t) # NONE => Op(s, t) = "link" /\ s.node[Held(s, t)].kind = "file"
AddOK(s, t) ==
    /\ Op(s, t) \in Creating
    /\ Op(s, t) = "link" => s.node[Held(s, t)].kind = "file"
    /\ Op(s, t) # "link" => Fresh(s, t)
ClearedOK(s, t) ==
    /\ Op(s, t) = "unlink" => s.node[Held(s, t)].kind = "file"
    /\ Op(s, t) = "rmdir" =>
          /\ s.node[Held(s, t)].kind = "dir" /\ Held(s, t) # Root /\ ~Named(s, Held(s, t))
          /\ s.node[Held(s, t)].parent = Dir(s, t)
SelfOK(s, t) ==
    /\ s.pc[t] = "user" => s.local[t] = NoLocals
    /\ s.pc[t] # "user" => Op(s, t) \in Calling
    /\ s.pc[t] = "walk" => WalkOK(s, t)
    /\ s.pc[t] = "file" => Dir(s, t) = NONE /\ Held(s, t) \in Node
    /\ s.pc[t] \in {"add_entry", "linked", "got", "empty_dir", "cleared"} =>
          s.local[t].name \in Name /\ Dir(s, t) \in Node /\ Held(s, t) \in Node
    /\ s.pc[t] = "add_entry" => AddOK(s, t)
    /\ s.pc[t] = "linked" => Op(s, t) = "link" /\ s.node[Held(s, t)].kind = "file"
    /\ s.pc[t] \in {"got", "empty_dir", "cleared"} =>
          Op(s, t) \in Removing /\ s.local[t].pos \in Pos
    /\ s.pc[t] = "empty_dir" =>
          Op(s, t) = "rmdir" /\ s.node[Held(s, t)].kind = "dir" /\ Held(s, t) # Root
    /\ s.pc[t] = "cleared" => ClearedOK(s, t)

(* What is held is there, and who works in a directory works in one that   *)
(* has a name.                                                             *)
HoldsOK(s, t) ==
    /\ Dir(s, t) # NONE => /\ s.node[Dir(s, t)].kind = "dir"
                           /\ Dir(s, t) = Root \/ Named(s, Dir(s, t))
    /\ Held(s, t) # NONE => s.node[Held(s, t)].kind # "free"
Ended(s) == s.odd \cap {"freed_twice", "stale", "enter"} # {}
AloneOK(s) ==
    ~Ended(s) => \A t, u \in Task : s.pc[t] = "empty_dir" => Dir(s, u) # Held(s, t)

(* Inodes: their entries, their links, and who keeps them. *)
ShapeOK(s, n) ==
    /\ s.node[n].kind = "free" => s.node[n] = FreeNode /\ ~Named(s, n)
    /\ s.node[n].kind = "file" => s.node[n].entry = NoEntries /\ s.node[n].nlinks < 256
    /\ s.node[n].kind = "dir" /\ n # Root =>
          /\ Named(s, n) \/ s.node[n].entry = NoEntries
          /\ \A e \in Ents(s, n) : e[1] = s.node[n].parent
          /\ \A e, f \in Ents(s, n) : e = f
    /\ n = Root => s.node[n].kind = "dir" /\ ~Named(s, n)
DirLinks(s, n) ==
    \/ s.node[n].nlinks = Cardinality(Sons(s, n)) + 2 + Cardinality(Leaving(s, n))
    \/ s.node[n].nlinks = 0 /\ ~Named(s, n) /\ n # Root
Extra(s, n, k) ==
    /\ k \in 0 .. Cardinality(Task)
    /\ "nonexistent" \notin s.odd => k = 0
    /\ (s.node[n].nlinks + Cardinality(Linking(s, n))) % 256
          = Cardinality(Ents(s, n)) + Cardinality(Clearing(s, n))
            + Cardinality(Making(s, n)) + k
FileLinks(s, n) == \E k : Extra(s, n, k)
LinksOK(s, n) ==
    /\ s.node[n].kind = "dir" => DirLinks(s, n)
    /\ s.node[n].kind = "file" => FileLinks(s, n)
KeptOK(s, n) ==
    /\ s.node[n].kind # "free" /\ s.node[n].nlinks = 0 => Has(s, n) # {}
    /\ s.node[n].kind = "dir" /\ n # Root /\ ~Named(s, n) /\ s.node[n].nlinks > 0 =>
          \E t \in Task : Held(s, t) = n /\ s.pc[t] \in {"add_entry", "cleared"}

NamesGood(s) ==
    /\ s \in Shots
    /\ \A t \in Task : SelfOK(s, t) /\ HoldsOK(s, t)
    /\ \A n \in Node : ShapeOK(s, n) /\ LinksOK(s, n) /\ KeptOK(s, n)
    /\ AloneOK(s)

LEMMA Distinct ==
    /\ Root \in Dirs /\ Dirs \subseteq Node /\ Root \in Node
    /\ NONE \notin Task /\ NONE \notin Node /\ NONE \notin Name /\ NONE \notin Pos
    /\ NONE \notin Entry
BY NamesAssumption DEF Entry

LEMMA ShotFacts ==
    ASSUME NEW s \in Shots
    PROVE  /\ s.node \in [Node -> Inode] /\ s.pc \in [Task -> Places]
           /\ s.local \in [Task -> Frames] /\ s.odd \subseteq Oddities
           /\ \A t \in Task : /\ s.local[t] \in Frames /\ Dir(s, t) \in Node \cup {NONE}
                              /\ Held(s, t) \in Node \cup {NONE} /\ s.pc[t] \in Places
           /\ \A n \in Node : /\ s.node[n] \in Inode /\ s.node[n].nlinks \in Nat
                              /\ s.node[n].kind \in {"free", "file", "dir"}
                              /\ s.node[n].entry \in [Pos -> Entry \cup {NONE}]
BY DEF Shots, Inode, Frames, Dir, Held

LEMMA One ==
    ASSUME NEW A, NEW B, NEW x, IsFiniteSet(A), x \notin A, B = A \cup {x}
    PROVE  IsFiniteSet(B) /\ Cardinality(B) = Cardinality(A) + 1 /\ Cardinality(A) \in Nat
BY FS_AddElement, FS_CardinalityType

(* The counts are small. *)
LEMMA Counts ==
    ASSUME FewNames, NEW s \in Shots, NEW n \in Node
    PROVE  /\ \A A \in {Linking(s, n), Clearing(s, n), Making(s, n), Leaving(s, n), Has(s, n)} :
                 IsFiniteSet(A) /\ Cardinality(A) \in 0 .. Cardinality(Task)
           /\ IsFiniteSet(Ents(s, n)) /\ Cardinality(Ents(s, n)) \in 0 .. Cardinality(Node \X Pos)
           /\ IsFiniteSet(Sons(s, n)) /\ Cardinality(Sons(s, n)) \in Nat
           /\ Cardinality(Task) \in Nat /\ Cardinality(Node \X Pos) \in Nat
           /\ Cardinality(Node \X Pos) + 3 * Cardinality(Task) < 256
<1>1. IsFiniteSet(Task) /\ IsFiniteSet(Node \X Pos) /\ IsFiniteSet(Node)
  BY FS_Product DEF FewNames
<1>2. Cardinality(Task) \in Nat /\ Cardinality(Node \X Pos) \in Nat
  BY <1>1, FS_CardinalityType
<1>3. \A A \in SUBSET Task : IsFiniteSet(A) /\ Cardinality(A) \in 0 .. Cardinality(Task)
  BY <1>1, <1>2, FS_Subset, FS_CardinalityType
<1>4. \A A \in SUBSET (Node \X Pos) :
         IsFiniteSet(A) /\ Cardinality(A) \in 0 .. Cardinality(Node \X Pos)
  BY <1>1, <1>2, FS_Subset, FS_CardinalityType
<1>5. \A A \in SUBSET Node : IsFiniteSet(A) /\ Cardinality(A) \in Nat
  BY <1>1, FS_Subset, FS_CardinalityType
<1>6. /\ Linking(s, n) \subseteq Task /\ Clearing(s, n) \subseteq Task
      /\ Making(s, n) \subseteq Task /\ Leaving(s, n) \subseteq Task /\ Has(s, n) \subseteq Task
      /\ Ents(s, n) \subseteq Node \X Pos /\ Sons(s, n) \subseteq Node
  BY DEF Linking, Clearing, Making, Leaving, Has, Ents, Sons
<1>7. /\ \A A \in {Linking(s, n), Clearing(s, n), Making(s, n), Leaving(s, n),
                   Has(s, n)} : A \in SUBSET Task
      /\ Ents(s, n) \in SUBSET (Node \X Pos) /\ Sons(s, n) \in SUBSET Node
  BY <1>6
<1>8. /\ \A A \in {Linking(s, n), Clearing(s, n), Making(s, n), Leaving(s, n),
                   Has(s, n)} : IsFiniteSet(A) /\ Cardinality(A) \in 0 .. Cardinality(Task)
      /\ IsFiniteSet(Ents(s, n)) /\ Cardinality(Ents(s, n)) \in 0 .. Cardinality(Node \X Pos)
      /\ IsFiniteSet(Sons(s, n)) /\ Cardinality(Sons(s, n)) \in Nat
  BY <1>3, <1>4, <1>5, <1>7
<1> QED BY <1>2, <1>8 DEF FewNames

LEMMA None0 ==
    ASSUME NEW A, IsFiniteSet(A)
    PROVE  Cardinality(A) \in Nat /\ (Cardinality(A) = 0 <=> A = {})
BY FS_EmptySet, FS_CardinalityType

-----------------------------------------------------------------------------
(* Steps that change no count of links: a task takes or gives up inodes,   *)
(* and those that nobody needs any more are freed.                         *)
Others(s, r, t) == \A u \in Task \ {t} : r.pc[u] = s.pc[u] /\ r.local[u] = s.local[u]
Unlisted(s, t) ==
    s.pc[t] \notin {"linked", "cleared"} /\ (s.pc[t] = "add_entry" => Op(s, t) = "link")
SameEntries(s, r) == \A n \in Node : r.node[n].entry = s.node[n].entry
Unneeded(s, t, n) == n # Root /\ s.node[n].nlinks = 0 /\ Has(s, n) \subseteq {t}
Frees(s, r, t, gone) ==
    /\ gone \subseteq Node
    /\ \A n \in gone : Unneeded(s, t, n) /\ n \notin {Dir(r, t), Held(r, t)}
    /\ \A n \in Node : r.node[n] = IF n \in gone THEN FreeNode ELSE s.node[n]
Gives(s, r, t, gone) ==
    \A n \in {Dir(s, t), Held(s, t)} \cap Node :
        \/ n \in {Dir(r, t), Held(r, t)} \/ n \in gone \/ n = Root
        \/ s.node[n].nlinks > 0 \/ ~(Has(s, n) \subseteq {t})
Takes(s, r, t) ==
    \A n \in {Dir(r, t), Held(r, t)} \cap Node :
        n \in {Dir(s, t), Held(s, t)} \/ Named(s, n) \/ n = Root
OddGrows(s, r) == s.odd \subseteq r.odd
Quiet(s, r, t, gone) ==
    /\ r \in Shots /\ Others(s, r, t) /\ Unlisted(s, t) /\ Unlisted(r, t)
    /\ Frees(s, r, t, gone) /\ Gives(s, r, t, gone) /\ Takes(s, r, t) /\ OddGrows(s, r)

LEMMA SameEnts ==
    ASSUME NEW s, NEW r, SameEntries(s, r)
    PROVE  \A n \in Node : Ents(r, n) = Ents(s, n) /\ (Named(r, n) <=> Named(s, n))
BY DEF SameEntries, Ents, Named

LEMMA SameLists ==
    ASSUME NEW s \in Shots, NEW r \in Shots, NEW t \in Task, Others(s, r, t),
           Unlisted(s, t), Unlisted(r, t), NEW n
    PROVE  /\ Linking(r, n) = Linking(s, n) /\ Clearing(r, n) = Clearing(s, n)
           /\ Making(r, n) = Making(s, n) /\ Leaving(r, n) = Leaving(s, n)
<1>1. \A u \in Task : u # t => r.pc[u] = s.pc[u] /\ r.local[u] = s.local[u]
  BY DEF Others
<1>2. Linking(r, n) = Linking(s, n)
  BY <1>1 DEF Linking, Unlisted, Held
<1>3. Clearing(r, n) = Clearing(s, n)
  BY <1>1 DEF Clearing, Unlisted, Held
<1>4. Making(r, n) = Making(s, n)
  BY <1>1 DEF Making, Unlisted, Held, Op
<1>5. Leaving(r, n) = Leaving(s, n)
  BY <1>1 DEF Leaving, Unlisted, Dir, Op
<1> QED BY <1>2, <1>3, <1>4, <1>5

(* What is freed has no names and no entries. *)
LEMMA GoneOK ==
    ASSUME FewNames, NEW s, NamesGood(s), NEW t \in Task, Unlisted(s, t), NEW n \in Node,
           Unneeded(s, t, n)
    PROVE  ~Named(s, n) /\ s.node[n].entry = NoEntries
<1>1. s \in Shots /\ ShapeOK(s, n) /\ LinksOK(s, n)
  BY DEF NamesGood
<1>2. s.node[n].kind \in {"free", "file", "dir"} /\ s.node[n].nlinks = 0 /\ n # Root
  BY <1>1, ShotFacts DEF Unneeded
<1>3. CASE s.node[n].kind = "free"
  BY <1>1, <1>3 DEF ShapeOK, FreeNode
<1>4. CASE s.node[n].kind = "dir"
  <2>1. Cardinality(Sons(s, n)) \in Nat /\ Cardinality(Leaving(s, n)) \in Nat
    BY <1>1, Counts
  <2>2. ~Named(s, n)
    BY <1>1, <1>2, <1>4, <2>1 DEF LinksOK, DirLinks
  <2> QED BY <1>1, <1>2, <1>4, <2>2 DEF ShapeOK
<1>5. CASE s.node[n].kind = "file"
  <2>1. PICK k : Extra(s, n, k)
    BY <1>1, <1>5 DEF LinksOK, FileLinks
  <2>2. Linking(s, n) = {}
    <3>1. ASSUME NEW u \in Linking(s, n) PROVE FALSE
      <4>1. u \in Task /\ u \in Has(s, n) /\ s.pc[u] = "linked"
        BY <3>1 DEF Linking, Has
      <4> QED BY <4>1 DEF Unneeded, Unlisted
    <3> QED BY <3>1
  <2>3. Cardinality(Linking(s, n)) = 0
    BY <2>2, FS_EmptySet
  <2>4. /\ Cardinality(Ents(s, n)) \in Nat /\ Cardinality(Clearing(s, n)) \in Nat
        /\ Cardinality(Making(s, n)) \in Nat /\ IsFiniteSet(Ents(s, n)) /\ k \in Nat
    BY <1>1, <2>1, Counts DEF Extra
  <2>5. (0 + 0) % 256 = 0
    OBVIOUS
  <2>6. (0 + 0) % 256 = Cardinality(Ents(s, n)) + Cardinality(Clearing(s, n))
                        + Cardinality(Making(s, n)) + k
    BY <1>2, <2>1, <2>3 DEF Extra
  <2>7. Cardinality(Ents(s, n)) = 0
    BY <2>4, <2>5, <2>6
  <2> QED BY <1>1, <1>5, <2>4, <2>7, None0 DEF Named, ShapeOK
<1> QED BY <1>2, <1>3, <1>4, <1>5

LEMMA FreesEnts ==
    ASSUME FewNames, NEW s, NamesGood(s), NEW t \in Task, Unlisted(s, t), NEW r, NEW gone,
           Frees(s, r, t, gone)
    PROVE  SameEntries(s, r)
BY GoneOK DEF Frees, SameEntries, FreeNode

LEMMA QuietInodes ==
    ASSUME FewNames, NEW s, NamesGood(s), NEW t \in Task, NEW r, NEW gone, Quiet(s, r, t, gone),
           NEW n \in Node
    PROVE  ShapeOK(r, n) /\ LinksOK(r, n) /\ KeptOK(r, n)
<1>0. s \in Shots /\ r \in Shots /\ Others(s, r, t) /\ Unlisted(s, t) /\ Unlisted(r, t)
  BY DEF NamesGood, Quiet
<1>1. \A m \in Node : Ents(r, m) = Ents(s, m) /\ (Named(r, m) <=> Named(s, m))
  BY <1>0, FreesEnts, SameEnts DEF Quiet
<1>2. ShapeOK(s, n) /\ LinksOK(s, n) /\ KeptOK(s, n)
  BY DEF NamesGood
<1>3. CASE n \in gone
  <2>1. r.node[n] = FreeNode /\ ~Named(r, n) /\ n # Root
    BY <1>0, <1>1, <1>3, GoneOK DEF Quiet, Frees, Unneeded
  <2> QED BY <2>1 DEF ShapeOK, LinksOK, KeptOK, FreeNode
<1>4. CASE n \notin gone
  <2>1. r.node[n] = s.node[n]
    BY <1>4 DEF Quiet, Frees
  <2>2. ShapeOK(r, n)
    BY <1>1, <1>2, <2>1 DEF ShapeOK
  <2>3. /\ Linking(r, n) = Linking(s, n) /\ Clearing(r, n) = Clearing(s, n)
        /\ Making(r, n) = Making(s, n) /\ Leaving(r, n) = Leaving(s, n)
    BY <1>0, SameLists
  <2>4. Sons(r, n) = Sons(s, n)
    <3>1. ASSUME NEW m \in Node \ {Root}
          PROVE  m \in Sons(r, n) <=> m \in Sons(s, n)
      <4>1. CASE m \in gone
        <5>1. ~Named(s, m) /\ ~Named(r, m)
          BY <1>0, <1>1, <4>1, GoneOK DEF Quiet, Frees
        <5> QED BY <5>1 DEF Sons
      <4>2. CASE m \notin gone
        BY <1>1, <4>2 DEF Sons, Quiet, Frees
      <4> QED BY <4>1, <4>2
    <3> QED BY <3>1 DEF Sons
  <2>5. DirLinks(s, n) => DirLinks(r, n)
    BY <1>1, <2>1, <2>3, <2>4 DEF DirLinks
  <2>6. FileLinks(s, n) => FileLinks(r, n)
    BY <1>1, <2>1, <2>3 DEF FileLinks, Extra, Quiet, OddGrows
  <2>7. KeptOK(r, n)
    <3>1. ASSUME r.node[n].kind # "free", r.node[n].nlinks = 0 PROVE Has(r, n) # {}
      <4>1. PICK u \in Has(s, n) : TRUE
        BY <1>2, <2>1, <3>1 DEF KeptOK
      <4>2. \A v \in Has(s, n) : v # t => v \in Has(r, n)
        BY <1>0 DEF Has, Others, Dir, Held
      <4>3. CASE u = t /\ Has(s, n) \subseteq {t}
        <5>1. n \in {Dir(s, t), Held(s, t)} \cap Node
          BY <4>1, <4>3 DEF Has
        <5>2. n # Root
          <6>1. n = Root => DirLinks(s, n)
            BY <1>2 DEF ShapeOK, LinksOK
          <6>2. Cardinality(Sons(s, n)) \in Nat /\ Cardinality(Leaving(s, n)) \in Nat
            BY <1>0, Counts
          <6> QED BY <2>1, <3>1, <6>1, <6>2 DEF DirLinks
        <5>3. n \in {Dir(r, t), Held(r, t)}
          BY <1>4, <2>1, <3>1, <4>3, <5>1, <5>2 DEF Quiet, Gives
        <5> QED BY <5>3 DEF Has
      <4> QED BY <4>1, <4>2, <4>3
    <3>2. ASSUME r.node[n].kind = "dir", n # Root, ~Named(r, n), r.node[n].nlinks > 0
          PROVE  \E u \in Task : Held(r, u) = n /\ r.pc[u] \in {"add_entry", "cleared"}
      <4>1. PICK u \in Task : Held(s, u) = n /\ s.pc[u] \in {"add_entry", "cleared"}
        BY <1>1, <1>2, <2>1, <3>2 DEF KeptOK
      <4>2. u # t
        <5>1. SelfOK(s, t)
          BY DEF NamesGood
        <5> QED BY <1>0, <2>1, <3>2, <4>1, <5>1 DEF Unlisted, SelfOK, AddOK
      <4> QED BY <1>0, <4>1, <4>2 DEF Others, Held
    <3> QED BY <3>1, <3>2 DEF KeptOK
  <2> QED BY <1>2, <2>1, <2>2, <2>5, <2>6, <2>7 DEF LinksOK
<1> QED BY <1>3, <1>4

-----------------------------------------------------------------------------
(* What one task may do with what others hold. *)
Mild(s, r, t) ==
    /\ r \in Shots /\ Others(s, r, t)
    /\ \A n \in Node : ~(Has(s, n) \subseteq {t}) =>
          /\ r.node[n].kind = s.node[n].kind /\ r.node[n].parent = s.node[n].parent
          /\ n \notin {Dir(s, t), Held(s, t)} =>
                /\ r.node[n].nlinks = s.node[n].nlinks
                /\ Named(s, n) \/ n = Root \/ n \notin {Dir(r, t), Held(r, t)}
          /\ Named(r, n) => \/ Named(s, n)
                            \/ s.node[n].kind = "file" /\ n \in {Dir(s, t), Held(s, t)}
    /\ \A u \in Task \ {t} :
          Dir(s, u) # NONE /\ Named(s, Dir(s, u)) => Named(r, Dir(s, u))

LEMMA MildOK ==
    ASSUME NEW s, NamesGood(s), NEW t \in Task, NEW r, Mild(s, r, t),
           NEW u \in Task, u # t
    PROVE  SelfOK(r, u) /\ HoldsOK(r, u)
<1>1. s \in Shots /\ SelfOK(s, u) /\ HoldsOK(s, u)
  BY DEF NamesGood
<1>2. r.pc[u] = s.pc[u] /\ r.local[u] = s.local[u]
  BY DEF Mild, Others
<1>3. Dir(r, u) = Dir(s, u) /\ Held(r, u) = Held(s, u) /\ Op(r, u) = Op(s, u)
  BY <1>2 DEF Dir, Held, Op
<1>4. Dir(s, u) \in Node \cup {NONE} /\ Held(s, u) \in Node \cup {NONE}
  BY <1>1, ShotFacts
<1>5. \A n \in {Dir(s, u), Held(s, u)} : ~(Has(s, n) \subseteq {t})
  BY DEF Has
<1>6. Held(s, u) # NONE =>
         /\ r.node[Held(s, u)].kind = s.node[Held(s, u)].kind
         /\ r.node[Held(s, u)].parent = s.node[Held(s, u)].parent
  BY <1>4, <1>5 DEF Mild
<1>7. Held(s, u) # NONE /\ s.node[Held(s, u)].kind = "dir" /\ ~Named(s, Held(s, u)) =>
         ~Named(r, Held(s, u))
  BY <1>4, <1>5 DEF Mild
<1>8. HoldsOK(r, u)
  <2>1. ASSUME Dir(s, u) # NONE
        PROVE  r.node[Dir(s, u)].kind = "dir" /\ (Dir(s, u) = Root \/ Named(r, Dir(s, u)))
    BY <1>1, <1>4, <1>5, <2>1 DEF HoldsOK, Mild
  <2> QED BY <1>1, <1>3, <1>6, <2>1 DEF HoldsOK
<1>9. ASSUME s.pc[u] = "add_entry", Op(s, u) # "link" PROVE Fresh(r, u)
  <2>1. Fresh(s, u) /\ Held(s, u) \in Node
    BY <1>1, <1>9 DEF SelfOK, AddOK
  <2>2. Held(s, u) \notin {Dir(s, t), Held(s, t)}
    BY <2>1 DEF Fresh, Has
  <2>3. /\ r.node[Held(s, u)].nlinks = s.node[Held(s, u)].nlinks
        /\ Held(s, u) \notin {Dir(r, t), Held(r, t)} /\ ~Named(r, Held(s, u))
    BY <1>5, <2>1, <2>2 DEF Mild, Fresh
  <2>4. \A v \in Task : v # t => Dir(r, v) = Dir(s, v) /\ Held(r, v) = Held(s, v)
    BY DEF Mild, Others, Dir, Held
  <2>5. Has(r, Held(s, u)) = {u}
    BY <2>1, <2>3, <2>4 DEF Has, Fresh
  <2> QED BY <1>3, <1>6, <2>1, <2>3, <2>5, Distinct DEF Fresh
<1>10. SelfOK(r, u)
  <2>1. s.pc[u] = "walk" => WalkOK(r, u)
    BY <1>1, <1>2, <1>3, <1>6 DEF SelfOK, WalkOK
  <2>2. s.pc[u] = "add_entry" => AddOK(r, u)
    BY <1>1, <1>2, <1>3, <1>6, <1>9, Distinct DEF SelfOK, AddOK
  <2>3. s.pc[u] = "cleared" => ClearedOK(r, u)
    BY <1>1, <1>2, <1>3, <1>6, <1>7, Distinct DEF SelfOK, ClearedOK
  <2> QED BY <1>1, <1>2, <1>3, <1>6, <2>1, <2>2, <2>3, Distinct DEF SelfOK
<1> QED BY <1>8, <1>10

(* A directory that is being looked into stays alone unless t enters it. *)
Enters(s, r, t) ==
    \E u \in Task \ {t} : s.pc[u] = "empty_dir" /\ Held(s, u) = Dir(r, t)

LEMMA AloneKept ==
    ASSUME NEW s, NamesGood(s), NEW t \in Task, NEW r, Others(s, r, t), s.odd \subseteq r.odd,
           r.pc[t] # "empty_dir",
           Dir(r, t) \in {Dir(s, t), NONE, Root} \/ (Enters(s, r, t) => Ended(r))
    PROVE  AloneOK(r)
<1>1. SUFFICES ASSUME ~Ended(r), NEW u \in Task, NEW v \in Task, r.pc[u] = "empty_dir"
               PROVE  Dir(r, v) # Held(r, u)
  BY DEF AloneOK
<1>2. ~Ended(s) /\ u # t /\ s.pc[u] = "empty_dir" /\ Held(r, u) = Held(s, u)
  BY <1>1 DEF Ended, Others, Held
<1>3. /\ \A w \in Task : Dir(s, w) # Held(s, u)
      /\ Held(s, u) # Root /\ Held(s, u) # NONE
  BY <1>1, <1>2, Distinct DEF NamesGood, AloneOK, SelfOK
<1>4. CASE v # t
  BY <1>2, <1>3, <1>4 DEF Others, Dir
<1>5. CASE v = t
  BY <1>1, <1>2, <1>3, <1>5 DEF Enters
<1> QED BY <1>4, <1>5

LEMMA QuietOK ==
    ASSUME FewNames, NEW s, NamesGood(s), NEW t \in Task, NEW r, NEW gone, Quiet(s, r, t, gone),
           SelfOK(r, t), HoldsOK(r, t), AloneOK(r)
    PROVE  NamesGood(r)
<1>1. s \in Shots /\ r \in Shots /\ Others(s, r, t)
  BY DEF NamesGood, Quiet
<1>2. \A n \in Node : Named(r, n) <=> Named(s, n)
  BY FreesEnts, SameEnts DEF Quiet
<1>3. Mild(s, r, t)
  <2>1. ASSUME NEW n \in Node, ~(Has(s, n) \subseteq {t})
        PROVE  /\ r.node[n] = s.node[n]
               /\ n \notin {Dir(s, t), Held(s, t)} =>
                     Named(s, n) \/ n = Root \/ n \notin {Dir(r, t), Held(r, t)}
    <3>1. n \notin gone
      BY <2>1 DEF Quiet, Frees, Unneeded
    <3> QED BY <3>1 DEF Quiet, Frees, Takes
  <2>2. \A u \in Task \ {t} :
           Dir(s, u) # NONE /\ Named(s, Dir(s, u)) => Named(r, Dir(s, u))
    BY <1>1, <1>2, ShotFacts
  <2> QED BY <1>1, <1>2, <2>1, <2>2 DEF Mild
<1>4. \A u \in Task : SelfOK(r, u) /\ HoldsOK(r, u)
  BY <1>3, MildOK
<1>5. \A n \in Node : ShapeOK(r, n) /\ LinksOK(r, n) /\ KeptOK(r, n)
  BY QuietInodes
<1> QED BY <1>1, <1>4, <1>5 DEF NamesGood

(* The end of a system call, once the links have been changed. *)
GivesBack(s, r, t, gone) ==
    /\ r \in Shots /\ Others(s, r, t)
    /\ r.pc[t] = "user" /\ r.local[t] = NoLocals /\ r.odd = s.odd
    /\ Frees(s, r, t, gone)
    /\ \A n \in {Dir(s, t), Held(s, t)} \ {NONE, Root} :
          s.node[n].nlinks = 0 /\ Has(s, n) \subseteq {t} => n \in gone

LEMMA ReturnOK ==
    ASSUME FewNames, NEW s, NamesGood(s), NEW t \in Task, Unlisted(s, t), NEW r, NEW gone,
           GivesBack(s, r, t, gone)
    PROVE  NamesGood(r)
<1>1. s \in Shots /\ Dir(r, t) = NONE /\ Held(r, t) = NONE
  BY DEF NamesGood, GivesBack, NoLocals, Dir, Held
<1>2. \A n \in Node : s.node[n].nlinks \in Nat
  BY <1>1, ShotFacts
<1>3. Gives(s, r, t, gone)
  BY <1>2, Distinct DEF GivesBack, Gives
<1>4. Quiet(s, r, t, gone)
  BY <1>1, <1>3, Distinct DEF GivesBack, Quiet, Unlisted, Takes, OddGrows
<1>5. SelfOK(r, t) /\ HoldsOK(r, t)
  BY <1>1 DEF SelfOK, HoldsOK, GivesBack
<1>6. AloneOK(r)
  BY <1>1, AloneKept DEF GivesBack
<1> QED BY <1>4, <1>5, <1>6, QuietOK

-----------------------------------------------------------------------------
(* Steps that change links: the inodes they leave aside. *)
Aside(s, r, t, n) ==
    /\ s.node[n].kind = r.node[n].kind /\ s.node[n].nlinks = r.node[n].nlinks
    /\ s.node[n].parent = r.node[n].parent
    /\ \/ r.node[n] = s.node[n]
       \/ s.node[n].kind = "dir" /\ (Named(s, n) \/ n = Root)
    /\ Ents(r, n) = Ents(s, n)
    /\ n \notin {Held(s, t), Held(r, t)}
    /\ n = Dir(s, t) => n = Dir(r, t) \/ s.node[n].nlinks > 0
    /\ s.node[n].kind = "dir" => Sons(r, n) = Sons(s, n) /\ Leaving(r, n) = Leaving(s, n)

LEMMA SameAt ==
    ASSUME NEW s, NEW r, NEW t \in Task, Others(s, r, t), NEW n,
           n \notin {Held(s, t), Held(r, t)}
    PROVE  /\ Linking(r, n) = Linking(s, n) /\ Clearing(r, n) = Clearing(s, n)
           /\ Making(r, n) = Making(s, n)
<1>1. \A u \in Task : u # t => r.pc[u] = s.pc[u] /\ r.local[u] = s.local[u]
  BY DEF Others
<1>2. Linking(r, n) = Linking(s, n)
  BY <1>1 DEF Linking, Held
<1>3. Clearing(r, n) = Clearing(s, n)
  BY <1>1 DEF Clearing, Held
<1>4. Making(r, n) = Making(s, n)
  BY <1>1 DEF Making, Held, Op
<1> QED BY <1>2, <1>3, <1>4

LEMMA AsideOK ==
    ASSUME FewNames, NEW s, NamesGood(s), NEW t \in Task, NEW r \in Shots, Others(s, r, t),
           OddGrows(s, r), NEW n \in Node, Aside(s, r, t, n)
    PROVE  ShapeOK(r, n) /\ LinksOK(r, n) /\ KeptOK(r, n)
<1>1. s \in Shots /\ ShapeOK(s, n) /\ LinksOK(s, n) /\ KeptOK(s, n)
  BY DEF NamesGood
<1>2. Named(r, n) <=> Named(s, n)
  BY DEF Aside, Named
<1>3. ShapeOK(r, n)
  BY <1>1, <1>2, Distinct DEF ShapeOK, Aside
<1>4. /\ Linking(r, n) = Linking(s, n) /\ Clearing(r, n) = Clearing(s, n)
      /\ Making(r, n) = Making(s, n)
  BY SameAt DEF Aside
<1>5. s.node[n].kind = "dir" => DirLinks(r, n)
  BY <1>1, <1>2 DEF LinksOK, DirLinks, Aside
<1>6. s.node[n].kind = "file" => FileLinks(r, n)
  BY <1>1, <1>4 DEF LinksOK, FileLinks, Extra, Aside, OddGrows
<1>7. \A u \in Task : u # t => Dir(r, u) = Dir(s, u) /\ Held(r, u) = Held(s, u)
                               /\ r.pc[u] = s.pc[u]
  BY DEF Others, Dir, Held
<1>8. r.node[n].kind # "free" /\ r.node[n].nlinks = 0 => Has(r, n) # {}
  BY <1>1, <1>7 DEF KeptOK, Aside, Has
<1>9. r.node[n].kind = "dir" /\ n # Root /\ ~Named(r, n) /\ r.node[n].nlinks > 0 =>
         \E u \in Task : Held(r, u) = n /\ r.pc[u] \in {"add_entry", "cleared"}
  BY <1>1, <1>2, <1>7 DEF KeptOK, Aside
<1> QED BY <1>3, <1>5, <1>6, <1>8, <1>9 DEF LinksOK, KeptOK, Aside

(* The file that a call holds: its links are to be counted anew. *)
LEMMA FileOK ==
    ASSUME NEW r, NEW t \in Task, NEW n \in Node, Held(r, t) = n,
           r.node[n].kind = "file", r.node[n].entry = NoEntries, r.node[n].nlinks < 256,
           n # Root, FileLinks(r, n)
    PROVE  ShapeOK(r, n) /\ LinksOK(r, n) /\ KeptOK(r, n)
<1>1. t \in Has(r, n)
  BY DEF Has
<1> QED BY <1>1 DEF ShapeOK, LinksOK, KeptOK

(* An entry comes or goes. *)
Adds(s, r, d, p, name, h) ==
    /\ d \in Node /\ p \in Pos /\ name \in Name /\ h \in Node
    /\ s.node[d].entry[p] = NONE /\ r.node[d].entry[p] = [name |-> name, node |-> h]
    /\ \A n \in Node, q \in Pos :
          ~(n = d /\ q = p) => r.node[n].entry[q] = s.node[n].entry[q]

LEMMA SamePairs ==
    ASSUME NEW A, NEW B, A \subseteq Node \X Pos, B \subseteq Node \X Pos,
           \A x \in Node, q \in Pos : (<<x, q>> \in A) <=> (<<x, q>> \in B)
    PROVE  A = B
<1>1. \A e \in Node \X Pos : e = <<e[1], e[2]>> /\ e[1] \in Node /\ e[2] \in Pos
  OBVIOUS
<1>2. \A e \in Node \X Pos : e \in A <=> e \in B
  BY <1>1
<1> QED BY <1>2

LEMMA EntAdded ==
    ASSUME FewNames, NEW s \in Shots, NEW r \in Shots, NEW d, NEW p, NEW name, NEW h,
           Adds(s, r, d, p, name, h)
    PROVE  /\ Ents(r, h) = Ents(s, h) \cup {<<d, p>>} /\ <<d, p>> \notin Ents(s, h)
           /\ Cardinality(Ents(r, h)) = Cardinality(Ents(s, h)) + 1
           /\ \A n \in Node : n # h => Ents(r, n) = Ents(s, n)
<1>1. [name |-> name, node |-> h] # NONE /\ [name |-> name, node |-> h].node = h
  BY Distinct DEF Adds, Entry
<1>2. r.node[d].entry[p] # NONE /\ r.node[d].entry[p].node = h /\ s.node[d].entry[p] = NONE
  BY <1>1 DEF Adds
<1>3. \A n \in Node, q \in Pos :
         ~(n = d /\ q = p) => r.node[n].entry[q] = s.node[n].entry[q]
  BY DEF Adds
<1>4. \A n : \A x \in Node, q \in Pos :
         (<<x, q>> \in Ents(r, n))
            <=> (<<x, q>> \in Ents(s, n)) \/ (n = h /\ x = d /\ q = p)
  <2>1. ASSUME NEW n, NEW x \in Node, NEW q \in Pos, ~(x = d /\ q = p)
        PROVE  <<x, q>> \in Ents(r, n) <=> <<x, q>> \in Ents(s, n)
    BY <1>3, <2>1 DEF Ents
  <2>2. ASSUME NEW n, d \in Node, p \in Pos
        PROVE  /\ <<d, p>> \in Ents(r, n) <=> n = h
               /\ <<d, p>> \notin Ents(s, n)
    BY <1>2, <2>2 DEF Ents
  <2> QED BY <2>1, <2>2
<1>5. \A n : Ents(r, n) \subseteq Node \X Pos /\ Ents(s, n) \subseteq Node \X Pos
  BY DEF Ents
<1>6. d \in Node /\ p \in Pos /\ h \in Node
  BY DEF Adds
<1>7. Ents(r, h) = Ents(s, h) \cup {<<d, p>>}
  <2>1. ASSUME NEW x \in Node, NEW q \in Pos
        PROVE  (<<x, q>> \in Ents(r, h)) <=> (<<x, q>> \in Ents(s, h) \cup {<<d, p>>})
    BY <1>4
  <2>2. Ents(s, h) \cup {<<d, p>>} \subseteq Node \X Pos
    BY <1>5, <1>6
  <2> QED BY <1>5, <2>1, <2>2, SamePairs
<1>8. <<d, p>> \notin Ents(s, h)
  BY <1>2 DEF Ents
<1>9. ASSUME NEW n \in Node, n # h PROVE Ents(r, n) = Ents(s, n)
  <2>1. \A x \in Node, q \in Pos : (<<x, q>> \in Ents(r, n)) <=> (<<x, q>> \in Ents(s, n))
    BY <1>4, <1>9
  <2> QED BY <1>5, <2>1, SamePairs
<1>10. IsFiniteSet(Ents(s, h))
  BY <1>6, Counts
<1>11. Cardinality(Ents(r, h)) = Cardinality(Ents(s, h)) + 1
  BY <1>7, <1>8, <1>10, One
<1> QED BY <1>7, <1>8, <1>9, <1>11

LEMMA ModUp ==
    ASSUME NEW x \in Nat, NEW y \in Nat, x % 256 = y, y + 1 < 256
    PROVE  (x + 1) % 256 = y + 1
OBVIOUS

LEMMA ModDown ==
    ASSUME NEW x \in Nat, NEW l \in Nat, NEW y \in Nat, (x + l) % 256 = y, y > 0
    PROVE  (((x + 255) % 256) + l) % 256 = y - 1
OBVIOUS

LEMMA ModCounted ==
    ASSUME NEW x \in Nat, NEW l \in Nat, l > 0
    PROVE  (((x + 1) % 256) + (l - 1)) % 256 = (x + l) % 256
OBVIOUS

-----------------------------------------------------------------------------
(* The actions read and write these states. *)
Moves(s, r) == s = Now /\ r = Now' /\ NamesGood(s)

LEMMA Reads ==
    ASSUME NEW s, NEW r, Moves(s, r)
    PROVE  /\ s.node = node /\ s.pc = pc /\ s.local = local /\ s.odd = odd
           /\ r.node = node' /\ r.pc = pc' /\ r.local = local' /\ r.odd = odd'
           /\ s \in Shots
           /\ \A t : dir(t) = Dir(s, t) /\ held(t) = Held(s, t)
           /\ \A n : Holders(n) = Has(s, n)
           /\ Over <=> Ended(s)
BY DEF Moves, Now, NamesGood, dir, held, Dir, Held, Holders, Has, Over, Ended

LEMMA Writes ==
    ASSUME NEW s, NEW r, Moves(s, r), r.node \in [Node -> Inode],
           r.pc \in [Task -> Places], r.local \in [Task -> Frames], r.odd \subseteq Oddities
    PROVE  r \in Shots
BY DEF Moves, Now, Shots

LEMMA FreeType == FreeNode \in Inode /\ NoLocals \in Frames
<1>1. NoEntries \in [Pos -> Entry \cup {NONE}]
  BY DEF NoEntries
<1> QED BY <1>1 DEF FreeNode, Inode, NoLocals, Frames

LEMMA FrameType ==
    ASSUME NEW f \in Frames
    PROVE  /\ \A x \in Node \cup {NONE} :
                 [f EXCEPT !.dir = x] \in Frames /\ [f EXCEPT !.node = x] \in Frames
           /\ \A x \in Name \cup {NONE} : [f EXCEPT !.name = x] \in Frames
           /\ \A x \in Calling \cup {NONE} : [f EXCEPT !.op = x] \in Frames
           /\ \A x \in Pos \cup {NONE} : [f EXCEPT !.pos = x] \in Frames
BY DEF Frames

Same(f, g, fields) == \A x \in {"op", "name", "dir", "pos", "node"} \ fields : g[x] = f[x]

LEMMA FrameEach ==
    ASSUME NEW f \in Frames
    PROVE  /\ \A x \in Node \cup {NONE} :
                 /\ [f EXCEPT !.dir = x].dir = x /\ Same(f, [f EXCEPT !.dir = x], {"dir"})
                 /\ [f EXCEPT !.node = x].node = x /\ Same(f, [f EXCEPT !.node = x], {"node"})
           /\ \A x : [f EXCEPT !.name = x].name = x /\ Same(f, [f EXCEPT !.name = x], {"name"})
           /\ \A x : [f EXCEPT !.op = x].op = x /\ Same(f, [f EXCEPT !.op = x], {"op"})
           /\ \A x : [f EXCEPT !.pos = x].pos = x /\ Same(f, [f EXCEPT !.pos = x], {"pos"})
BY DEF Frames, Same

(* The frames that actions put in the place of f. *)
Puts(t, f) == local' = [local EXCEPT ![t] = f]
StartSets(f, g, op, name) == g = [f EXCEPT !.op = op, !.name = name, !.dir = Root]
LinkSets(f, g, h, name) == g = [f EXCEPT !.node = h, !.dir = Root, !.name = name]
FoundSets(f, g, p, h) == g = [f EXCEPT !.pos = p, !.node = h]
OpenSets(g, h) == g = [NoLocals EXCEPT !.op = "open", !.node = h]
DirSets(f, g, d) == g = [f EXCEPT !.dir = d]
NodeSets(f, g, h) == g = [f EXCEPT !.node = h]

LEMMA StartFrame ==
    ASSUME NEW f \in Frames, NEW op \in Calling \cup {NONE}, NEW name \in Name \cup {NONE},
           NEW g, StartSets(f, g, op, name)
    PROVE  /\ g \in Frames /\ g.op = op /\ g.name = name /\ g.dir = Root
           /\ g.pos = f.pos /\ g.node = f.node
<1>1. PICK g1 \in Frames : g1 = [f EXCEPT !.op = op]
  BY FrameType
<1>2. PICK g2 \in Frames : g2 = [g1 EXCEPT !.name = name]
  BY FrameType
<1>3. PICK g3 \in Frames : g3 = [g2 EXCEPT !.dir = Root]
  BY FrameType, Distinct
<1>4. g3.op = op /\ g3.name = name /\ g3.dir = Root /\ g3.pos = f.pos /\ g3.node = f.node
  BY <1>1, <1>2, <1>3, FrameEach DEF Same
<1>5. g3 = [f EXCEPT !.op = op, !.name = name, !.dir = Root]
  BY <1>1, <1>2, <1>3
<1> QED BY <1>3, <1>4, <1>5 DEF StartSets

LEMMA LinkFrame ==
    ASSUME NEW f \in Frames, NEW name \in Name \cup {NONE},
           NEW h \in Node \cup {NONE}, NEW g, LinkSets(f, g, h, name)
    PROVE  /\ g \in Frames /\ g.op = f.op /\ g.name = name /\ g.dir = Root
           /\ g.pos = f.pos /\ g.node = h
<1>1. PICK g1 \in Frames : g1 = [f EXCEPT !.node = h]
  BY FrameType
<1>2. PICK g2 \in Frames : g2 = [g1 EXCEPT !.dir = Root]
  BY FrameType, Distinct
<1>3. PICK g3 \in Frames : g3 = [g2 EXCEPT !.name = name]
  BY FrameType
<1>4. g3.op = f.op /\ g3.name = name /\ g3.dir = Root /\ g3.pos = f.pos /\ g3.node = h
  BY <1>1, <1>2, <1>3, FrameEach DEF Same
<1>5. g3 = [f EXCEPT !.node = h, !.dir = Root, !.name = name]
  BY <1>1, <1>2, <1>3
<1> QED BY <1>3, <1>4, <1>5 DEF LinkSets

LEMMA FoundFrame ==
    ASSUME NEW f \in Frames, NEW p \in Pos, NEW h \in Node, NEW g, FoundSets(f, g, p, h)
    PROVE  /\ g \in Frames /\ g.op = f.op /\ g.name = f.name /\ g.dir = f.dir
           /\ g.pos = p /\ g.node = h
<1>1. PICK g1 \in Frames : g1 = [f EXCEPT !.pos = p]
  BY FrameType
<1>2. PICK g2 \in Frames : g2 = [g1 EXCEPT !.node = h]
  BY FrameType
<1>3. g2.op = f.op /\ g2.name = f.name /\ g2.dir = f.dir /\ g2.pos = p /\ g2.node = h
  BY <1>1, <1>2, FrameEach DEF Same
<1>4. g2 = [f EXCEPT !.pos = p, !.node = h]
  BY <1>1, <1>2
<1> QED BY <1>2, <1>3, <1>4 DEF FoundSets

LEMMA OpenFrame ==
    ASSUME NEW h \in Node, NEW g, OpenSets(g, h)
    PROVE  g \in Frames /\ g.op = "open" /\ g.dir = NONE /\ g.node = h
<1>0. NoLocals \in Frames /\ NoLocals.dir = NONE /\ "open" \in Calling
  BY FreeType DEF NoLocals, Calling, Creating
<1>1. PICK g1 \in Frames : g1 = [NoLocals EXCEPT !.op = "open"]
  BY <1>0, FrameType
<1>2. PICK g2 \in Frames : g2 = [g1 EXCEPT !.node = h]
  BY FrameType
<1>3. g2.op = "open" /\ g2.dir = NONE /\ g2.node = h
  BY <1>0, <1>1, <1>2, FrameEach DEF Same
<1>4. g2 = [NoLocals EXCEPT !.op = "open", !.node = h]
  BY <1>1, <1>2
<1> QED BY <1>2, <1>3, <1>4 DEF OpenSets

LEMMA DirFrame ==
    ASSUME NEW f \in Frames, NEW d \in Node \cup {NONE}, NEW g, DirSets(f, g, d)
    PROVE  /\ g \in Frames /\ g.op = f.op /\ g.name = f.name /\ g.dir = d
           /\ g.pos = f.pos /\ g.node = f.node
<1>1. PICK g1 \in Frames : g1 = [f EXCEPT !.dir = d]
  BY FrameType
<1>2. /\ g1.op = f.op /\ g1.name = f.name /\ g1.dir = d /\ g1.pos = f.pos
      /\ g1.node = f.node
  BY <1>1, FrameEach DEF Same
<1> QED BY <1>1, <1>2 DEF DirSets

LEMMA NodeFrame ==
    ASSUME NEW f \in Frames, NEW h \in Node \cup {NONE}, NEW g, NodeSets(f, g, h)
    PROVE  /\ g \in Frames /\ g.op = f.op /\ g.name = f.name /\ g.dir = f.dir
           /\ g.pos = f.pos /\ g.node = h
<1>1. PICK g1 \in Frames : g1 = [f EXCEPT !.node = h]
  BY FrameType
<1>2. /\ g1.op = f.op /\ g1.name = f.name /\ g1.node = h /\ g1.pos = f.pos
      /\ g1.dir = f.dir
  BY <1>1, FrameEach DEF Same
<1> QED BY <1>1, <1>2 DEF NodeSets

LEMMA GotoStep ==
    ASSUME NEW s, NEW r, Moves(s, r), NEW t \in Task, NEW l \in Places, Goto(t, l)
    PROVE  r.pc \in [Task -> Places] /\ r.pc[t] = l /\ \A u \in Task \ {t} : r.pc[u] = s.pc[u]
<1>1. s.pc \in [Task -> Places] /\ r.pc = [s.pc EXCEPT ![t] = l]
  BY Reads, ShotFacts DEF Goto
<1> QED BY <1>1

LEMMA LocalStep ==
    ASSUME NEW s, NEW r, Moves(s, r), NEW t \in Task, NEW f \in Frames,
           Puts(t, f)
    PROVE  /\ r.local \in [Task -> Frames] /\ r.local[t] = f
           /\ \A u \in Task \ {t} : r.local[u] = s.local[u]
           /\ Dir(r, t) = f.dir /\ Held(r, t) = f.node /\ Op(r, t) = f.op
<1>1. s.local \in [Task -> Frames] /\ r.local = [s.local EXCEPT ![t] = f]
  BY Reads, ShotFacts DEF Puts
<1> QED BY <1>1 DEF Dir, Held, Op

LEMMA DirUsed ==
    ASSUME FewNames, NEW s, NamesGood(s), NEW n \in Node, s.node[n].kind = "dir",
           n = Root \/ Named(s, n)
    PROVE  s.node[n].nlinks >= 2 + Cardinality(Leaving(s, n)) + Cardinality(Sons(s, n))
           /\ s.node[n].nlinks \in Nat /\ Cardinality(Leaving(s, n)) \in Nat
           /\ Cardinality(Sons(s, n)) \in Nat
<1>1. s \in Shots /\ ShapeOK(s, n) /\ DirLinks(s, n)
  BY DEF NamesGood, LinksOK
<1>2. Cardinality(Sons(s, n)) \in Nat /\ Cardinality(Leaving(s, n)) \in Nat
  BY <1>1, Counts
<1> QED BY <1>1, <1>2, ShotFacts DEF ShapeOK, DirLinks

(* What iput of the inodes in drop frees. *)
FreesOf(m, r, t, drop) ==
    \E gone : /\ Frees(m, r, t, gone)
              /\ \A n \in drop \ {NONE, Root} :
                    m.node[n].nlinks = 0 /\ Has(m, n) \subseteq {t} => n \in gone
Keeps(m, r, t, drop) ==
    \A n \in drop \ {NONE, Root} : m.node[n].nlinks = 0 => n \notin {Dir(r, t), Held(r, t)}

(* iput at the end of a step that first leads from s to m. *)
LEMMA IputStep ==
    ASSUME NEW s, NEW r, Moves(s, r), NEW t \in Task, NEW m \in Shots, Others(s, m, t),
           NEW nodes, nodes = m.node, NEW drop, drop \subseteq Node \cup {NONE},
           Iput(t, nodes, drop), Keeps(m, r, t, drop)
    PROVE  r.node \in [Node -> Inode] /\ FreesOf(m, r, t, drop)
<1>1. \A n : Has(m, n) \subseteq {t} <=> Has(s, n) \subseteq {t}
  BY DEF Others, Has, Dir, Held
<1>2. m.node \in [Node -> Inode]
  BY ShotFacts
<1> DEFINE gone == {n \in drop \ {NONE, Root} :
                      m.node[n].nlinks = 0 /\ Holders(n) \subseteq {t}}
<1>3. r.node = [n \in Node |-> IF n \in gone THEN FreeNode ELSE m.node[n]]
  BY Reads DEF Iput
<1>4. r.node \in [Node -> Inode]
  BY <1>2, <1>3, FreeType
<1>5. \A n \in drop \ {NONE, Root} :
         m.node[n].nlinks = 0 /\ Has(m, n) \subseteq {t} <=> n \in gone
  BY <1>1, Reads
<1>6. gone \subseteq drop \ {NONE, Root}
  OBVIOUS
<1>7. Frees(m, r, t, gone)
  <2>1. \A n \in gone : Unneeded(m, t, n) /\ n \notin {Dir(r, t), Held(r, t)}
    BY <1>5, <1>6 DEF Unneeded, Keeps
  <2>2. \A n \in Node : r.node[n] = IF n \in gone THEN FreeNode ELSE m.node[n]
    BY <1>3
  <2> QED BY <1>6, <2>1, <2>2 DEF Frees
<1> QED BY <1>4, <1>5, <1>7 DEF FreesOf

(* The end of a system call. *)
LEMMA ReturnStep ==
    ASSUME FewNames, NEW s, NEW r, Moves(s, r), NEW t \in Task, NEW m, NamesGood(m),
           Unlisted(m, t), Others(s, m, t), m.odd = r.odd,
           {Dir(m, t), Held(m, t)} \subseteq {dir(t), held(t), NONE}, Return(t, m.node)
    PROVE  NamesGood(r)
<1>1. m \in Shots /\ r.odd \subseteq Oddities
  BY ShotFacts DEF NamesGood
<1>2. r.local \in [Task -> Frames] /\ r.local[t] = NoLocals
      /\ \A u \in Task \ {t} : r.local[u] = s.local[u]
  BY LocalStep, FreeType DEF Return, Puts
<1>3. r.pc \in [Task -> Places] /\ r.pc[t] = "user"
      /\ \A u \in Task \ {t} : r.pc[u] = s.pc[u]
  BY GotoStep DEF Return, Places
<1>4. Dir(r, t) = NONE /\ Held(r, t) = NONE
  BY <1>2 DEF Dir, Held, NoLocals
<1>5. PICK drop : drop = {dir(t), held(t)}
  OBVIOUS
<1>6. drop \subseteq Node \cup {NONE} /\ Iput(t, m.node, drop)
  BY <1>5, Reads, ShotFacts DEF Return
<1>7. r.node \in [Node -> Inode] /\ FreesOf(m, r, t, drop)
  <2>1. Keeps(m, r, t, drop)
    BY <1>4 DEF Keeps
  <2>2. PICK nodes : nodes = m.node
    OBVIOUS
  <2>3. Iput(t, nodes, drop)
    BY <1>6, <2>2
  <2> QED BY <1>1, <1>6, <2>1, <2>2, <2>3, IputStep
<1>8. r \in Shots
  BY <1>1, <1>2, <1>3, <1>7, Writes
<1>9. PICK gone : /\ Frees(m, r, t, gone)
                  /\ \A n \in drop \ {NONE, Root} :
                        m.node[n].nlinks = 0 /\ Has(m, n) \subseteq {t} => n \in gone
  BY <1>7 DEF FreesOf
<1>10. Others(m, r, t)
  BY <1>2, <1>3 DEF Others
<1>11. GivesBack(m, r, t, gone)
  BY <1>2, <1>3, <1>5, <1>8, <1>9, <1>10, Reads DEF GivesBack
<1> QED BY <1>11, ReturnOK

-----------------------------------------------------------------------------
(* The actions that leave the inodes as they are, or only return. *)
LEMMA EndStep ==
    ASSUME FewNames, NEW s, NEW r, Moves(s, r), NEW t \in Task, Unlisted(s, t),
           Return(t, node), odd' = odd
    PROVE  NamesGood(r)
<1>1. NamesGood(s) /\ Others(s, s, t) /\ s.odd = r.odd /\ Return(t, s.node)
  BY Reads DEF Moves, Others
<1>2. {Dir(s, t), Held(s, t)} \subseteq {dir(t), held(t), NONE}
  BY Reads
<1> QED BY <1>1, <1>2, ReturnStep

(* t keeps what it has, or drops what is kept by its links. *)
Still(s, r, t) ==
    /\ r.node = s.node /\ Others(s, r, t) /\ OddGrows(s, r)
    /\ Unlisted(s, t) /\ Unlisted(r, t)
    /\ \A n \in {Dir(s, t), Held(s, t)} \cap Node :
          n \in {Dir(r, t), Held(r, t)} \/ s.node[n].nlinks > 0

LEMMA StillOK ==
    ASSUME FewNames, NEW s, NamesGood(s), NEW t \in Task, NEW r \in Shots, Still(s, r, t),
           Takes(s, r, t), SelfOK(r, t), HoldsOK(r, t), AloneOK(r)
    PROVE  NamesGood(r)
<1>1. Frees(s, r, t, {})
  BY DEF Frees, Still
<1>2. Gives(s, r, t, {})
  BY DEF Gives, Still
<1>3. Quiet(s, r, t, {})
  BY <1>1, <1>2 DEF Quiet, Still
<1> QED BY <1>3, QuietOK

LEMMA StillNamed ==
    ASSUME NEW s, NEW r, r.node = s.node
    PROVE  \A n : Named(r, n) <=> Named(s, n)
BY DEF Named, Ents

(* iput of a directory that has links. *)
LEMMA IputNone ==
    ASSUME FewNames, NEW s, NEW r, Moves(s, r), NEW t \in Task, Dir(s, t) \in Node,
           Iput(t, node, {dir(t)})
    PROVE  r.node = s.node /\ s.node[Dir(s, t)].nlinks > 0
<1>1. NamesGood(s) /\ HoldsOK(s, t)
  BY DEF Moves, NamesGood
<1>2. s.node[Dir(s, t)].kind = "dir" /\ (Dir(s, t) = Root \/ Named(s, Dir(s, t)))
  BY <1>1, Distinct DEF HoldsOK
<1>3. s.node[Dir(s, t)].nlinks > 0
  <2>1. PICK d \in Node : d = Dir(s, t)
    OBVIOUS
  <2> QED BY <1>1, <1>2, <2>1, DirUsed
<1>4. s.node \in [Node -> Inode]
  BY Reads, ShotFacts
<1>5. r.node = [n \in Node |-> s.node[n]]
  BY <1>3, Reads DEF Iput
<1> QED BY <1>3, <1>4, <1>5

LEMMA EntryFacts ==
    ASSUME NEW s \in Shots, NEW d \in Node, NEW p \in Pos, s.node[d].entry[p] # NONE
    PROVE  /\ s.node[d].entry[p] \in Entry /\ s.node[d].entry[p].node \in Node
           /\ s.node[d].entry[p].name \in Name
           /\ <<d, p>> \in Ents(s, s.node[d].entry[p].node)
           /\ Named(s, s.node[d].entry[p].node)
<1>1. s.node[d].entry[p] \in Entry
  BY ShotFacts
<1> QED BY <1>1 DEF Entry, Ents, Named

LEMMA StartGood ==
    ASSUME FewNames, NEW s, NEW r, Moves(s, r), NEW t \in Task, NEW op \in Calling,
           NEW name \in Name, Start(t, op, name)
    PROVE  NamesGood(r)
<1>1. NamesGood(s) /\ SelfOK(s, t) /\ s \in Shots /\ s.pc[t] = "user"
  BY Reads DEF Moves, NamesGood, Start, Doing
<1>2. s.local[t] = NoLocals
  BY <1>1 DEF SelfOK
<1>3. NoLocals \in Frames /\ Root \in Node \cup {NONE} /\ local[t] = NoLocals
  BY <1>2, Reads, FreeType, Distinct
<1>4. PICK f \in Frames : /\ f.op = op /\ f.name = name /\ f.dir = Root /\ f.node = NONE
                          /\ Puts(t, f)
  <2>1. NoLocals.node = NONE
    BY DEF NoLocals
  <2>2. PICK f : StartSets(NoLocals, f, op, name)
    BY DEF StartSets
  <2>3. Puts(t, f)
    BY <1>3, <2>2 DEF Start, Puts, StartSets
  <2>4. f \in Frames /\ f.op = op /\ f.name = name /\ f.dir = Root /\ f.node = NoLocals.node
    BY <1>3, <2>2, StartFrame
  <2> QED BY <2>1, <2>3, <2>4
<1>5. /\ r.local \in [Task -> Frames] /\ r.local[t] = f
      /\ \A u \in Task \ {t} : r.local[u] = s.local[u]
      /\ Dir(r, t) = Root /\ Held(r, t) = NONE /\ Op(r, t) = op
  BY <1>4, LocalStep
<1>6. r.pc \in [Task -> Places] /\ r.pc[t] = "walk" /\ \A u \in Task \ {t} : r.pc[u] = s.pc[u]
  BY GotoStep DEF Start, Places
<1>7. r.node = s.node /\ r.odd = s.odd /\ r.node \in [Node -> Inode] /\ r.odd \subseteq Oddities
  BY Reads, ShotFacts DEF Start
<1>8. r \in Shots
  BY <1>5, <1>6, <1>7, Writes
<1>9. Dir(s, t) = NONE /\ Held(s, t) = NONE
  BY <1>2 DEF Dir, Held, NoLocals
<1>10. Still(s, r, t)
  BY <1>1, <1>5, <1>6, <1>7, <1>9, Distinct DEF Still, Others, OddGrows, Unlisted
<1>11. Takes(s, r, t)
  BY <1>5, Distinct DEF Takes
<1>12. SelfOK(r, t)
  BY <1>4, <1>5, <1>6, Distinct DEF SelfOK, WalkOK
<1>13. ShapeOK(s, Root)
  BY <1>1, Distinct DEF NamesGood
<1>14. HoldsOK(r, t)
  BY <1>5, <1>7, <1>13 DEF HoldsOK, ShapeOK
<1>15. AloneOK(r)
  BY <1>1, <1>5, <1>6, <1>7, <1>10, AloneKept DEF Still
<1> QED BY <1>1, <1>8, <1>10, <1>11, <1>12, <1>14, <1>15, StillOK

(* A directory with an entry has a name itself, or is the root. *)
LEMMA DirInUse ==
    ASSUME NEW s, NamesGood(s), NEW d \in Node, NEW p \in Pos, s.node[d].entry[p] # NONE
    PROVE  s.node[d].kind = "dir" /\ (d = Root \/ Named(s, d))
<1>1. ShapeOK(s, d) /\ s.node[d].kind \in {"free", "file", "dir"}
  BY ShotFacts DEF NamesGood
<1>2. s.node[d].entry # NoEntries
  BY DEF NoEntries
<1> QED BY <1>1, <1>2 DEF ShapeOK, FreeNode

(* What dir_namei goes to next. *)
LEMMA EnterGood ==
    ASSUME FewNames, NEW s, NEW r, Moves(s, r), NEW t \in Task, s.pc[t] = "walk",
           NEW d \in Node, s.node[d].kind = "dir", d = Root \/ Named(s, d),
           Iput(t, node, {dir(t)}), local' = [local EXCEPT ![t].dir = d], pc' = pc,
           Note("enter", \E u \in Task \ {t} : pc[u] = "empty_dir" /\ held(u) = d)
    PROVE  NamesGood(r)
<1>1. NamesGood(s) /\ SelfOK(s, t) /\ HoldsOK(s, t) /\ s \in Shots
  BY Reads DEF Moves, NamesGood
<1>2. WalkOK(s, t)
  BY <1>1 DEF SelfOK
<1>3. r.node = s.node /\ s.node[Dir(s, t)].nlinks > 0
  BY <1>2, IputNone DEF WalkOK
<1>4. PICK l \in Frames : l = local[t] /\ l = s.local[t]
  BY <1>1, Reads, ShotFacts
<1>5. PICK f : DirSets(l, f, d)
  BY DEF DirSets
<1>6. /\ f \in Frames /\ f.op = l.op /\ f.name = l.name /\ f.dir = d
      /\ f.pos = l.pos /\ f.node = l.node
  BY <1>4, <1>5, DirFrame
<1>7. Puts(t, f)
  BY <1>4, <1>5 DEF Puts, DirSets
<1>8. /\ r.local \in [Task -> Frames] /\ r.local[t] = f
      /\ \A u \in Task \ {t} : r.local[u] = s.local[u]
      /\ Dir(r, t) = d /\ Held(r, t) = Held(s, t) /\ Op(r, t) = Op(s, t)
      /\ r.local[t].name = s.local[t].name
  <2>1. Held(s, t) = l.node /\ Op(s, t) = l.op
    BY <1>4 DEF Held, Op
  <2> QED BY <1>4, <1>6, <1>7, <2>1, LocalStep
<1>9. r.pc = s.pc /\ r.pc \in [Task -> Places] /\ r.node \in [Node -> Inode]
  BY <1>3, Reads, ShotFacts
<1>10. /\ s.odd \subseteq r.odd /\ r.odd \subseteq Oddities
       /\ Enters(s, r, t) => Ended(r)
  <2>1. odd \subseteq Oddities /\ "enter" \in Oddities
    <3>1. "enter" \in Oddities
      BY DEF Oddities
    <3> QED BY <1>1, <3>1, Reads, ShotFacts
  <2>2. odd' = odd \cup {"enter"} \/ odd' = odd
    BY DEF Note
  <2>3. Enters(s, r, t) => odd' = odd \cup {"enter"}
    BY <1>8, Reads DEF Note, Enters
  <2> QED BY <2>1, <2>2, <2>3, Reads DEF Ended
<1>11. r \in Shots
  BY <1>8, <1>9, <1>10, Writes
<1>12. Still(s, r, t)
  BY <1>1, <1>3, <1>8, <1>9, <1>10 DEF Still, Others, OddGrows, Unlisted
<1>13. Takes(s, r, t)
  BY <1>8 DEF Takes
<1>14. SelfOK(r, t)
  BY <1>1, <1>2, <1>3, <1>8, <1>9 DEF SelfOK, WalkOK
<1>15. HoldsOK(r, t)
  BY <1>1, <1>3, <1>8, StillNamed DEF HoldsOK
<1>16. AloneOK(r)
  BY <1>1, <1>9, <1>10, <1>12, AloneKept DEF Still
<1> QED BY <1>1, <1>11, <1>12, <1>13, <1>14, <1>15, <1>16, StillOK

LEMMA WalkGood ==
    ASSUME FewNames, NEW s, NEW r, Moves(s, r), NEW t \in Task, NEW p \in Pos, Walk(t, p)
    PROVE  NamesGood(r)
<1>1. /\ s.pc[t] = "walk" /\ SelfOK(s, t) /\ s \in Shots
      /\ node[dir(t)].entry[p] = s.node[Dir(s, t)].entry[p]
  BY Reads DEF Moves, NamesGood, Walk, Permitted
<1>2. Dir(s, t) \in Node
  BY <1>1 DEF SelfOK, WalkOK
<1>3. PICK d \in Node : d = node[dir(t)].entry[p].node /\ Named(s, d)
  BY <1>1, <1>2, EntryFacts DEF Walk
<1>4. s.node[d].kind = "dir"
  BY <1>3, Reads DEF Walk
<1>5. local' = [local EXCEPT ![t].dir = d] /\ pc' = pc /\ Iput(t, node, {dir(t)})
  BY <1>3 DEF Walk
<1>6. Note("enter", \E u \in Task \ {t} : pc[u] = "empty_dir" /\ held(u) = d)
  BY <1>3 DEF Walk
<1> QED BY <1>1, <1>3, <1>4, <1>5, <1>6, EnterGood

LEMMA WalkUpGood ==
    ASSUME FewNames, NEW s, NEW r, Moves(s, r), NEW t \in Task, WalkUp(t)
    PROVE  NamesGood(r)
<1>1. /\ s.pc[t] = "walk" /\ SelfOK(s, t) /\ HoldsOK(s, t) /\ s \in Shots /\ NamesGood(s)
      /\ node[dir(t)].parent = s.node[Dir(s, t)].parent /\ Dir(s, t) # Root
  BY Reads DEF Moves, NamesGood, WalkUp, Permitted
<1>2. PICK x \in Node : x = Dir(s, t)
  BY <1>1 DEF SelfOK, WalkOK
<1>3. s.node[x].kind = "dir" /\ Named(s, x) /\ x # Root
  BY <1>1, <1>2, Distinct DEF HoldsOK
<1>4. ShapeOK(s, x)
  BY DEF NamesGood, Moves
<1>5. PICK e \in Ents(s, x) : e[1] = s.node[x].parent
  BY <1>3, <1>4 DEF ShapeOK, Named
<1>6. PICK d \in Node, p \in Pos : d = s.node[x].parent /\ s.node[d].entry[p] # NONE
  BY <1>5 DEF Ents
<1>7. s.node[d].kind = "dir" /\ (d = Root \/ Named(s, d))
  BY <1>1, <1>6, DirInUse
<1>8. d = node[dir(t)].parent
  BY <1>1, <1>2, <1>6
<1>9. local' = [local EXCEPT ![t].dir = d] /\ pc' = pc /\ Iput(t, node, {dir(t)})
  BY <1>8 DEF WalkUp
<1>10. Note("enter", \E u \in Task \ {t} : pc[u] = "empty_dir" /\ held(u) = d)
  BY <1>8 DEF WalkUp
<1> QED BY <1>1, <1>7, <1>9, <1>10, EnterGood

LEMMA EndsGood ==
    ASSUME FewNames, NEW s, NEW r, Moves(s, r), NEW t \in Task,
           \/ Fail(t) \/ Close(t) \/ Refuse(t) \/ NotEmpty(t)
           \/ AddFails(t) /\ local[t].op = "link"
    PROVE  NamesGood(r)
<1>1. s.pc[t] = pc[t] /\ s.local[t] = local[t]
  BY Reads
<1>2. CASE Fail(t)
  BY <1>1, <1>2, EndStep DEF Fail, Unlisted
<1>3. CASE Close(t)
  BY <1>1, <1>3, EndStep DEF Close, Unlisted
<1>4. CASE Refuse(t)
  BY <1>1, <1>4, EndStep DEF Refuse, Unlisted
<1>5. CASE NotEmpty(t)
  BY <1>1, <1>5, EndStep DEF NotEmpty, Unlisted
<1>6. CASE AddFails(t) /\ local[t].op = "link"
  <2>1. Return(t, node) /\ odd' = odd
    BY <1>6 DEF AddFails, Note
  <2>2. Unlisted(s, t)
    BY <1>1, <1>6 DEF AddFails, Unlisted, Op
  <2> QED BY <2>1, <2>2, EndStep
<1> QED BY <1>2, <1>3, <1>4, <1>5, <1>6

(* What has a name is there. *)
LEMMA NamedThere ==
    ASSUME NEW s, NamesGood(s), NEW n \in Node, Named(s, n)
    PROVE  s.node[n].kind # "free" /\ n # Root
BY DEF NamesGood, ShapeOK

LEMMA OpenOldGood ==
    ASSUME FewNames, NEW s, NEW r, Moves(s, r), NEW t \in Task, NEW p \in Pos, OpenOld(t, p)
    PROVE  NamesGood(r)
<1>1. /\ s.pc[t] = "walk" /\ Op(s, t) = "open" /\ SelfOK(s, t) /\ s \in Shots /\ NamesGood(s)
      /\ node[dir(t)].entry[p] = s.node[Dir(s, t)].entry[p]
  BY Reads DEF Moves, NamesGood, OpenOld, Doing, Op
<1>2. Dir(s, t) \in Node /\ Held(s, t) = NONE
  BY <1>1 DEF SelfOK, WalkOK
<1>3. PICK x \in Node : x = node[dir(t)].entry[p].node /\ Named(s, x)
  <2>1. s.node[Dir(s, t)].entry[p] # NONE
    BY Reads DEF OpenOld, Found
  <2> QED BY <1>1, <1>2, <2>1, EntryFacts
<1>4. s.node[x].kind # "free"
  BY <1>1, <1>3, NamedThere
<1>5. r.node = s.node /\ s.node[Dir(s, t)].nlinks > 0
  BY <1>2, IputNone DEF OpenOld
<1>6. PICK f : OpenSets(f, x)
  BY DEF OpenSets
<1>7. f \in Frames /\ f.op = "open" /\ f.dir = NONE /\ f.node = x
  BY <1>6, OpenFrame
<1>8. Puts(t, f)
  BY <1>3, <1>6 DEF OpenOld, Puts, OpenSets
<1>9. /\ r.local \in [Task -> Frames] /\ \A u \in Task \ {t} : r.local[u] = s.local[u]
      /\ Dir(r, t) = NONE /\ Held(r, t) = x /\ Op(r, t) = "open"
  BY <1>7, <1>8, LocalStep
<1>10. r.pc \in [Task -> Places] /\ r.pc[t] = "file" /\ \A u \in Task \ {t} : r.pc[u] = s.pc[u]
  BY GotoStep DEF OpenOld, Places
<1>11. r.odd = s.odd /\ r.odd \subseteq Oddities /\ r.node \in [Node -> Inode]
  BY <1>1, <1>5, Reads, ShotFacts DEF OpenOld
<1>12. r \in Shots
  BY <1>9, <1>10, <1>11, Writes
<1>13. Still(s, r, t)
  BY <1>1, <1>2, <1>5, <1>9, <1>10, <1>11, Distinct DEF Still, Others, OddGrows, Unlisted
<1>14. Takes(s, r, t)
  BY <1>3, <1>9, Distinct DEF Takes
<1>15. SelfOK(r, t)
  BY <1>9, <1>10 DEF SelfOK, Calling, Creating
<1>16. HoldsOK(r, t)
  BY <1>4, <1>5, <1>9 DEF HoldsOK
<1>17. AloneOK(r)
  BY <1>1, <1>9, <1>10, <1>11, <1>13, AloneKept DEF Still
<1> QED BY <1>1, <1>12, <1>13, <1>14, <1>15, <1>16, <1>17, StillOK

LEMMA LinkOldGood ==
    ASSUME FewNames, NEW s, NEW r, Moves(s, r), NEW t \in Task, NEW p \in Pos,
           NEW name \in Name, LinkOld(t, p, name)
    PROVE  NamesGood(r)
<1>1. /\ s.pc[t] = "walk" /\ Op(s, t) = "link" /\ SelfOK(s, t) /\ s \in Shots /\ NamesGood(s)
      /\ node[dir(t)].entry[p] = s.node[Dir(s, t)].entry[p] /\ Held(s, t) = NONE
  BY Reads DEF Moves, NamesGood, LinkOld, Doing, Op
<1>2. Dir(s, t) \in Node
  BY <1>1 DEF SelfOK, WalkOK
<1>3. PICK x \in Node : x = node[dir(t)].entry[p].node /\ Named(s, x)
  <2>1. s.node[Dir(s, t)].entry[p] # NONE
    BY Reads DEF LinkOld, Found
  <2> QED BY <1>1, <1>2, <2>1, EntryFacts
<1>4. s.node[x].kind = "file"
  BY <1>3, Reads DEF LinkOld
<1>5. r.node = s.node /\ s.node[Dir(s, t)].nlinks > 0
  BY <1>2, IputNone DEF LinkOld
<1>6. PICK l \in Frames : l = local[t] /\ l = s.local[t]
  BY <1>1, Reads, ShotFacts
<1>7. PICK f : LinkSets(l, f, x, name)
  BY DEF LinkSets
<1>8. f \in Frames /\ f.op = l.op /\ f.name = name /\ f.dir = Root /\ f.node = x
  BY <1>6, <1>7, LinkFrame
<1>9. Puts(t, f)
  BY <1>3, <1>6, <1>7 DEF LinkOld, Puts, LinkSets
<1>10. /\ r.local \in [Task -> Frames] /\ \A u \in Task \ {t} : r.local[u] = s.local[u]
       /\ Dir(r, t) = Root /\ Held(r, t) = x /\ Op(r, t) = "link" /\ r.local[t].name = name
  <2>1. l.op = "link"
    BY <1>1, <1>6 DEF Op
  <2> QED BY <1>8, <1>9, <2>1, LocalStep
<1>11. r.pc = s.pc /\ r.pc \in [Task -> Places]
  BY <1>1, Reads, ShotFacts DEF LinkOld
<1>12. r.odd = s.odd /\ r.odd \subseteq Oddities /\ r.node \in [Node -> Inode]
  BY <1>1, <1>5, Reads, ShotFacts DEF LinkOld
<1>13. r \in Shots
  BY <1>10, <1>11, <1>12, Writes
<1>14. Still(s, r, t)
  BY <1>1, <1>2, <1>5, <1>10, <1>11, <1>12, Distinct DEF Still, Others, OddGrows, Unlisted
<1>15. Takes(s, r, t)
  BY <1>3, <1>10, Distinct DEF Takes
<1>16. SelfOK(r, t)
  BY <1>1, <1>4, <1>5, <1>10, <1>11, Distinct DEF SelfOK, WalkOK, Calling, Creating
<1>17. ShapeOK(s, Root)
  BY <1>1, Distinct DEF NamesGood
<1>18. HoldsOK(r, t)
  BY <1>4, <1>5, <1>10, <1>17 DEF HoldsOK, ShapeOK
<1>19. AloneOK(r)
  BY <1>1, <1>10, <1>11, <1>12, <1>14, AloneKept DEF Still
<1> QED BY <1>1, <1>13, <1>14, <1>15, <1>16, <1>18, <1>19, StillOK

LEMMA LinkNewGood ==
    ASSUME FewNames, NEW s, NEW r, Moves(s, r), NEW t \in Task, LinkNew(t)
    PROVE  NamesGood(r)
<1>1. /\ s.pc[t] = "walk" /\ Op(s, t) = "link" /\ SelfOK(s, t) /\ HoldsOK(s, t)
      /\ s \in Shots /\ NamesGood(s) /\ Held(s, t) # NONE
  BY Reads DEF Moves, NamesGood, LinkNew, Doing, Op
<1>2. WalkOK(s, t) /\ Held(s, t) \in Node
  BY <1>1, ShotFacts DEF SelfOK
<1>3. /\ r.node = s.node /\ r.local = s.local /\ r.odd = s.odd
      /\ r.node \in [Node -> Inode] /\ r.local \in [Task -> Frames] /\ r.odd \subseteq Oddities
  BY <1>1, Reads, ShotFacts DEF LinkNew
<1>4. /\ r.pc \in [Task -> Places] /\ r.pc[t] = "add_entry"
      /\ \A u \in Task \ {t} : r.pc[u] = s.pc[u]
  BY GotoStep DEF LinkNew, Places
<1>5. r \in Shots
  BY <1>3, <1>4, Writes
<1>6. Dir(r, t) = Dir(s, t) /\ Held(r, t) = Held(s, t) /\ Op(r, t) = "link"
  BY <1>1, <1>3 DEF Dir, Held, Op
<1>7. Still(s, r, t) /\ Takes(s, r, t)
  BY <1>1, <1>3, <1>4, <1>6 DEF Still, Others, OddGrows, Unlisted, Takes
<1>8. SelfOK(r, t)
  BY <1>1, <1>2, <1>3, <1>4, <1>6 DEF SelfOK, WalkOK, AddOK, Calling, Creating
<1>9. HoldsOK(r, t)
  BY <1>1, <1>3, <1>6, StillNamed DEF HoldsOK
<1>10. AloneOK(r)
  BY <1>1, <1>3, <1>4, <1>6, <1>7, AloneKept DEF Still
<1> QED BY <1>1, <1>5, <1>7, <1>8, <1>9, <1>10, StillOK

LEMMA FindOldGood ==
    ASSUME FewNames, NEW s, NEW r, Moves(s, r), NEW t \in Task, NEW p \in Pos, FindOld(t, p)
    PROVE  NamesGood(r)
<1>1. /\ s.pc[t] = "walk" /\ Op(s, t) \in Removing /\ SelfOK(s, t) /\ HoldsOK(s, t)
      /\ s \in Shots /\ NamesGood(s)
      /\ node[dir(t)].entry[p] = s.node[Dir(s, t)].entry[p]
  BY Reads DEF Moves, NamesGood, FindOld, Doing, Op
<1>2. WalkOK(s, t) /\ Held(s, t) = NONE
  BY <1>1, ShotFacts DEF SelfOK, WalkOK, Removing
<1>3. PICK x \in Node : x = node[dir(t)].entry[p].node /\ Named(s, x)
  <2>1. s.node[Dir(s, t)].entry[p] # NONE
    BY Reads DEF FindOld, Found
  <2> QED BY <1>1, <1>2, <2>1, EntryFacts DEF WalkOK
<1>4. s.node[x].kind # "free"
  BY <1>1, <1>3, NamedThere
<1>5. PICK l \in Frames : l = local[t] /\ l = s.local[t]
  BY <1>1, Reads, ShotFacts
<1>6. PICK f : FoundSets(l, f, p, x)
  BY DEF FoundSets
<1>7. f \in Frames /\ f.op = l.op /\ f.name = l.name /\ f.dir = l.dir /\ f.pos = p /\ f.node = x
  BY <1>5, <1>6, FoundFrame
<1>8. Puts(t, f)
  BY <1>3, <1>5, <1>6 DEF FindOld, Puts, FoundSets
<1>9. /\ r.local \in [Task -> Frames] /\ \A u \in Task \ {t} : r.local[u] = s.local[u]
      /\ Dir(r, t) = Dir(s, t) /\ Held(r, t) = x /\ Op(r, t) = Op(s, t)
      /\ r.local[t].name = s.local[t].name /\ r.local[t].pos = p
  <2>1. Dir(s, t) = l.dir /\ Op(s, t) = l.op
    BY <1>5 DEF Dir, Op
  <2> QED BY <1>5, <1>7, <1>8, <2>1, LocalStep
<1>10. /\ r.pc \in [Task -> Places] /\ r.pc[t] = "got"
       /\ \A u \in Task \ {t} : r.pc[u] = s.pc[u]
  BY GotoStep DEF FindOld, Places
<1>11. /\ r.node = s.node /\ r.odd = s.odd /\ r.odd \subseteq Oddities
       /\ r.node \in [Node -> Inode]
  BY <1>1, Reads, ShotFacts DEF FindOld
<1>12. r \in Shots
  BY <1>9, <1>10, <1>11, Writes
<1>13. Still(s, r, t)
  BY <1>1, <1>2, <1>9, <1>10, <1>11, Distinct DEF Still, Others, OddGrows, Unlisted
<1>14. Takes(s, r, t)
  BY <1>3, <1>9, Distinct DEF Takes
<1>15. SelfOK(r, t)
  BY <1>1, <1>2, <1>9, <1>10 DEF SelfOK, WalkOK, Calling
<1>16. HoldsOK(r, t)
  BY <1>1, <1>4, <1>9, <1>11, StillNamed DEF HoldsOK
<1>17. AloneOK(r)
  BY <1>1, <1>9, <1>10, <1>11, <1>13, AloneKept DEF Still
<1> QED BY <1>1, <1>12, <1>13, <1>14, <1>15, <1>16, <1>17, StillOK

(* The one count of an inode held by t is that of t. *)
LEMMA OnlyHolder ==
    ASSUME FewNames, NEW s, NEW r, Moves(s, r), NEW t \in Task, Held(s, t) \in Node,
           Count(held(t)) = 1
    PROVE  Held(s, t) # Root /\ \A u \in Task : Dir(s, u) # Held(s, t)
<1>1. PICK h \in Node : h = Held(s, t)
  OBVIOUS
<1> DEFINE A == {u \in Task : dir(u) = h}
           B == {u \in Task : held(u) = h}
<1>2. IsFiniteSet(A) /\ IsFiniteSet(B)
  BY FS_Subset DEF FewNames
<1>3. t \in B
  BY <1>1, Reads
<1>4. PICK a \in Nat, b \in Nat : a = Cardinality(A) /\ b = Cardinality(B)
  BY <1>2, FS_CardinalityType
<1>5. b # 0
  BY <1>2, <1>3, <1>4, None0
<1>6. a + b + (IF h = Root THEN 1 ELSE 0) = 1
  BY <1>1, <1>4, Reads DEF Count
<1>7. a = 0 /\ h # Root
  BY <1>5, <1>6
<1>8. A = {}
  BY <1>2, <1>4, <1>7, None0
<1> QED BY <1>1, <1>7, <1>8, Reads

LEMMA RmdirGood ==
    ASSUME FewNames, NEW s, NEW r, Moves(s, r), NEW t \in Task, Rmdir(t)
    PROVE  NamesGood(r)
<1>1. /\ s.pc[t] = "got" /\ Op(s, t) = "rmdir" /\ SelfOK(s, t) /\ HoldsOK(s, t)
      /\ s \in Shots /\ NamesGood(s)
  BY Reads DEF Moves, NamesGood, Rmdir, Doing, Op
<1>2. Held(s, t) \in Node /\ s.node[Held(s, t)].kind = "dir" /\ Count(held(t)) = 1
  <2>1. local[t].op # "unlink" /\ Removable(t)
    BY <1>1, Reads DEF Rmdir, Op
  <2> QED BY <1>1, <2>1, Reads DEF SelfOK, Removable
<1>3. Held(s, t) # Root /\ \A u \in Task : Dir(s, u) # Held(s, t)
  BY <1>2, OnlyHolder
<1>4. /\ r.node = s.node /\ r.local = s.local /\ r.odd = s.odd
      /\ r.node \in [Node -> Inode] /\ r.local \in [Task -> Frames] /\ r.odd \subseteq Oddities
  BY <1>1, Reads, ShotFacts DEF Rmdir
<1>5. /\ r.pc \in [Task -> Places] /\ r.pc[t] = "empty_dir"
      /\ \A u \in Task \ {t} : r.pc[u] = s.pc[u]
  BY GotoStep DEF Rmdir, Places
<1>6. r \in Shots
  BY <1>4, <1>5, Writes
<1>7. \A u : Dir(r, u) = Dir(s, u) /\ Held(r, u) = Held(s, u) /\ Op(r, u) = Op(s, u)
  BY <1>4 DEF Dir, Held, Op
<1>8. Still(s, r, t) /\ Takes(s, r, t)
  BY <1>1, <1>4, <1>5, <1>7 DEF Still, Others, OddGrows, Unlisted, Takes
<1>9. SelfOK(r, t)
  BY <1>1, <1>2, <1>3, <1>4, <1>5, <1>7 DEF SelfOK
<1>10. HoldsOK(r, t)
  BY <1>1, <1>4, <1>7, StillNamed DEF HoldsOK
<1>11. AloneOK(r)
  <2>1. SUFFICES ASSUME ~Ended(r), NEW x \in Task, NEW u \in Task, r.pc[x] = "empty_dir"
                 PROVE  Dir(r, u) # Held(r, x)
    BY DEF AloneOK
  <2>2. CASE x = t
    BY <1>3, <1>7, <2>2
  <2>3. CASE x # t
    BY <1>1, <1>4, <1>5, <1>7, <2>1, <2>3 DEF NamesGood, AloneOK, Ended
  <2> QED BY <2>2, <2>3
<1> QED BY <1>1, <1>6, <1>8, <1>9, <1>10, <1>11, StillOK

-----------------------------------------------------------------------------
(* A new inode. *)
LEMMA NobodyHolds ==
    ASSUME NEW s, NamesGood(s), NEW n \in Node, s.node[n].kind = "free"
    PROVE  /\ \A u \in Task : Dir(s, u) # n /\ Held(s, u) # n
           /\ Has(s, n) = {} /\ n # Root /\ ~Named(s, n) /\ s.node[n] = FreeNode
           /\ Sons(s, n) = {}
<1>1. \A u \in Task : Dir(s, u) # n /\ Held(s, u) # n
  BY Distinct DEF NamesGood, HoldsOK
<1>2. n # Root /\ ~Named(s, n) /\ s.node[n] = FreeNode
  BY DEF NamesGood, ShapeOK
<1>3. ASSUME NEW m \in Sons(s, n) PROVE FALSE
  <2>1. m \in Node /\ m # Root /\ s.node[m].kind = "dir" /\ s.node[m].parent = n /\ Named(s, m)
    BY <1>3 DEF Sons
  <2>2. PICK e \in Ents(s, m) : e[1] = n
    BY <2>1 DEF NamesGood, ShapeOK, Named
  <2>3. PICK p \in Pos : s.node[n].entry[p] # NONE
    BY <2>2 DEF Ents
  <2> QED BY <1>2, <2>3 DEF FreeNode, NoEntries
<1> QED BY <1>1, <1>2, <1>3 DEF Has

LEMMA NewNodeGood ==
    ASSUME FewNames, NEW s, NEW r, Moves(s, r), NEW t \in Task, NEW n \in Node,
           NEW op \in {"open", "mknod", "mkdir"}, NEW kind, NEW nlinks,
           kind = (IF op = "mkdir" THEN "dir" ELSE "file"),
           nlinks = (IF op = "mkdir" THEN 2 ELSE 1), NewNode(t, op, n, kind, nlinks)
    PROVE  NamesGood(r)
<1>1. /\ s.pc[t] = "walk" /\ Op(s, t) = op /\ SelfOK(s, t) /\ HoldsOK(s, t)
      /\ s \in Shots /\ NamesGood(s) /\ s.node[n].kind = "free"
  BY Reads DEF Moves, NamesGood, NewNode, Doing, Op
<1>2. WalkOK(s, t) /\ Held(s, t) = NONE /\ Dir(s, t) \in Node
  BY <1>1, ShotFacts DEF SelfOK, WalkOK
<1>3. /\ \A u \in Task : Dir(s, u) # n /\ Held(s, u) # n
      /\ Has(s, n) = {} /\ n # Root /\ ~Named(s, n) /\ s.node[n] = FreeNode
      /\ Sons(s, n) = {}
  BY <1>1, NobodyHolds
<1>4. PICK new \in Inode : /\ new.kind = kind /\ new.nlinks = nlinks
                           /\ new.parent = Dir(s, t) /\ new.entry = NoEntries
                           /\ r.node = [s.node EXCEPT ![n] = new]
  <2>1. NoEntries \in [Pos -> Entry \cup {NONE}]
    BY DEF NoEntries
  <2>2. PICK new : new = [kind |-> kind, nlinks |-> nlinks, parent |-> dir(t),
                          entry |-> NoEntries]
    OBVIOUS
  <2>3. node' = [node EXCEPT ![n] = new]
    BY <2>2 DEF NewNode
  <2>4. dir(t) = Dir(s, t) /\ node' = r.node /\ node = s.node
    BY Reads
  <2>5. new \in Inode
    BY <1>2, <2>1, <2>2, <2>4 DEF Inode
  <2> QED BY <2>2, <2>3, <2>4, <2>5
<1>5. /\ r.node \in [Node -> Inode] /\ r.node[n] = new
      /\ \A m \in Node : m # n => r.node[m] = s.node[m]
  <2>1. s.node \in [Node -> Inode]
    BY <1>1, ShotFacts
  <2> QED BY <1>4, <2>1
<1>6. \A m \in Node : Ents(r, m) = Ents(s, m) /\ (Named(r, m) <=> Named(s, m))
  <2>1. SameEntries(s, r)
    BY <1>3, <1>4, <1>5 DEF SameEntries, FreeNode
  <2> QED BY <2>1, SameEnts
<1>7. PICK l \in Frames : l = local[t] /\ l = s.local[t]
  BY <1>1, Reads, ShotFacts
<1>8. PICK f : NodeSets(l, f, n)
  BY DEF NodeSets
<1>9. f \in Frames /\ f.op = l.op /\ f.name = l.name /\ f.dir = l.dir /\ f.node = n
  BY <1>7, <1>8, NodeFrame
<1>10. Puts(t, f)
  BY <1>7, <1>8 DEF NewNode, Puts, NodeSets
<1>11. /\ r.local \in [Task -> Frames] /\ \A u \in Task \ {t} : r.local[u] = s.local[u]
       /\ Dir(r, t) = Dir(s, t) /\ Held(r, t) = n /\ Op(r, t) = op
       /\ r.local[t].name = s.local[t].name
  <2>1. Dir(s, t) = l.dir /\ op = l.op
    BY <1>1, <1>7 DEF Dir, Op
  <2> QED BY <1>7, <1>9, <1>10, <2>1, LocalStep
<1>12. /\ r.pc \in [Task -> Places] /\ r.pc[t] = "add_entry"
       /\ \A u \in Task \ {t} : r.pc[u] = s.pc[u]
  BY GotoStep DEF NewNode, Places
<1>13. r.odd = s.odd /\ r.odd \subseteq Oddities
  BY <1>1, Reads, ShotFacts DEF NewNode
<1>14. r \in Shots
  BY <1>5, <1>11, <1>12, <1>13, Writes
<1>15. Others(s, r, t) /\ OddGrows(s, r)
  BY <1>11, <1>12, <1>13 DEF Others, OddGrows
<1>16. \A u \in Task : u # t => Dir(r, u) = Dir(s, u) /\ Held(r, u) = Held(s, u)
                               /\ Op(r, u) = Op(s, u) /\ r.pc[u] = s.pc[u]
  BY <1>15 DEF Others, Dir, Held, Op
<1>17. Mild(s, r, t)
  <2>1. ASSUME NEW m \in Node, ~(Has(s, m) \subseteq {t}) PROVE m # n
    BY <1>3, <2>1
  <2>2. \A u \in Task \ {t} :
           Dir(s, u) # NONE /\ Named(s, Dir(s, u)) => Named(r, Dir(s, u))
    BY <1>1, <1>6, ShotFacts
  <2> QED BY <1>5, <1>6, <1>11, <1>14, <1>15, <2>1, <2>2 DEF Mild
<1>18. HoldsOK(r, t)
  BY <1>1, <1>2, <1>3, <1>4, <1>5, <1>6, <1>11 DEF HoldsOK
<1>19. SelfOK(r, t)
  <2>1. Has(r, n) = {t}
    BY <1>3, <1>11, <1>16 DEF Has
  <2>2. Fresh(r, t)
    BY <1>3, <1>4, <1>5, <1>6, <1>11, <2>1 DEF Fresh
  <2> QED BY <1>2, <1>11, <1>12, <2>2 DEF SelfOK, AddOK, WalkOK, Calling, Creating
<1>20. AloneOK(r)
  BY <1>1, <1>11, <1>12, <1>13, <1>15, AloneKept
<1>21. ASSUME NEW m \in Node, m # n PROVE ShapeOK(r, m) /\ LinksOK(r, m) /\ KeptOK(r, m)
  <2>1. Sons(r, m) = Sons(s, m)
    BY <1>3, <1>5, <1>6 DEF Sons
  <2>2. Leaving(r, m) = Leaving(s, m)
    BY <1>1, <1>12, <1>16 DEF Leaving
  <2>3. Aside(s, r, t, m)
    BY <1>2, <1>5, <1>6, <1>11, <1>21, <2>1, <2>2, Distinct DEF Aside
  <2> QED BY <1>1, <1>14, <1>15, <2>3, AsideOK
<1>22. ShapeOK(r, n) /\ LinksOK(r, n) /\ KeptOK(r, n)
  <2>1. Ents(r, n) = {} /\ ~Named(r, n)
    BY <1>3, <1>6 DEF Named
  <2>2. Linking(r, n) = {} /\ Clearing(r, n) = {} /\ Leaving(r, n) = {}
    BY <1>3, <1>12, <1>16 DEF Linking, Clearing, Leaving
  <2>3. Making(r, n) = {t}
    BY <1>3, <1>11, <1>12, <1>16 DEF Making
  <2>4. Sons(r, n) = {}
    BY <1>3, <1>5, <1>6 DEF Sons
  <2>5. Cardinality({}) = 0 /\ Cardinality({t}) = 1
    BY FS_EmptySet, FS_Singleton
  <2>6. ShapeOK(r, n)
    BY <1>3, <1>4, <1>5, <2>1 DEF ShapeOK
  <2>7. KeptOK(r, n)
    BY <1>4, <1>5, <1>11, <1>12 DEF KeptOK
  <2>8. kind = "dir" => DirLinks(r, n)
    BY <1>4, <1>5, <2>2, <2>4, <2>5 DEF DirLinks
  <2>9. kind = "file" => FileLinks(r, n)
    <3>1. (1 + 0) % 256 = 0 + 0 + 1 + 0
      OBVIOUS
    <3>2. 0 \in 0 .. Cardinality(Task)
      BY <1>1, Counts
    <3>3. kind = "file" => Extra(r, n, 0)
      BY <1>4, <1>5, <2>1, <2>2, <2>3, <2>5, <3>1, <3>2 DEF Extra
    <3> QED BY <3>3 DEF FileLinks
  <2> QED BY <1>4, <1>5, <2>6, <2>7, <2>8, <2>9 DEF LinksOK
<1>23. \A u \in Task : SelfOK(r, u) /\ HoldsOK(r, u)
  BY <1>1, <1>17, <1>18, <1>19, MildOK
<1> QED BY <1>14, <1>20, <1>21, <1>22, <1>23 DEF NamesGood

-----------------------------------------------------------------------------
(* A call that ends by changing links: first the links, with its directory *)
(* given up, then iput.                                                    *)
Middle(s, m, t, nodes, o) ==
    /\ m \in Shots /\ m.node = nodes /\ m.odd = o /\ Others(s, m, t)
    /\ m.pc[t] = "file" /\ Dir(m, t) = NONE /\ Held(m, t) = Held(s, t) /\ Op(m, t) = Op(s, t)
    /\ m.local[t].name = s.local[t].name

LEMMA MiddleExists ==
    ASSUME NEW s \in Shots, NEW t \in Task, NEW nodes \in [Node -> Inode],
           NEW o, o \subseteq Oddities
    PROVE  \E m : Middle(s, m, t, nodes, o)
<1>1. s.pc \in [Task -> Places] /\ s.local \in [Task -> Frames] /\ s.local[t] \in Frames
  BY ShotFacts
<1>2. PICK l \in Frames : l = s.local[t]
  BY <1>1
<1>3. PICK f : DirSets(l, f, NONE)
  BY DEF DirSets
<1>4. /\ f \in Frames /\ f.dir = NONE /\ f.node = l.node /\ f.op = l.op /\ f.name = l.name
  BY <1>2, <1>3, DirFrame
<1>5. PICK p \in [Task -> Places] : p[t] = "file" /\ \A u \in Task \ {t} : p[u] = s.pc[u]
  <2>1. [s.pc EXCEPT ![t] = "file"] \in [Task -> Places]
    BY <1>1 DEF Places
  <2> QED BY <1>1, <2>1
<1>6. PICK c \in [Task -> Frames] : c[t] = f /\ \A u \in Task \ {t} : c[u] = s.local[u]
  <2>1. [s.local EXCEPT ![t] = f] \in [Task -> Frames]
    BY <1>1, <1>4
  <2> QED BY <1>1, <2>1
<1>7. PICK m \in Shots : m.node = nodes /\ m.pc = p /\ m.local = c /\ m.odd = o
  <2>1. [node |-> nodes, pc |-> p, local |-> c, odd |-> o] \in Shots
    BY <1>5, <1>6 DEF Shots
  <2> QED BY <2>1
<1>8. Middle(s, m, t, nodes, o)
  BY <1>2, <1>4, <1>5, <1>6, <1>7 DEF Middle, Others, Dir, Held, Op
<1> QED BY <1>8

LEMMA MiddleGood ==
    ASSUME FewNames, NEW s, NamesGood(s), NEW t \in Task, NEW m, NEW nodes, NEW o,
           Middle(s, m, t, nodes, o), OddGrows(s, m), Held(s, t) \in Node,
           s.pc[t] # "user", Mild(s, m, t), m.node[Held(s, t)].kind # "free",
           \A n \in Node : ShapeOK(m, n) /\ LinksOK(m, n) /\ KeptOK(m, n)
    PROVE  NamesGood(m)
<1>1. SelfOK(s, t) /\ m \in Shots
  BY DEF NamesGood, Middle
<1>2. SelfOK(m, t)
  BY <1>1 DEF SelfOK, Middle
<1>3. HoldsOK(m, t)
  BY DEF HoldsOK, Middle
<1>4. AloneOK(m)
  BY AloneKept DEF Middle, OddGrows
<1> QED BY <1>1, <1>2, <1>3, <1>4, MildOK DEF NamesGood

(* The lists of calls about inodes, when those that t is on change. *)
LEMMA ListsOf ==
    ASSUME NEW s, NEW r, NEW t \in Task, Others(s, r, t), NEW n
    PROVE  /\ Linking(r, n) \ {t} = Linking(s, n) \ {t}
           /\ Clearing(r, n) \ {t} = Clearing(s, n) \ {t}
           /\ Making(r, n) \ {t} = Making(s, n) \ {t}
           /\ Leaving(r, n) \ {t} = Leaving(s, n) \ {t}
           /\ Has(r, n) \ {t} = Has(s, n) \ {t}
<1>1. \A u \in Task : u # t => r.pc[u] = s.pc[u] /\ r.local[u] = s.local[u]
  BY DEF Others
<1>2. Linking(r, n) \ {t} = Linking(s, n) \ {t}
  BY <1>1 DEF Linking, Held
<1>3. Clearing(r, n) \ {t} = Clearing(s, n) \ {t}
  BY <1>1 DEF Clearing, Held
<1>4. Making(r, n) \ {t} = Making(s, n) \ {t}
  BY <1>1 DEF Making, Held, Op
<1>5. Leaving(r, n) \ {t} = Leaving(s, n) \ {t}
  BY <1>1 DEF Leaving, Dir, Op
<1>6. Has(r, n) \ {t} = Has(s, n) \ {t}
  BY <1>1 DEF Has, Dir, Held
<1> QED BY <1>2, <1>3, <1>4, <1>5, <1>6

LEMMA OneMore ==
    ASSUME NEW A, NEW B, NEW x, A \ {x} = B \ {x}, x \in A, x \notin B, IsFiniteSet(B)
    PROVE  Cardinality(A) = Cardinality(B) + 1 /\ Cardinality(B) \in Nat
<1>1. \A y : y \in A <=> y \in B \/ y = x
  <2>1. ASSUME NEW y, y # x PROVE y \in A <=> y \in B
    <3>1. y \in A <=> y \in A \ {x}
      BY <2>1
    <3>2. y \in B <=> y \in B \ {x}
      BY <2>1
    <3> QED BY <3>1, <3>2
  <2> QED BY <2>1
<1>2. A = B \cup {x}
  BY <1>1
<1> QED BY <1>2, One

LEMMA NoMore ==
    ASSUME NEW A, NEW B, NEW x, A \ {x} = B \ {x}, x \notin A, x \notin B
    PROVE  A = B
<1>1. A \ {x} = A /\ B \ {x} = B
  OBVIOUS
<1> QED BY <1>1

(* The directory of a call is used, and is not the file it holds. *)
LEMMA DirThere ==
    ASSUME FewNames, NEW s, NamesGood(s), NEW t \in Task, Dir(s, t) \in Node
    PROVE  /\ s.node[Dir(s, t)].kind = "dir" /\ (Dir(s, t) = Root \/ Named(s, Dir(s, t)))
           /\ s.node[Dir(s, t)].nlinks > 0
<1>1. PICK d \in Node : d = Dir(s, t)
  OBVIOUS
<1>2. s.node[d].kind = "dir" /\ (d = Root \/ Named(s, d))
  BY <1>1, Distinct DEF NamesGood, HoldsOK
<1> QED BY <1>1, <1>2, DirUsed

(* A step that only sets the links of the inode held. *)
SetsLinks(s, r, h) ==
    /\ \A n \in Node \ {h} : r.node[n] = s.node[n]
    /\ r.node[h].kind = s.node[h].kind /\ r.node[h].parent = s.node[h].parent
    /\ r.node[h].entry = s.node[h].entry

LEMMA SetsLinksOthers ==
    ASSUME FewNames, NEW s, NamesGood(s), NEW t \in Task, NEW r \in Shots, Others(s, r, t),
           OddGrows(s, r), NEW h \in Node, h = Held(s, t), h = Held(r, t), Dir(s, t) \in Node,
           Dir(r, t) \in {Dir(s, t), NONE}, SetsLinks(s, r, h),
           Op(s, t) # "rmdir" \/ s.pc[t] # "cleared",
           Op(r, t) # "rmdir" \/ r.pc[t] # "cleared"
    PROVE  /\ SameEntries(s, r) /\ Mild(s, r, t)
           /\ \A n \in Node \ {h} : ShapeOK(r, n) /\ LinksOK(r, n) /\ KeptOK(r, n)
           /\ \A n \in Node : Sons(r, n) = Sons(s, n) /\ Leaving(r, n) = Leaving(s, n)
<1>1. SameEntries(s, r)
  BY DEF SameEntries, SetsLinks
<1>2. \A n \in Node : Ents(r, n) = Ents(s, n) /\ (Named(r, n) <=> Named(s, n))
  BY <1>1, SameEnts
<1>3. s \in Shots
  BY DEF NamesGood
<1>4. Mild(s, r, t)
  <2>1. \A u \in Task \ {t} :
           Dir(s, u) # NONE /\ Named(s, Dir(s, u)) => Named(r, Dir(s, u))
    BY <1>2, <1>3, ShotFacts
  <2>2. ASSUME NEW n \in Node
        PROVE  /\ r.node[n].kind = s.node[n].kind /\ r.node[n].parent = s.node[n].parent
               /\ n # h => r.node[n].nlinks = s.node[n].nlinks
    BY DEF SetsLinks
  <2>3. \A n \in Node : n \notin {Dir(s, t), h} => n \notin {Dir(r, t), Held(r, t)}
    BY Distinct
  <2> QED BY <1>2, <2>1, <2>2, <2>3 DEF Mild
<1>5. \A n \in Node : Sons(r, n) = Sons(s, n)
  BY <1>2 DEF Sons, SetsLinks
<1>6. \A n \in Node : Leaving(r, n) = Leaving(s, n)
  <2>1. ASSUME NEW n \in Node PROVE Leaving(r, n) = Leaving(s, n)
    <3>1. t \notin Leaving(r, n) /\ t \notin Leaving(s, n)
      BY DEF Leaving
    <3>2. Leaving(r, n) \ {t} = Leaving(s, n) \ {t}
      BY ListsOf
    <3> QED BY <3>1, <3>2
  <2> QED BY <2>1
<1>7. ASSUME NEW n \in Node \ {h} PROVE ShapeOK(r, n) /\ LinksOK(r, n) /\ KeptOK(r, n)
  <2>1. n = Dir(s, t) => s.node[n].nlinks > 0
    BY DirThere
  <2>2. Aside(s, r, t, n)
    BY <1>2, <1>5, <1>6, <1>7, <2>1 DEF Aside, SetsLinks
  <2> QED BY <2>2, AsideOK
<1> QED BY <1>1, <1>4, <1>5, <1>6, <1>7

(* link counts the entry it made. *)
LEMMA CountedLinks ==
    ASSUME FewNames, NEW s, NamesGood(s), NEW t \in Task, s.pc[t] = "linked", NEW h \in Node,
           h = Held(s, t), NEW m \in Shots, Others(s, m, t), m.odd = s.odd,
           m.pc[t] = "file", Held(m, t) = h, SetsLinks(s, m, h), SameEntries(s, m),
           m.node[h].nlinks = (s.node[h].nlinks + 1) % 256, s.node[h].kind = "file"
    PROVE  ShapeOK(m, h) /\ LinksOK(m, h) /\ KeptOK(m, h)
<1>1. ShapeOK(s, h) /\ FileLinks(s, h) /\ s \in Shots
  BY DEF NamesGood, LinksOK
<1>2. PICK k : Extra(s, h, k)
  BY <1>1 DEF FileLinks
<1>3. Ents(m, h) = Ents(s, h)
  BY SameEnts
<1>4. /\ Linking(m, h) \ {t} = Linking(s, h) \ {t} /\ Clearing(m, h) \ {t} = Clearing(s, h) \ {t}
      /\ Making(m, h) \ {t} = Making(s, h) \ {t}
  BY ListsOf
<1>5. /\ t \in Linking(s, h) /\ t \notin Clearing(s, h) /\ t \notin Making(s, h)
      /\ t \notin Linking(m, h) /\ t \notin Clearing(m, h) /\ t \notin Making(m, h)
  BY DEF Linking, Clearing, Making
<1>6. Clearing(m, h) = Clearing(s, h) /\ Making(m, h) = Making(s, h)
  BY <1>4, <1>5, NoMore
<1>7. IsFiniteSet(Linking(m, h))
  BY Counts
<1>8. PICK l \in Nat : l = Cardinality(Linking(s, h)) /\ l > 0 /\ Cardinality(Linking(m, h)) = l - 1
  <2>1. /\ Cardinality(Linking(s, h)) = Cardinality(Linking(m, h)) + 1
        /\ Cardinality(Linking(m, h)) \in Nat
    BY <1>4, <1>5, <1>7, OneMore
  <2> QED BY <2>1
<1>9. PICK x \in Nat : x = s.node[h].nlinks
  BY <1>1, ShotFacts
<1>10. (((x + 1) % 256) + (l - 1)) % 256 = (x + l) % 256
  BY <1>8, ModCounted
<1>11. (m.node[h].nlinks + Cardinality(Linking(m, h))) % 256
          = (s.node[h].nlinks + Cardinality(Linking(s, h))) % 256
  BY <1>8, <1>9, <1>10
<1>12. Extra(m, h, k)
  BY <1>2, <1>3, <1>6, <1>11 DEF Extra
<1>13. m.node[h].nlinks < 256
  BY <1>9
<1>14. m.node[h].kind = "file" /\ m.node[h].entry = NoEntries /\ h # Root
  BY <1>1 DEF SetsLinks, ShapeOK
<1> QED BY <1>12, <1>13, <1>14, FileOK DEF FileLinks

(* The end of a call that sets the links of the inode it holds. *)
HeldOK(s, t, nodes, o) ==
    \A m : Middle(s, m, t, nodes, o) /\ SetsLinks(s, m, Held(s, t)) /\ SameEntries(s, m) =>
        ShapeOK(m, Held(s, t)) /\ LinksOK(m, Held(s, t)) /\ KeptOK(m, Held(s, t))

LEMMA LinksReturn ==
    ASSUME FewNames, NEW s, NEW r, Moves(s, r), NEW t \in Task, s.pc[t] # "user",
           Dir(s, t) \in Node, NEW h \in Node, h = Held(s, t), s.node[h].kind # "free",
           Op(s, t) # "rmdir" \/ s.pc[t] # "cleared", OddGrows(s, r), r.odd \subseteq Oddities,
           NEW nlinks \in Nat, NEW nodes, nodes = [s.node EXCEPT ![h].nlinks = nlinks],
           nodes[h].nlinks = nlinks => HeldOK(s, t, nodes, r.odd), Return(t, nodes)
    PROVE  NamesGood(r)
<1>1. s \in Shots /\ NamesGood(s)
  BY Reads DEF Moves
<1>2. /\ nodes \in [Node -> Inode] /\ \A n \in Node \ {h} : nodes[n] = s.node[n]
      /\ nodes[h].kind = s.node[h].kind /\ nodes[h].parent = s.node[h].parent
      /\ nodes[h].entry = s.node[h].entry /\ nodes[h].nlinks = nlinks
  <2>1. s.node \in [Node -> Inode]
    BY <1>1, ShotFacts
  <2> QED BY <2>1 DEF Inode
<1>3. PICK m : Middle(s, m, t, nodes, r.odd)
  BY <1>1, <1>2, MiddleExists
<1>4. /\ m \in Shots /\ m.node = nodes /\ m.odd = r.odd /\ Others(s, m, t) /\ m.pc[t] = "file"
      /\ Dir(m, t) = NONE /\ Held(m, t) = h
  BY <1>3 DEF Middle
<1>5. SetsLinks(s, m, h) /\ OddGrows(s, m)
  BY <1>2, <1>4 DEF SetsLinks, OddGrows
<1>6. /\ SameEntries(s, m) /\ Mild(s, m, t)
      /\ \A n \in Node \ {h} : ShapeOK(m, n) /\ LinksOK(m, n) /\ KeptOK(m, n)
  <2>1. h = Held(m, t) /\ Dir(m, t) \in {Dir(s, t), NONE} /\ m.pc[t] # "cleared"
    BY <1>4
  <2> QED BY <1>1, <1>4, <1>5, <2>1, SetsLinksOthers
<1>7. ShapeOK(m, h) /\ LinksOK(m, h) /\ KeptOK(m, h)
  BY <1>2, <1>3, <1>5, <1>6 DEF HeldOK
<1>8. NamesGood(m)
  <2>1. m.node[Held(s, t)].kind # "free" /\ Held(s, t) \in Node
    BY <1>2, <1>4
  <2> QED BY <1>1, <1>3, <1>5, <1>6, <1>7, <2>1, MiddleGood
<1>9. {Dir(m, t), Held(m, t)} \subseteq {dir(t), held(t), NONE} /\ Unlisted(m, t)
  BY <1>4, Reads DEF Unlisted
<1>10. Return(t, m.node)
  BY <1>4
<1> QED BY <1>4, <1>8, <1>9, <1>10, ReturnStep

LEMMA LinkedGood ==
    ASSUME FewNames, NEW s, NEW r, Moves(s, r), NEW t \in Task, Linked(t)
    PROVE  NamesGood(r)
<1>1. /\ s.pc[t] = "linked" /\ SelfOK(s, t) /\ s \in Shots /\ NamesGood(s)
      /\ r.odd = s.odd /\ s.odd \subseteq Oddities
  BY Reads, ShotFacts DEF Moves, NamesGood, Linked
<1>2. /\ Op(s, t) = "link" /\ Held(s, t) \in Node /\ Dir(s, t) \in Node
      /\ s.node[Held(s, t)].kind = "file"
  BY <1>1 DEF SelfOK
<1>3. PICK h \in Node : h = Held(s, t)
  BY <1>2
<1>4. PICK nlinks \in Nat : nlinks = (s.node[h].nlinks + 1) % 256
  BY <1>1, ShotFacts
<1>5. PICK nodes : nodes = [s.node EXCEPT ![h].nlinks = nlinks]
  OBVIOUS
<1>6. Return(t, nodes)
  BY <1>3, <1>4, <1>5, Reads DEF Linked
<1>7. nodes[h].nlinks = nlinks => HeldOK(s, t, nodes, r.odd)
  <2>1. SUFFICES ASSUME nodes[h].nlinks = nlinks, NEW m, Middle(s, m, t, nodes, r.odd),
                        SetsLinks(s, m, h), SameEntries(s, m)
                 PROVE  ShapeOK(m, h) /\ LinksOK(m, h) /\ KeptOK(m, h)
    BY <1>3 DEF HeldOK
  <2>2. /\ m \in Shots /\ m.node = nodes /\ m.odd = s.odd /\ Others(s, m, t)
        /\ m.pc[t] = "file" /\ Held(m, t) = h
    BY <1>1, <1>3, <2>1 DEF Middle
  <2> QED BY <1>1, <1>2, <1>3, <1>4, <2>1, <2>2, CountedLinks
<1>8. OddGrows(s, r) /\ r.odd \subseteq Oddities
  BY <1>1 DEF OddGrows
<1>9. /\ s.node[h].kind # "free" /\ s.pc[t] # "user" /\ Op(s, t) # "rmdir"
      /\ Dir(s, t) \in Node /\ nlinks \in Nat
  BY <1>1, <1>2, <1>3, <1>4
<1> QED BY <1>3, <1>5, <1>6, <1>7, <1>8, <1>9, LinksReturn

(* unlink counts the entry off that it cleared. *)
LEMMA RemovedLinks ==
    ASSUME FewNames, NEW s, NamesGood(s), NEW t \in Task, s.pc[t] = "cleared", NEW h \in Node,
           h = Held(s, t), NEW m \in Shots, Others(s, m, t), m.odd = s.odd,
           m.pc[t] = "file", Held(m, t) = h, SetsLinks(s, m, h), SameEntries(s, m),
           m.node[h].nlinks = (s.node[h].nlinks + 255) % 256, s.node[h].kind = "file"
    PROVE  ShapeOK(m, h) /\ LinksOK(m, h) /\ KeptOK(m, h)
<1>1. ShapeOK(s, h) /\ FileLinks(s, h) /\ s \in Shots
  BY DEF NamesGood, LinksOK
<1>2. PICK k : Extra(s, h, k)
  BY <1>1 DEF FileLinks
<1>3. Ents(m, h) = Ents(s, h)
  BY SameEnts
<1>4. /\ Linking(m, h) \ {t} = Linking(s, h) \ {t} /\ Clearing(m, h) \ {t} = Clearing(s, h) \ {t}
      /\ Making(m, h) \ {t} = Making(s, h) \ {t}
  BY ListsOf
<1>5. /\ t \notin Linking(s, h) /\ t \in Clearing(s, h) /\ t \notin Making(s, h)
      /\ t \notin Linking(m, h) /\ t \notin Clearing(m, h) /\ t \notin Making(m, h)
  BY DEF Linking, Clearing, Making
<1>6. Linking(m, h) = Linking(s, h) /\ Making(m, h) = Making(s, h)
  BY <1>4, <1>5, NoMore
<1>7. IsFiniteSet(Clearing(m, h))
  BY Counts
<1>8. /\ Cardinality(Clearing(s, h)) = Cardinality(Clearing(m, h)) + 1
      /\ Cardinality(Clearing(m, h)) \in Nat
  BY <1>4, <1>5, <1>7, OneMore
<1>9. PICK e \in Nat, c \in Nat, w \in Nat, l \in Nat, x \in Nat :
         /\ e = Cardinality(Ents(s, h)) /\ c = Cardinality(Clearing(m, h))
         /\ w = Cardinality(Making(s, h)) /\ l = Cardinality(Linking(s, h))
         /\ x = s.node[h].nlinks
  <2>1. Cardinality(Ents(s, h)) \in Nat /\ Cardinality(Making(s, h)) \in Nat
        /\ Cardinality(Linking(s, h)) \in Nat /\ s.node[h].nlinks \in Nat
    BY <1>1, Counts, ShotFacts
  <2> QED BY <1>8, <2>1
<1>10. k \in Nat /\ (x + l) % 256 = e + (c + 1) + w + k
  BY <1>1, <1>2, <1>8, <1>9, Counts DEF Extra
<1>11. PICK y \in Nat : y = e + (c + 1) + w + k
  BY <1>10
<1>12. (((x + 255) % 256) + l) % 256 = y - 1
  BY <1>10, <1>11, ModDown
<1>13. (((x + 255) % 256) + l) % 256 = e + c + w + k
  BY <1>10, <1>11, <1>12
<1>14. Extra(m, h, k)
  BY <1>2, <1>3, <1>6, <1>9, <1>13 DEF Extra
<1>15. m.node[h].nlinks < 256
  BY <1>9
<1>16. m.node[h].kind = "file" /\ m.node[h].entry = NoEntries /\ h # Root
  BY <1>1 DEF SetsLinks, ShapeOK
<1> QED BY <1>14, <1>15, <1>16, FileOK DEF FileLinks

LEMMA FileRemovedGood ==
    ASSUME FewNames, NEW s, NEW r, Moves(s, r), NEW t \in Task, Removed(t),
           local[t].op # "rmdir"
    PROVE  NamesGood(r)
<1>1. /\ s.pc[t] = "cleared" /\ SelfOK(s, t) /\ s \in Shots /\ NamesGood(s)
      /\ r.odd = s.odd /\ s.odd \subseteq Oddities /\ Op(s, t) # "rmdir"
  BY Reads, ShotFacts DEF Moves, NamesGood, Removed, Op
<1>2. /\ Op(s, t) = "unlink" /\ Held(s, t) \in Node /\ Dir(s, t) \in Node
      /\ s.node[Held(s, t)].kind = "file"
  BY <1>1 DEF SelfOK, ClearedOK, Removing
<1>3. PICK h \in Node : h = Held(s, t)
  BY <1>2
<1>4. PICK nlinks \in Nat : nlinks = (s.node[h].nlinks + 255) % 256
  BY <1>1, ShotFacts
<1>5. PICK nodes : nodes = [s.node EXCEPT ![h].nlinks = nlinks]
  OBVIOUS
<1>6. Return(t, nodes)
  BY <1>3, <1>4, <1>5, Reads DEF Removed, FileRemoved
<1>7. nodes[h].nlinks = nlinks => HeldOK(s, t, nodes, r.odd)
  <2>1. SUFFICES ASSUME nodes[h].nlinks = nlinks, NEW m, Middle(s, m, t, nodes, r.odd),
                        SetsLinks(s, m, h), SameEntries(s, m)
                 PROVE  ShapeOK(m, h) /\ LinksOK(m, h) /\ KeptOK(m, h)
    BY <1>3 DEF HeldOK
  <2>2. /\ m \in Shots /\ m.node = nodes /\ m.odd = s.odd /\ Others(s, m, t)
        /\ m.pc[t] = "file" /\ Held(m, t) = h
    BY <1>1, <1>3, <2>1 DEF Middle
  <2> QED BY <1>1, <1>2, <1>3, <1>4, <2>1, <2>2, RemovedLinks
<1>8. OddGrows(s, r) /\ r.odd \subseteq Oddities
  BY <1>1 DEF OddGrows
<1>9. /\ s.node[h].kind # "free" /\ s.pc[t] # "user" /\ Op(s, t) # "rmdir"
      /\ Dir(s, t) \in Node /\ nlinks \in Nat
  BY <1>1, <1>2, <1>3, <1>4
<1> QED BY <1>3, <1>5, <1>6, <1>7, <1>8, <1>9, LinksReturn

(* A new inode that is given up. *)
LEMMA AloneLists ==
    ASSUME NEW s, NEW r, NEW t \in Task, Others(s, r, t), NEW h \in Node, Has(s, h) \subseteq {t},
           r.pc[t] = "file"
    PROVE  Linking(r, h) = {} /\ Clearing(r, h) = {} /\ Making(r, h) = {} /\ Leaving(r, h) = {}
<1>1. ASSUME NEW u \in Task, u # t PROVE Dir(r, u) # h /\ Held(r, u) # h
  BY <1>1 DEF Has, Others, Dir, Held
<1> QED BY <1>1 DEF Linking, Clearing, Making, Leaving

LEMMA GivenUp ==
    ASSUME FewNames, NEW s, NamesGood(s), NEW t \in Task, NEW h \in Node, h = Held(s, t), Fresh(s, t),
           NEW m \in Shots, Others(s, m, t), m.pc[t] = "file", Held(m, t) = h,
           SetsLinks(s, m, h), SameEntries(s, m), m.node[h].nlinks = 0
    PROVE  ShapeOK(m, h) /\ LinksOK(m, h) /\ KeptOK(m, h)
<1>1. ShapeOK(s, h) /\ s \in Shots
  BY DEF NamesGood
<1>2. ~Named(m, h) /\ Ents(m, h) = {} /\ h # Root
  BY SameEnts DEF Fresh, Named
<1>3. Linking(m, h) = {} /\ Clearing(m, h) = {} /\ Making(m, h) = {}
  BY AloneLists DEF Fresh
<1>4. (0 + 0) % 256 = 0 + 0 + 0 + 0 /\ Cardinality({}) = 0 /\ 0 \in 0 .. Cardinality(Task)
  BY <1>1, FS_EmptySet, Counts
<1>5. FileLinks(m, h)
  BY <1>2, <1>3, <1>4 DEF FileLinks, Extra
<1>6. DirLinks(m, h)
  BY <1>2 DEF DirLinks
<1>7. ShapeOK(m, h)
  BY <1>1, <1>2 DEF ShapeOK, SetsLinks, Fresh
<1>8. KeptOK(m, h)
  BY DEF KeptOK, Has
<1> QED BY <1>5, <1>6, <1>7, <1>8 DEF LinksOK

LEMMA AddFailsGood ==
    ASSUME FewNames, NEW s, NEW r, Moves(s, r), NEW t \in Task, AddFails(t),
           local[t].op # "link"
    PROVE  NamesGood(r)
<1>1. /\ s.pc[t] = "add_entry" /\ SelfOK(s, t) /\ s \in Shots /\ NamesGood(s)
      /\ s.odd \subseteq Oddities /\ Op(s, t) # "link"
  BY Reads, ShotFacts DEF Moves, NamesGood, AddFails, Op
<1>2. Held(s, t) \in Node /\ Dir(s, t) \in Node /\ Fresh(s, t) /\ Op(s, t) \in Creating
  BY <1>1 DEF SelfOK, AddOK
<1>3. PICK h \in Node : h = Held(s, t)
  BY <1>2
<1>4. PICK nodes : nodes = [s.node EXCEPT ![h].nlinks = 0]
  OBVIOUS
<1>5. Return(t, nodes)
  BY <1>3, <1>4, Reads DEF AddFails, Unlinked
<1>6. nodes[h].nlinks = 0 => HeldOK(s, t, nodes, r.odd)
  <2>1. SUFFICES ASSUME nodes[h].nlinks = 0, NEW m, Middle(s, m, t, nodes, r.odd),
                        SetsLinks(s, m, h), SameEntries(s, m)
                 PROVE  ShapeOK(m, h) /\ LinksOK(m, h) /\ KeptOK(m, h)
    BY <1>3 DEF HeldOK
  <2>2. m \in Shots /\ m.node = nodes /\ Others(s, m, t) /\ m.pc[t] = "file" /\ Held(m, t) = h
    BY <1>3, <2>1 DEF Middle
  <2> QED BY <1>1, <1>2, <1>3, <2>1, <2>2, GivenUp
<1>7. OddGrows(s, r) /\ r.odd \subseteq Oddities
  <2>1. odd' = odd \cup {"freed_twice"} \/ odd' = odd
    BY DEF AddFails, Note
  <2>2. "freed_twice" \in Oddities
    BY DEF Oddities
  <2> QED BY <1>1, <2>1, <2>2, Reads DEF OddGrows
<1>8. s.node[h].kind # "free" /\ s.pc[t] # "user" /\ Op(s, t) # "rmdir"
  BY <1>1, <1>2, <1>3 DEF Fresh, Creating
<1> QED BY <1>2, <1>3, <1>4, <1>5, <1>6, <1>7, <1>8, LinksReturn

(* rmdir takes the link of the directory's own entries, and its father's.  *)
LEMMA DirRemovedGood ==
    ASSUME FewNames, NEW s, NEW r, Moves(s, r), NEW t \in Task, Removed(t),
           local[t].op = "rmdir"
    PROVE  NamesGood(r)
<1>1. /\ s.pc[t] = "cleared" /\ SelfOK(s, t) /\ s \in Shots /\ NamesGood(s)
      /\ r.odd = s.odd /\ s.odd \subseteq Oddities /\ Op(s, t) = "rmdir"
  BY Reads, ShotFacts DEF Moves, NamesGood, Removed, Op
<1>2. PICK h \in Node, d \in Node : h = Held(s, t) /\ d = Dir(s, t)
  BY <1>1 DEF SelfOK
<1>3. /\ s.node[h].kind = "dir" /\ h # Root /\ ~Named(s, h) /\ s.node[h].parent = d
  BY <1>1, <1>2 DEF SelfOK, ClearedOK
<1>4. s.node[d].kind = "dir" /\ (d = Root \/ Named(s, d)) /\ d # h
  BY <1>1, <1>2, <1>3, DirThere
<1>5. ShapeOK(s, h) /\ ShapeOK(s, d) /\ DirLinks(s, d)
  BY <1>1, <1>4 DEF NamesGood, LinksOK
<1>6. PICK x \in Nat : s.node[d].nlinks = x + 1 /\ x > 0
  <2>1. s.node[d].nlinks >= 2 + Cardinality(Leaving(s, d)) + Cardinality(Sons(s, d))
        /\ s.node[d].nlinks \in Nat /\ Cardinality(Leaving(s, d)) \in Nat
        /\ Cardinality(Sons(s, d)) \in Nat
    BY <1>1, <1>4, DirUsed
  <2>2. s.node[d].nlinks - 1 \in Nat /\ s.node[d].nlinks - 1 > 0
    BY <2>1
  <2> QED BY <2>1, <2>2
<1>7. PICK nodes : nodes = [s.node EXCEPT ![h].nlinks = 0, ![d].nlinks = @ - 1]
  OBVIOUS
<1>8. Return(t, nodes)
  <2>1. IF local[t].op = "rmdir" THEN Return(t, DirRemoved(t)) ELSE TRUE
    BY DEF Removed
  <2>2. DirRemoved(t) = nodes
    BY <1>2, <1>7, Reads DEF DirRemoved
  <2> QED BY <2>1, <2>2
<1>9. /\ nodes \in [Node -> Inode] /\ \A n \in Node \ {h, d} : nodes[n] = s.node[n]
      /\ \A n \in Node : /\ nodes[n].kind = s.node[n].kind /\ nodes[n].parent = s.node[n].parent
                         /\ nodes[n].entry = s.node[n].entry
      /\ nodes[h].nlinks = 0 /\ nodes[d].nlinks = x
  <2>1. PICK one \in [Node -> Inode] : /\ one = [s.node EXCEPT ![h].nlinks = 0]
                                       /\ one[h] = [s.node[h] EXCEPT !.nlinks = 0]
                                       /\ \A n \in Node \ {h} : one[n] = s.node[n]
    <3>1. s.node \in [Node -> Inode]
      BY <1>1, ShotFacts
    <3>2. [s.node EXCEPT ![h].nlinks = 0] \in [Node -> Inode]
      BY <3>1 DEF Inode
    <3> QED BY <3>1, <3>2
  <2>2. nodes = [one EXCEPT ![d].nlinks = x]
    BY <1>4, <1>6, <1>7, <2>1
  <2>3. /\ nodes \in [Node -> Inode] /\ nodes[d] = [s.node[d] EXCEPT !.nlinks = x]
        /\ \A n \in Node \ {h, d} : nodes[n] = s.node[n]
        /\ nodes[h] = [s.node[h] EXCEPT !.nlinks = 0]
    <3>1. one[d] = s.node[d] /\ one[d] \in Inode
      BY <1>4, <2>1
    <3>2. [one[d] EXCEPT !.nlinks = x] \in Inode
      BY <3>1 DEF Inode
    <3>3. nodes = [one EXCEPT ![d] = [one[d] EXCEPT !.nlinks = x]]
      BY <2>2
    <3> QED BY <1>4, <2>1, <3>1, <3>2, <3>3
  <2>4. s.node[d] \in Inode /\ s.node[h] \in Inode
    BY <1>1, ShotFacts
  <2> QED BY <2>3, <2>4 DEF Inode
<1>10. PICK m : Middle(s, m, t, nodes, s.odd)
  BY <1>1, <1>9, MiddleExists
<1>11. /\ m \in Shots /\ m.node = nodes /\ m.odd = s.odd /\ Others(s, m, t) /\ m.pc[t] = "file"
       /\ Dir(m, t) = NONE /\ Held(m, t) = h /\ OddGrows(s, m)
  BY <1>2, <1>10 DEF Middle, OddGrows
<1>12. \A n \in Node : Ents(m, n) = Ents(s, n) /\ (Named(m, n) <=> Named(s, n))
  <2>1. SameEntries(s, m)
    BY <1>9, <1>11 DEF SameEntries
  <2> QED BY <2>1, SameEnts
<1>13. Mild(s, m, t)
  <2>1. \A u \in Task \ {t} :
           Dir(s, u) # NONE /\ Named(s, Dir(s, u)) => Named(m, Dir(s, u))
    BY <1>1, <1>12, ShotFacts
  <2>2. \A n \in Node : n \notin {Dir(s, t), Held(s, t)} =>
           m.node[n].nlinks = s.node[n].nlinks /\ n \notin {Dir(m, t), Held(m, t)}
    BY <1>2, <1>9, <1>11, Distinct
  <2> QED BY <1>9, <1>11, <1>12, <2>1, <2>2 DEF Mild
<1>14. \A n \in Node : Sons(m, n) = Sons(s, n)
  BY <1>9, <1>11, <1>12 DEF Sons
<1>15. ASSUME NEW n \in Node \ {h, d} PROVE ShapeOK(m, n) /\ LinksOK(m, n) /\ KeptOK(m, n)
  <2>1. Leaving(m, n) = Leaving(s, n)
    <3>1. t \notin Leaving(m, n) /\ t \notin Leaving(s, n)
      BY <1>2, <1>11, <1>15 DEF Leaving
    <3> QED BY <1>11, <3>1, ListsOf, NoMore
  <2>2. Aside(s, m, t, n)
    BY <1>2, <1>9, <1>11, <1>12, <1>14, <1>15, <2>1 DEF Aside
  <2> QED BY <1>1, <1>11, <2>2, AsideOK
<1>16. ShapeOK(m, h) /\ LinksOK(m, h) /\ KeptOK(m, h)
  <2>1. ShapeOK(m, h) /\ DirLinks(m, h)
    BY <1>3, <1>5, <1>9, <1>11, <1>12 DEF ShapeOK, DirLinks
  <2>2. KeptOK(m, h)
    BY <1>9, <1>11 DEF KeptOK, Has
  <2> QED BY <1>3, <1>9, <1>11, <2>1, <2>2 DEF LinksOK
<1>17. ShapeOK(m, d) /\ LinksOK(m, d) /\ KeptOK(m, d)
  <2>1. ShapeOK(m, d)
    BY <1>4, <1>5, <1>9, <1>11, <1>12, Distinct DEF ShapeOK
  <2>2. KeptOK(m, d)
    BY <1>4, <1>6, <1>9, <1>11, <1>12 DEF KeptOK
  <2>3. IsFiniteSet(Leaving(m, d)) /\ Cardinality(Sons(s, d)) \in Nat
    BY <1>1, <1>11, Counts
  <2>4. t \in Leaving(s, d) /\ t \notin Leaving(m, d)
    BY <1>1, <1>2, <1>11 DEF Leaving
  <2>5. Cardinality(Leaving(s, d)) = Cardinality(Leaving(m, d)) + 1
        /\ Cardinality(Leaving(m, d)) \in Nat
    BY <1>11, <2>3, <2>4, ListsOf, OneMore
  <2>6. s.node[d].nlinks = Cardinality(Sons(s, d)) + 2 + Cardinality(Leaving(s, d))
    BY <1>4, <1>5 DEF DirLinks
  <2>7. m.node[d].nlinks = Cardinality(Sons(m, d)) + 2 + Cardinality(Leaving(m, d))
    BY <1>6, <1>9, <1>11, <1>14, <2>3, <2>5, <2>6
  <2> QED BY <1>4, <1>9, <1>11, <2>1, <2>2, <2>7 DEF LinksOK, DirLinks
<1>18. NamesGood(m)
  <2>1. m.node[Held(s, t)].kind # "free" /\ Held(s, t) \in Node /\ s.pc[t] # "user"
    BY <1>1, <1>2, <1>3, <1>9, <1>11
  <2>2. \A n \in Node : ShapeOK(m, n) /\ LinksOK(m, n) /\ KeptOK(m, n)
    BY <1>15, <1>16, <1>17
  <2> QED BY <1>1, <1>10, <1>11, <1>13, <2>1, <2>2, MiddleGood
<1>19. {Dir(m, t), Held(m, t)} \subseteq {dir(t), held(t), NONE} /\ Unlisted(m, t)
  BY <1>2, <1>11, Reads DEF Unlisted
<1>20. Return(t, m.node)
  BY <1>8, <1>11
<1> QED BY <1>1, <1>11, <1>18, <1>19, <1>20, ReturnStep

-----------------------------------------------------------------------------
(* An entry is filled in. *)
LEMMA Filled ==
    ASSUME NEW s, NEW r, Moves(s, r), NEW t \in Task, NEW p \in Pos, NEW nodes,
           nodes = WithEntry(t, p), NEW d \in Node, d = Dir(s, t), NEW h \in Node,
           h = Held(s, t), s.local[t].name \in Name, s.node[d].entry[p] = NONE
    PROVE  /\ nodes \in [Node -> Inode] /\ \A n \in Node \ {d} : nodes[n] = s.node[n]
           /\ \A n \in Node : /\ nodes[n].kind = s.node[n].kind
                              /\ nodes[n].parent = s.node[n].parent
                              /\ nodes[n].nlinks = s.node[n].nlinks
           /\ nodes[d].entry[p] = [name |-> s.local[t].name, node |-> h]
           /\ \A q \in Pos : q # p => nodes[d].entry[q] = s.node[d].entry[q]
<1>1. s.node \in [Node -> Inode] /\ s.node[d] \in Inode /\ s.node = node
  BY Reads, ShotFacts
<1>2. PICK e \in Entry : e = [name |-> s.local[t].name, node |-> h]
  BY DEF Entry
<1>3. [name |-> local[t].name, node |-> held(t)] = e
  BY <1>2, Reads
<1>4. nodes = [s.node EXCEPT ![d].entry[p] = e]
  BY <1>1, <1>3, Reads DEF WithEntry
<1>5. PICK list \in [Pos -> Entry \cup {NONE}] :
         /\ list = [s.node[d].entry EXCEPT ![p] = e] /\ list[p] = e
         /\ \A q \in Pos : q # p => list[q] = s.node[d].entry[q]
  <2>1. PICK old \in [Pos -> Entry \cup {NONE}] : old = s.node[d].entry
    BY <1>1 DEF Inode
  <2>2. [old EXCEPT ![p] = e] \in [Pos -> Entry \cup {NONE}]
    OBVIOUS
  <2>3. [old EXCEPT ![p] = e][p] = e /\ \A q \in Pos : q # p => [old EXCEPT ![p] = e][q] = old[q]
    OBVIOUS
  <2> QED BY <2>1, <2>2, <2>3
<1>6. PICK new \in Inode : /\ new = [s.node[d] EXCEPT !.entry = list] /\ new.entry = list
                           /\ new.kind = s.node[d].kind /\ new.parent = s.node[d].parent
                           /\ new.nlinks = s.node[d].nlinks
  <2>1. PICK old \in Inode : old = s.node[d]
    BY <1>1
  <2>2. [old EXCEPT !.entry = list] \in Inode
    BY DEF Inode
  <2>3. /\ [old EXCEPT !.entry = list].entry = list
        /\ [old EXCEPT !.entry = list].kind = old.kind
        /\ [old EXCEPT !.entry = list].parent = old.parent
        /\ [old EXCEPT !.entry = list].nlinks = old.nlinks
    BY DEF Inode
  <2> QED BY <2>1, <2>2, <2>3
<1>7. nodes = [s.node EXCEPT ![d] = new]
  BY <1>4, <1>5, <1>6
<1> QED BY <1>1, <1>2, <1>5, <1>6, <1>7

Fills(s, m, t, d, p, h) ==
    /\ m \in Shots /\ Others(s, m, t) /\ OddGrows(s, m) /\ m.pc[t] \in {"linked", "file"}
    /\ d \in Node /\ d = Dir(s, t) /\ h \in Node /\ h = Held(s, t) /\ h = Held(m, t)
    /\ Dir(m, t) \in {d, NONE}
    /\ p \in Pos /\ s.node[d].entry[p] = NONE
    /\ \A n \in Node \ {d} : m.node[n] = s.node[n]
    /\ m.node[d].kind = s.node[d].kind /\ m.node[d].parent = s.node[d].parent
    /\ m.node[d].entry[p] = [name |-> s.local[t].name, node |-> h]
    /\ \A q \in Pos : q # p => m.node[d].entry[q] = s.node[d].entry[q]

LEMMA FillsOthers ==
    ASSUME FewNames, NEW s, NamesGood(s), NEW t \in Task, s.pc[t] = "add_entry", NEW m, NEW d, NEW p,
           NEW h, Fills(s, m, t, d, p, h)
    PROVE  /\ Ents(m, h) = Ents(s, h) \cup {<<d, p>>}
           /\ Cardinality(Ents(m, h)) = Cardinality(Ents(s, h)) + 1
           /\ h # d /\ h # Root /\ Named(m, h) /\ Mild(s, m, t)
           /\ s.node[d].kind = "dir" /\ (d = Root \/ Named(s, d))
           /\ \A n \in Node \ {h} : Ents(m, n) = Ents(s, n) /\ (Named(m, n) <=> Named(s, n))
           /\ \A n \in Node : Leaving(m, n) = Leaving(s, n)
           /\ \A n \in Node : s.node[h].kind = "file" \/ n # d => Sons(m, n) = Sons(s, n)
           /\ \A n \in Node \ {h, d} : ShapeOK(m, n) /\ LinksOK(m, n) /\ KeptOK(m, n)
<1>1. /\ s \in Shots /\ SelfOK(s, t) /\ m \in Shots /\ Others(s, m, t) /\ OddGrows(s, m)
      /\ d \in Node /\ d = Dir(s, t) /\ h \in Node /\ h = Held(s, t)
  BY DEF NamesGood, Fills
<1>2. s.local[t].name \in Name /\ AddOK(s, t)
  BY <1>1 DEF SelfOK
<1>3. Adds(s, m, d, p, s.local[t].name, h)
  BY <1>2 DEF Adds, Fills
<1>4. PICK name : name = s.local[t].name
  OBVIOUS
<1>5. /\ Ents(m, h) = Ents(s, h) \cup {<<d, p>>} /\ <<d, p>> \notin Ents(s, h)
      /\ Cardinality(Ents(m, h)) = Cardinality(Ents(s, h)) + 1
      /\ \A n \in Node : n # h => Ents(m, n) = Ents(s, n)
  BY <1>1, <1>3, <1>4, EntAdded
<1>6. s.node[d].kind = "dir" /\ (d = Root \/ Named(s, d))
  BY <1>1, DirThere
<1>7. s.node[h].kind = "file" \/ Fresh(s, t)
  BY <1>1, <1>2 DEF AddOK
<1>8. h # d /\ h # Root
  <2>1. ShapeOK(s, h)
    BY <1>1 DEF NamesGood
  <2> QED BY <1>1, <1>6, <1>7, <2>1 DEF Fresh, ShapeOK
<1>9. Named(m, h) /\ \A n \in Node \ {h} : Named(m, n) <=> Named(s, n)
  BY <1>5 DEF Named
<1>10. /\ \A n \in Node : m.node[n].kind = s.node[n].kind /\ m.node[n].parent = s.node[n].parent
       /\ \A n \in Node \ {d} : m.node[n] = s.node[n]
  BY DEF Fills
<1>11. Mild(s, m, t)
  <2>1. \A u \in Task \ {t} :
           Dir(s, u) # NONE /\ Named(s, Dir(s, u)) => Named(m, Dir(s, u))
    BY <1>1, <1>9, ShotFacts
  <2>2. \A n \in Node : n \notin {Dir(s, t), Held(s, t)} =>
           m.node[n].nlinks = s.node[n].nlinks /\ n \notin {Dir(m, t), Held(m, t)}
    BY <1>1, Distinct DEF Fills
  <2>3. ASSUME NEW n \in Node, ~(Has(s, n) \subseteq {t}), Named(m, n)
        PROVE  \/ Named(s, n)
               \/ s.node[n].kind = "file" /\ n \in {Dir(s, t), Held(s, t)}
    BY <1>1, <1>7, <1>9, <2>3 DEF Fresh
  <2> QED BY <1>1, <1>10, <2>1, <2>2, <2>3 DEF Mild
<1>12. ASSUME NEW n \in Node PROVE Leaving(m, n) = Leaving(s, n)
  <2>1. t \notin Leaving(m, n) /\ t \notin Leaving(s, n)
    BY DEF Leaving, Fills
  <2> QED BY <1>1, <2>1, ListsOf, NoMore
<1>13. ASSUME NEW n \in Node, s.node[h].kind = "file" \/ n # d PROVE Sons(m, n) = Sons(s, n)
  <2>1. s.node[h].kind = "file" \/ s.node[h].parent = d \/ s.node[h].kind # "dir"
    BY <1>1, <1>7 DEF Fresh
  <2>2. \A x \in Node \ {Root} : x \in Sons(m, n) <=> x \in Sons(s, n)
    BY <1>9, <1>10, <1>13, <2>1 DEF Sons
  <2> QED BY <2>2 DEF Sons
<1>14. ASSUME NEW n \in Node \ {h, d} PROVE ShapeOK(m, n) /\ LinksOK(m, n) /\ KeptOK(m, n)
  <2>1. n \notin {Held(s, t), Held(m, t)} /\ n # Dir(s, t)
    BY <1>1, <1>14 DEF Fills
  <2>2. Aside(s, m, t, n)
    BY <1>5, <1>10, <1>12, <1>13, <1>14, <2>1 DEF Aside
  <2> QED BY <1>1, <2>2, AsideOK
<1> QED BY <1>5, <1>6, <1>8, <1>9, <1>11, <1>12, <1>13, <1>14

LEMMA FillsDir ==
    ASSUME FewNames, NEW s, NamesGood(s), NEW t \in Task, s.pc[t] = "add_entry", NEW m, NEW d, NEW p,
           NEW h, Fills(s, m, t, d, p, h), s.node[h].kind = "file",
           m.node[d].nlinks = s.node[d].nlinks
    PROVE  ShapeOK(m, d) /\ LinksOK(m, d) /\ KeptOK(m, d)
<1>1. /\ h # d /\ s.node[d].kind = "dir" /\ (d = Root \/ Named(s, d)) /\ d \in Node
      /\ m \in Shots /\ Others(s, m, t) /\ OddGrows(s, m) /\ d = Dir(s, t)
      /\ h = Held(s, t) /\ h = Held(m, t)
      /\ m.node[d].kind = s.node[d].kind /\ m.node[d].parent = s.node[d].parent
  <2>1. h # d /\ s.node[d].kind = "dir" /\ (d = Root \/ Named(s, d))
    BY FillsOthers
  <2> QED BY <2>1 DEF Fills
<1>2. Ents(m, d) = Ents(s, d) /\ Leaving(m, d) = Leaving(s, d) /\ Sons(m, d) = Sons(s, d)
  BY <1>1, FillsOthers
<1>3. s.node[d].nlinks > 0
  BY <1>1, DirThere
<1>4. Aside(s, m, t, d)
  BY <1>1, <1>2, <1>3 DEF Aside
<1> QED BY <1>1, <1>4, AsideOK

(* link: one name more, and one link to be counted. *)
LEMMA FillsLink ==
    ASSUME FewNames, NEW s, NamesGood(s), NEW t \in Task, s.pc[t] = "add_entry", NEW m, NEW d, NEW p,
           NEW h, Fills(s, m, t, d, p, h), Op(s, t) = "link", m.pc[t] = "linked"
    PROVE  ShapeOK(m, h) /\ LinksOK(m, h) /\ KeptOK(m, h)
<1>1. /\ h # d /\ h # Root /\ h \in Node /\ h = Held(s, t) /\ h = Held(m, t)
      /\ m \in Shots /\ Others(s, m, t) /\ OddGrows(s, m) /\ m.node[h] = s.node[h]
      /\ Cardinality(Ents(m, h)) = Cardinality(Ents(s, h)) + 1 /\ s \in Shots
  <2>1. h # d /\ h # Root /\ Cardinality(Ents(m, h)) = Cardinality(Ents(s, h)) + 1
    BY FillsOthers
  <2>2. s \in Shots
    BY DEF NamesGood
  <2> QED BY <2>1, <2>2 DEF Fills
<1>2. s.node[h].kind = "file" /\ ShapeOK(s, h) /\ LinksOK(s, h)
  BY <1>1 DEF NamesGood, SelfOK, AddOK
<1>3. PICK k : Extra(s, h, k)
  BY <1>2 DEF LinksOK, FileLinks
<1>4. /\ t \in Linking(m, h) /\ t \notin Clearing(m, h) /\ t \notin Making(m, h)
      /\ t \notin Linking(s, h) /\ t \notin Clearing(s, h) /\ t \notin Making(s, h)
  BY <1>1 DEF Linking, Clearing, Making
<1>5. Clearing(m, h) = Clearing(s, h) /\ Making(m, h) = Making(s, h)
  BY <1>1, <1>4, ListsOf, NoMore
<1>6. Cardinality(Linking(m, h)) = Cardinality(Linking(s, h)) + 1
  <2>1. IsFiniteSet(Linking(s, h)) /\ Linking(m, h) \ {t} = Linking(s, h) \ {t}
    BY <1>1, ListsOf, Counts
  <2> QED BY <1>4, <2>1, OneMore
<1>7. PICK e \in Nat, c \in Nat, w \in Nat, l \in Nat, x \in Nat :
         /\ e = Cardinality(Ents(s, h)) /\ c = Cardinality(Clearing(s, h))
         /\ w = Cardinality(Making(s, h)) /\ l = Cardinality(Linking(s, h))
         /\ x = s.node[h].nlinks
  <2>1. /\ Cardinality(Ents(s, h)) \in Nat /\ Cardinality(Making(s, h)) \in Nat
        /\ Cardinality(Linking(s, h)) \in Nat /\ s.node[h].nlinks \in Nat
        /\ Cardinality(Clearing(s, h)) \in Nat
    BY <1>1, Counts, ShotFacts
  <2> QED BY <2>1
<1>8. e + 1 + c + w + k < 256 /\ k \in Nat
  <2>1. PICK b \in Nat, a \in Nat : b = Cardinality(Node \X Pos) /\ a = Cardinality(Task)
                                    /\ b + 3 * a < 256
    BY <1>1, Counts
  <2>2. Cardinality(Ents(m, h)) <= b /\ Cardinality(Clearing(m, h)) <= a
        /\ Cardinality(Making(m, h)) <= a
    <3>1. /\ Cardinality(Clearing(m, h)) \in 0 .. Cardinality(Task)
          /\ Cardinality(Making(m, h)) \in 0 .. Cardinality(Task)
          /\ Cardinality(Ents(m, h)) \in 0 .. Cardinality(Node \X Pos)
      BY <1>1, Counts
    <3> QED BY <2>1, <3>1
  <2>3. e + 1 <= b /\ c <= a /\ w <= a /\ k <= a /\ k \in Nat
    BY <1>1, <1>3, <1>5, <1>7, <2>1, <2>2 DEF Extra
  <2> QED BY <2>1, <2>3
<1>9. (x + l) % 256 = e + c + w + k
  BY <1>3, <1>7 DEF Extra
<1>10. PICK y \in Nat, z \in Nat : y = e + c + w + k /\ z = x + l
  BY <1>8
<1>11. (z + 1) % 256 = y + 1
  BY <1>8, <1>9, <1>10, ModUp
<1>12. (x + (l + 1)) % 256 = (e + 1) + c + w + k
  <2>1. x + (l + 1) = z + 1 /\ (e + 1) + c + w + k = y + 1
    BY <1>8, <1>10
  <2> QED BY <1>11, <2>1
<1>13. Extra(m, h, k)
  BY <1>1, <1>3, <1>5, <1>6, <1>7, <1>12 DEF Extra, OddGrows
<1> QED BY <1>1, <1>2, <1>13, FileOK DEF FileLinks, ShapeOK

(* open and mknod: the first name. *)
LEMMA FillsNew ==
    ASSUME FewNames, NEW s, NamesGood(s), NEW t \in Task, s.pc[t] = "add_entry", NEW m, NEW d, NEW p,
           NEW h, Fills(s, m, t, d, p, h), Op(s, t) \in {"open", "mknod"}, m.pc[t] = "file"
    PROVE  ShapeOK(m, h) /\ LinksOK(m, h) /\ KeptOK(m, h)
<1>1. /\ h # d /\ h # Root /\ h \in Node /\ h = Held(s, t) /\ h = Held(m, t)
      /\ m \in Shots /\ Others(s, m, t) /\ m.node[h] = s.node[h]
      /\ Cardinality(Ents(m, h)) = Cardinality(Ents(s, h)) + 1 /\ s \in Shots
  <2>1. h # d /\ h # Root /\ Cardinality(Ents(m, h)) = Cardinality(Ents(s, h)) + 1
    BY FillsOthers
  <2>2. s \in Shots
    BY DEF NamesGood
  <2> QED BY <2>1, <2>2 DEF Fills
<1>2. Fresh(s, t) /\ ShapeOK(s, h)
  BY <1>1 DEF NamesGood, SelfOK, AddOK
<1>3. s.node[h].kind = "file" /\ s.node[h].nlinks = 1 /\ Ents(s, h) = {}
  BY <1>1, <1>2 DEF Fresh, Named
<1>4. Linking(m, h) = {} /\ Clearing(m, h) = {} /\ Making(m, h) = {}
  BY <1>1, <1>2, AloneLists DEF Fresh
<1>5. (1 + 0) % 256 = (0 + 1) + 0 + 0 + 0 /\ Cardinality({}) = 0 /\ 0 \in 0 .. Cardinality(Task)
  BY <1>1, FS_EmptySet, Counts
<1>6. Extra(m, h, 0)
  BY <1>1, <1>3, <1>4, <1>5 DEF Extra
<1> QED BY <1>1, <1>2, <1>3, <1>6, FileOK DEF FileLinks, ShapeOK

(* add_entry up to what each call does next. *)
Adding(s, t, d, p, h, nodes) ==
    /\ s.pc[t] = "add_entry" /\ d \in Node /\ d = Dir(s, t) /\ h \in Node /\ h = Held(s, t)
    /\ SelfOK(s, t) /\ HoldsOK(s, t) /\ AddOK(s, t) /\ s.node[d].entry[p] = NONE
    /\ nodes = WithEntry(t, p) /\ nodes \in [Node -> Inode]
    /\ \A n \in Node \ {d} : nodes[n] = s.node[n]
    /\ \A n \in Node : /\ nodes[n].kind = s.node[n].kind /\ nodes[n].parent = s.node[n].parent
                       /\ nodes[n].nlinks = s.node[n].nlinks
    /\ nodes[d].entry[p] = [name |-> s.local[t].name, node |-> h]
    /\ \A q \in Pos : q # p => nodes[d].entry[q] = s.node[d].entry[q]

LEMMA AddingFacts ==
    ASSUME NEW s, NEW r, Moves(s, r), NEW t \in Task, NEW p \in Pos, AddEntry(t, p)
    PROVE  /\ \E d, h, nodes : Adding(s, t, d, p, h, nodes)
           /\ OddGrows(s, r) /\ r.odd \subseteq Oddities
<1>1. /\ s.pc[t] = "add_entry" /\ SelfOK(s, t) /\ HoldsOK(s, t) /\ s \in Shots
      /\ s.odd \subseteq Oddities /\ node[dir(t)].entry[p] = NONE
  BY Reads, ShotFacts DEF Moves, NamesGood, AddEntry
<1>2. PICK d \in Node, h \in Node : d = Dir(s, t) /\ h = Held(s, t)
  BY <1>1 DEF SelfOK
<1>3. AddOK(s, t) /\ s.local[t].name \in Name
  BY <1>1 DEF SelfOK
<1>4. s.node[d].entry[p] = NONE
  BY <1>1, <1>2, Reads
<1>5. PICK nodes : nodes = WithEntry(t, p)
  OBVIOUS
<1>6. /\ nodes \in [Node -> Inode] /\ \A n \in Node \ {d} : nodes[n] = s.node[n]
      /\ \A n \in Node : /\ nodes[n].kind = s.node[n].kind
                         /\ nodes[n].parent = s.node[n].parent
                         /\ nodes[n].nlinks = s.node[n].nlinks
      /\ nodes[d].entry[p] = [name |-> s.local[t].name, node |-> h]
      /\ \A q \in Pos : q # p => nodes[d].entry[q] = s.node[d].entry[q]
  BY <1>2, <1>3, <1>4, <1>5, Filled
<1>7. Adding(s, t, d, p, h, nodes)
  BY <1>1, <1>2, <1>3, <1>4, <1>5, <1>6 DEF Adding
<1>8. OddGrows(s, r) /\ r.odd \subseteq Oddities
  <2>1. odd' = odd \cup {"twice"} \/ odd' = odd
    BY DEF AddEntry, Fill, Note
  <2>2. "twice" \in Oddities
    BY DEF Oddities
  <2> QED BY <1>1, <2>1, <2>2, Reads DEF OddGrows
<1> QED BY <1>7, <1>8

LEMMA AddLinkGood ==
    ASSUME FewNames, NEW s, NEW r, Moves(s, r), NEW t \in Task, NEW p \in Pos, AddEntry(t, p),
           local[t].op = "link"
    PROVE  NamesGood(r)
<1>1. s \in Shots /\ NamesGood(s) /\ Op(s, t) = "link"
  BY Reads DEF Moves, Op
<1>2. PICK d, h, nodes : Adding(s, t, d, p, h, nodes)
  BY AddingFacts
<1>3. OddGrows(s, r) /\ r.odd \subseteq Oddities
  BY AddingFacts
<1>4. FillLink(t, nodes)
  BY <1>2 DEF AddEntry, Fill, Adding
<1>5. r.node = nodes /\ r.local = s.local /\ r.local \in [Task -> Frames]
  BY <1>1, <1>4, Reads, ShotFacts DEF FillLink
<1>6. /\ r.pc \in [Task -> Places] /\ r.pc[t] = "linked"
      /\ \A u \in Task \ {t} : r.pc[u] = s.pc[u]
  BY <1>4, GotoStep DEF FillLink, Places
<1>7. r \in Shots
  BY <1>2, <1>3, <1>5, <1>6, Writes DEF Adding
<1>8. Dir(r, t) = Dir(s, t) /\ Held(r, t) = Held(s, t) /\ Op(r, t) = Op(s, t)
  BY <1>5 DEF Dir, Held, Op
<1>9. Others(s, r, t)
  BY <1>5, <1>6 DEF Others
<1>10. Fills(s, r, t, d, p, h)
  BY <1>2, <1>3, <1>5, <1>6, <1>7, <1>8, <1>9 DEF Adding, Fills
<1>11. s.pc[t] = "add_entry" /\ r.node[d].nlinks = s.node[d].nlinks /\ s.node[h].kind = "file"
       /\ SelfOK(s, t) /\ h = Held(s, t) /\ d = Dir(s, t) /\ d \in Node /\ h \in Node
       /\ r.node[h].kind = "file"
  BY <1>1, <1>2, <1>5 DEF Adding, AddOK
<1>12. ShapeOK(r, h) /\ LinksOK(r, h) /\ KeptOK(r, h)
  BY <1>1, <1>6, <1>10, <1>11, FillsLink
<1>13. ShapeOK(r, d) /\ LinksOK(r, d) /\ KeptOK(r, d)
  BY <1>1, <1>10, <1>11, FillsDir
<1>14. /\ Mild(s, r, t) /\ s.node[d].kind = "dir" /\ (d = Root \/ Named(s, d)) /\ h # d
       /\ \A n \in Node \ {h} : Named(r, n) <=> Named(s, n)
       /\ \A n \in Node \ {h, d} : ShapeOK(r, n) /\ LinksOK(r, n) /\ KeptOK(r, n)
  BY <1>1, <1>10, <1>11, FillsOthers
<1>15. SelfOK(r, t)
  BY <1>1, <1>5, <1>6, <1>8, <1>11 DEF SelfOK
<1>16. HoldsOK(r, t)
  BY <1>2, <1>5, <1>8, <1>11, <1>14 DEF HoldsOK, Adding
<1>17. AloneOK(r)
  BY <1>1, <1>3, <1>6, <1>8, <1>9, AloneKept DEF OddGrows
<1> QED BY <1>1, <1>7, <1>12, <1>13, <1>14, <1>15, <1>16, <1>17, MildOK DEF NamesGood

LEMMA NewFileGood ==
    ASSUME FewNames, NEW s, NamesGood(s), NEW t \in Task, NEW d, NEW p \in Pos, NEW h, NEW nodes,
           Adding(s, t, d, p, h, nodes), Op(s, t) \in {"open", "mknod"}, NEW o, NEW m,
           Middle(s, m, t, nodes, o), OddGrows(s, m)
    PROVE  NamesGood(m)
<1>1. /\ m \in Shots /\ m.node = nodes /\ Others(s, m, t) /\ m.pc[t] = "file"
      /\ Dir(m, t) = NONE /\ Held(m, t) = h
  BY DEF Middle, Adding
<1>2. Fills(s, m, t, d, p, h)
  BY <1>1 DEF Adding, Fills
<1>3. /\ s.pc[t] = "add_entry" /\ m.node[d].nlinks = s.node[d].nlinks
      /\ s.node[h].kind = "file" /\ h = Held(s, t) /\ h \in Node /\ m.node[h].kind = "file"
  BY <1>1 DEF Adding, AddOK, Fresh
<1>4. ShapeOK(m, h) /\ LinksOK(m, h) /\ KeptOK(m, h)
  BY <1>1, <1>2, <1>3, FillsNew
<1>5. ShapeOK(m, d) /\ LinksOK(m, d) /\ KeptOK(m, d)
  BY <1>2, <1>3, FillsDir
<1>6. Mild(s, m, t) /\ \A n \in Node \ {h, d} : ShapeOK(m, n) /\ LinksOK(m, n) /\ KeptOK(m, n)
  BY <1>2, <1>3, FillsOthers
<1>7. \A n \in Node : ShapeOK(m, n) /\ LinksOK(m, n) /\ KeptOK(m, n)
  BY <1>4, <1>5, <1>6
<1>8. m.node[Held(s, t)].kind # "free" /\ Held(s, t) \in Node /\ s.pc[t] # "user"
  BY <1>3
<1> QED BY <1>6, <1>7, <1>8, MiddleGood

LEMMA AddMknodGood ==
    ASSUME FewNames, NEW s, NEW r, Moves(s, r), NEW t \in Task, NEW p \in Pos, AddEntry(t, p),
           local[t].op = "mknod"
    PROVE  NamesGood(r)
<1>1. s \in Shots /\ NamesGood(s) /\ Op(s, t) = "mknod"
  BY Reads DEF Moves, Op
<1>2. PICK d, h, nodes : Adding(s, t, d, p, h, nodes)
  BY AddingFacts
<1>3. OddGrows(s, r) /\ r.odd \subseteq Oddities /\ nodes \in [Node -> Inode]
  BY <1>2, AddingFacts DEF Adding
<1>4. Return(t, nodes)
  BY <1>2 DEF AddEntry, Fill, Adding
<1>5. PICK m : Middle(s, m, t, nodes, r.odd)
  BY <1>1, <1>3, MiddleExists
<1>6. /\ m \in Shots /\ m.node = nodes /\ Others(s, m, t) /\ m.pc[t] = "file"
      /\ Dir(m, t) = NONE /\ Held(m, t) = Held(s, t) /\ m.odd = r.odd
  BY <1>5 DEF Middle
<1>7. NamesGood(m)
  <2>1. OddGrows(s, m)
    BY <1>3, <1>6 DEF OddGrows
  <2> QED BY <1>1, <1>2, <1>5, <2>1, NewFileGood
<1>8. {Dir(m, t), Held(m, t)} \subseteq {dir(t), held(t), NONE} /\ Unlisted(m, t)
  BY <1>6, Reads DEF Unlisted
<1>9. Return(t, m.node)
  BY <1>4, <1>6
<1> QED BY <1>6, <1>7, <1>8, <1>9, ReturnStep

LEMMA AddOpenGood ==
    ASSUME FewNames, NEW s, NEW r, Moves(s, r), NEW t \in Task, NEW p \in Pos, AddEntry(t, p),
           local[t].op = "open"
    PROVE  NamesGood(r)
<1>1. s \in Shots /\ NamesGood(s) /\ Op(s, t) = "open"
  BY Reads DEF Moves, Op
<1>2. PICK d, h, nodes : Adding(s, t, d, p, h, nodes)
  BY AddingFacts
<1>3. OddGrows(s, r) /\ r.odd \subseteq Oddities /\ nodes \in [Node -> Inode]
  BY <1>2, AddingFacts DEF Adding
<1>4. FillOpen(t, nodes)
  BY <1>2 DEF AddEntry, Fill, Adding
<1>5. PICK l \in Frames : l = local[t] /\ l = s.local[t]
  BY <1>1, Reads, ShotFacts
<1>6. PICK f : DirSets(l, f, NONE)
  BY DEF DirSets
<1>7. f \in Frames /\ f.op = l.op /\ f.name = l.name /\ f.dir = NONE /\ f.node = l.node
  BY <1>5, <1>6, DirFrame
<1>8. Puts(t, f)
  BY <1>4, <1>5, <1>6 DEF FillOpen, Puts, DirSets
<1>9. /\ r.local \in [Task -> Frames] /\ r.local[t] = f
      /\ \A u \in Task \ {t} : r.local[u] = s.local[u]
      /\ Dir(r, t) = NONE /\ Held(r, t) = Held(s, t) /\ Op(r, t) = Op(s, t)
      /\ r.local[t].name = s.local[t].name
  <2>1. Held(s, t) = l.node /\ Op(s, t) = l.op
    BY <1>5 DEF Held, Op
  <2> QED BY <1>5, <1>7, <1>8, <2>1, LocalStep
<1>10. /\ r.pc \in [Task -> Places] /\ r.pc[t] = "file"
       /\ \A u \in Task \ {t} : r.pc[u] = s.pc[u]
  BY <1>4, GotoStep DEF FillOpen, Places
<1>11. r.node = nodes
  <2>1. s.node[d].nlinks > 0 /\ d = dir(t) /\ nodes[d].nlinks = s.node[d].nlinks
    BY <1>1, <1>2, Reads, DirThere DEF Adding
  <2>2. r.node = [n \in Node |-> nodes[n]]
    BY <1>4, <2>1, Reads DEF FillOpen, Iput
  <2> QED BY <1>3, <2>2
<1>12. r \in Shots
  BY <1>3, <1>9, <1>10, <1>11, Writes
<1>13. Middle(s, r, t, nodes, r.odd)
  BY <1>9, <1>10, <1>11, <1>12 DEF Middle, Others
<1> QED BY <1>1, <1>2, <1>3, <1>13, NewFileGood

(* mkdir: the entry, and ".." of the new directory. *)
LEMMA MadeGood ==
    ASSUME FewNames, NEW s, NamesGood(s), NEW t \in Task, NEW d, NEW p \in Pos, NEW h, NEW m,
           Fills(s, m, t, d, p, h), s.pc[t] = "add_entry", Op(s, t) = "mkdir", m.pc[t] = "file",
           m.node[d].nlinks = s.node[d].nlinks + 1
    PROVE  \A n \in Node : ShapeOK(m, n) /\ LinksOK(m, n) /\ KeptOK(m, n)
<1>1. /\ h # d /\ h # Root /\ Named(m, h) /\ Ents(m, h) = Ents(s, h) \cup {<<d, p>>}
      /\ s.node[d].kind = "dir" /\ (d = Root \/ Named(s, d))
      /\ \A n \in Node \ {h} : Ents(m, n) = Ents(s, n) /\ (Named(m, n) <=> Named(s, n))
      /\ \A n \in Node : Leaving(m, n) = Leaving(s, n)
      /\ \A n \in Node : s.node[h].kind = "file" \/ n # d => Sons(m, n) = Sons(s, n)
      /\ \A n \in Node \ {h, d} : ShapeOK(m, n) /\ LinksOK(m, n) /\ KeptOK(m, n)
  BY FillsOthers
<1>2. /\ d \in Node /\ h \in Node /\ d = Dir(s, t) /\ h = Held(s, t) /\ m \in Shots
      /\ m.node[h] = s.node[h] /\ m.node[d].kind = s.node[d].kind
      /\ m.node[d].parent = s.node[d].parent /\ Others(s, m, t)
      /\ \A n \in Node \ {d} : m.node[n] = s.node[n]
  BY <1>1 DEF Fills
<1>3. /\ s \in Shots /\ Fresh(s, t) /\ ShapeOK(s, h) /\ ShapeOK(s, d)
      /\ DirLinks(s, d) /\ LinksOK(s, h)
  BY <1>1, <1>2 DEF NamesGood, SelfOK, AddOK, LinksOK
<1>4. /\ s.node[h].kind = "dir" /\ s.node[h].nlinks = 2 /\ s.node[h].parent = d
      /\ ~Named(s, h) /\ Ents(s, h) = {}
  BY <1>2, <1>3 DEF Fresh, Named
<1>5. ShapeOK(m, h) /\ LinksOK(m, h) /\ KeptOK(m, h)
  <2>1. Ents(m, h) = {<<d, p>>}
    BY <1>1, <1>4
  <2>2. ShapeOK(m, h)
    BY <1>1, <1>2, <1>4, <2>1 DEF ShapeOK
  <2>3. DirLinks(s, h)
    BY <1>3, <1>4 DEF LinksOK
  <2>4. DirLinks(m, h)
    BY <1>1, <1>2, <1>4, <2>3 DEF DirLinks
  <2>5. KeptOK(m, h)
    BY <1>1, <1>2, <1>4 DEF KeptOK
  <2> QED BY <1>2, <1>4, <2>2, <2>4, <2>5 DEF LinksOK
<1>6. ShapeOK(m, d) /\ LinksOK(m, d) /\ KeptOK(m, d)
  <2>1. ShapeOK(m, d)
    BY <1>1, <1>2, <1>3, Distinct DEF ShapeOK
  <2>2. /\ Cardinality(Sons(s, d)) \in Nat /\ Cardinality(Leaving(s, d)) \in Nat
        /\ IsFiniteSet(Sons(s, d)) /\ s.node[d].nlinks \in Nat
    BY <1>2, <1>3, Counts, ShotFacts
  <2>3. s.node[d].nlinks = Cardinality(Sons(s, d)) + 2 + Cardinality(Leaving(s, d))
    BY <1>1, <1>3 DEF DirLinks
  <2>4. Sons(m, d) \ {h} = Sons(s, d) \ {h}
    <3>1. \A x \in Node \ {Root, h} : x \in Sons(m, d) <=> x \in Sons(s, d)
      BY <1>1, <1>2 DEF Sons
    <3>2. Sons(m, d) \subseteq Node \ {Root} /\ Sons(s, d) \subseteq Node \ {Root}
      BY DEF Sons
    <3> QED BY <3>1, <3>2
  <2>5. h \in Sons(m, d) /\ h \notin Sons(s, d)
    BY <1>1, <1>2, <1>4 DEF Sons
  <2>6. Cardinality(Sons(m, d)) = Cardinality(Sons(s, d)) + 1
    BY <2>2, <2>4, <2>5, OneMore
  <2>7. m.node[d].nlinks = Cardinality(Sons(m, d)) + 2 + Cardinality(Leaving(m, d))
    BY <1>1, <1>2, <2>2, <2>3, <2>6
  <2>8. KeptOK(m, d)
    BY <1>1, <1>2, <2>2 DEF KeptOK
  <2> QED BY <1>1, <1>2, <2>1, <2>7, <2>8 DEF LinksOK, DirLinks
<1> QED BY <1>1, <1>5, <1>6

LEMMA LinksSet ==
    ASSUME NEW f \in Inode, NEW k \in Nat, NEW g, g = [f EXCEPT !.nlinks = k]
    PROVE  /\ g \in Inode /\ g.nlinks = k /\ g.kind = f.kind /\ g.parent = f.parent
           /\ g.entry = f.entry
<1>1. g \in Inode
  BY DEF Inode
<1>2. g.nlinks = k /\ g.kind = f.kind /\ g.parent = f.parent /\ g.entry = f.entry
  BY DEF Inode
<1> QED BY <1>1, <1>2

LEMMA AddMkdirGood ==
    ASSUME FewNames, NEW s, NEW r, Moves(s, r), NEW t \in Task, NEW p \in Pos, AddEntry(t, p),
           local[t].op = "mkdir"
    PROVE  NamesGood(r)
<1>1. s \in Shots /\ NamesGood(s) /\ Op(s, t) = "mkdir"
  BY Reads DEF Moves, Op
<1>2. PICK d, h, nodes : Adding(s, t, d, p, h, nodes)
  BY AddingFacts
<1>3. OddGrows(s, r) /\ r.odd \subseteq Oddities /\ nodes \in [Node -> Inode]
  BY <1>2, AddingFacts DEF Adding
<1>4. /\ d \in Node /\ d = Dir(s, t) /\ h \in Node /\ h = Held(s, t) /\ s.pc[t] = "add_entry"
      /\ s.node[h].kind # "free"
  BY <1>1, <1>2 DEF Adding, AddOK, Fresh
<1>5. PICK made : made = [nodes EXCEPT ![d].nlinks = @ + 1]
  OBVIOUS
<1>6. Return(t, made)
  <2>1. FillDir(t, nodes)
    BY <1>2 DEF AddEntry, Fill, Adding
  <2> QED BY <1>4, <1>5, <2>1, Reads DEF FillDir
<1>7. /\ made \in [Node -> Inode] /\ \A n \in Node \ {d} : made[n] = nodes[n]
      /\ made[d].kind = nodes[d].kind /\ made[d].parent = nodes[d].parent
      /\ made[d].entry = nodes[d].entry /\ made[d].nlinks = nodes[d].nlinks + 1
  <2>1. PICK old \in Inode : old = nodes[d] /\ old.nlinks \in Nat
    BY <1>3, <1>4 DEF Inode
  <2>2. PICK k \in Nat : k = old.nlinks + 1
    BY <2>1
  <2>3. PICK new : new = [old EXCEPT !.nlinks = k]
    OBVIOUS
  <2>4. /\ new \in Inode /\ new.nlinks = k /\ new.kind = old.kind /\ new.parent = old.parent
        /\ new.entry = old.entry
    BY <2>3, LinksSet
  <2>5. made = [nodes EXCEPT ![d] = new]
    BY <1>5, <2>1, <2>2, <2>3
  <2> QED BY <1>3, <1>4, <2>1, <2>2, <2>4, <2>5
<1>8. PICK m : Middle(s, m, t, made, r.odd)
  BY <1>1, <1>3, <1>7, MiddleExists
<1>9. /\ m \in Shots /\ m.node = made /\ Others(s, m, t) /\ m.pc[t] = "file"
      /\ Dir(m, t) = NONE /\ Held(m, t) = Held(s, t) /\ m.odd = r.odd /\ OddGrows(s, m)
  BY <1>3, <1>8 DEF Middle, OddGrows
<1>10. Fills(s, m, t, d, p, h) /\ m.node[d].nlinks = s.node[d].nlinks + 1
       /\ m.node[h].kind = s.node[h].kind
  <2>1. /\ \A n \in Node \ {d} : m.node[n] = s.node[n]
        /\ m.node[d].kind = s.node[d].kind /\ m.node[d].parent = s.node[d].parent
        /\ m.node[d].entry = nodes[d].entry /\ m.node[d].nlinks = s.node[d].nlinks + 1
    BY <1>2, <1>4, <1>7, <1>9 DEF Adding
  <2>2. /\ m.node[d].entry[p] = [name |-> s.local[t].name, node |-> h]
        /\ \A q \in Pos : q # p => m.node[d].entry[q] = s.node[d].entry[q]
        /\ s.node[d].entry[p] = NONE
    BY <1>2, <2>1 DEF Adding
  <2> QED BY <1>4, <1>9, <2>1, <2>2 DEF Fills
<1>11. Mild(s, m, t)
  BY <1>1, <1>4, <1>10, FillsOthers
<1>12. \A n \in Node : ShapeOK(m, n) /\ LinksOK(m, n) /\ KeptOK(m, n)
  BY <1>1, <1>4, <1>9, <1>10, MadeGood
<1>13. NamesGood(m)
  <2>1. m.node[Held(s, t)].kind # "free" /\ Held(s, t) \in Node /\ s.pc[t] # "user"
    BY <1>4, <1>10
  <2> QED BY <1>1, <1>8, <1>9, <1>11, <1>12, <2>1, MiddleGood
<1>14. {Dir(m, t), Held(m, t)} \subseteq {dir(t), held(t), NONE} /\ Unlisted(m, t)
  BY <1>9, Reads DEF Unlisted
<1>15. Return(t, m.node)
  BY <1>6, <1>9
<1> QED BY <1>9, <1>13, <1>14, <1>15, ReturnStep

-----------------------------------------------------------------------------
(* An entry is cleared. *)
Late(s, t) == Op(s, t) = "unlink" /\ s.node[Held(s, t)].nlinks = 0

LEMMA Cleared ==
    ASSUME NEW s, NEW r, Moves(s, r), NEW t \in Task, NEW d \in Node, d = Dir(s, t),
           NEW h \in Node, h = Held(s, t), h # d, NEW p \in Pos, p = s.local[t].pos, Clear(t)
    PROVE  /\ r.node \in [Node -> Inode] /\ \A n \in Node \ {h, d} : r.node[n] = s.node[n]
           /\ \A n \in Node : /\ r.node[n].kind = s.node[n].kind
                              /\ r.node[n].parent = s.node[n].parent
           /\ r.node[d].nlinks = s.node[d].nlinks /\ r.node[h].entry = s.node[h].entry
           /\ r.node[h].nlinks = (IF Late(s, t) THEN 1 ELSE s.node[h].nlinks)
           /\ r.node[d].entry[p] = NONE
           /\ \A q \in Pos : q # p => r.node[d].entry[q] = s.node[d].entry[q]
<1>1. s.node \in [Node -> Inode] /\ s.node[d] \in Inode /\ s.node[h] \in Inode
  BY Reads, ShotFacts
<1>2. PICK k \in Nat : k = (IF Late(s, t) THEN 1 ELSE s.node[h].nlinks)
  BY <1>1 DEF Inode
<1>3. r.node = [s.node EXCEPT ![h].nlinks = k, ![d].entry[p] = NONE]
  <2>1. local[t].op = "unlink" /\ node[held(t)].nlinks = 0 <=> Late(s, t)
    BY Reads DEF Late, Op
  <2>2. local[t].pos = p /\ dir(t) = d /\ held(t) = h /\ node = s.node /\ node' = r.node
    BY Reads
  <2>3. node' = [node EXCEPT ![h].nlinks = k, ![d].entry[p] = NONE]
    BY <1>2, <2>1, <2>2 DEF Clear
  <2> QED BY <2>2, <2>3
<1>4. PICK list \in [Pos -> Entry \cup {NONE}] :
         /\ list = [s.node[d].entry EXCEPT ![p] = NONE] /\ list[p] = NONE
         /\ \A q \in Pos : q # p => list[q] = s.node[d].entry[q]
  <2>1. PICK old \in [Pos -> Entry \cup {NONE}] : old = s.node[d].entry
    BY <1>1 DEF Inode
  <2>2. [old EXCEPT ![p] = NONE] \in [Pos -> Entry \cup {NONE}]
    OBVIOUS
  <2>3. [old EXCEPT ![p] = NONE][p] = NONE
        /\ \A q \in Pos : q # p => [old EXCEPT ![p] = NONE][q] = old[q]
    OBVIOUS
  <2> QED BY <2>1, <2>2, <2>3
<1>5. PICK new \in Inode : /\ new = [s.node[d] EXCEPT !.entry = list] /\ new.entry = list
                           /\ new.kind = s.node[d].kind /\ new.parent = s.node[d].parent
                           /\ new.nlinks = s.node[d].nlinks
  <2>1. PICK old \in Inode : old = s.node[d]
    BY <1>1
  <2>2. [old EXCEPT !.entry = list] \in Inode
    BY DEF Inode
  <2>3. /\ [old EXCEPT !.entry = list].entry = list
        /\ [old EXCEPT !.entry = list].kind = old.kind
        /\ [old EXCEPT !.entry = list].parent = old.parent
        /\ [old EXCEPT !.entry = list].nlinks = old.nlinks
    BY DEF Inode
  <2> QED BY <2>1, <2>2, <2>3
<1>6. PICK one \in Inode : /\ one = [s.node[h] EXCEPT !.nlinks = k] /\ one.nlinks = k
                           /\ one.kind = s.node[h].kind /\ one.parent = s.node[h].parent
                           /\ one.entry = s.node[h].entry
  <2>1. PICK old \in Inode : old = s.node[h]
    BY <1>1
  <2>2. PICK g : g = [old EXCEPT !.nlinks = k]
    OBVIOUS
  <2>3. /\ g \in Inode /\ g.nlinks = k /\ g.kind = old.kind /\ g.parent = old.parent
        /\ g.entry = old.entry
    BY <1>2, <2>2, LinksSet
  <2> QED BY <2>1, <2>2, <2>3
<1>7. r.node = [s.node EXCEPT ![h] = one, ![d] = new]
  <2>1. PICK first \in [Node -> Inode] : first = [s.node EXCEPT ![h] = one]
    BY <1>1
  <2>2. first[d] = s.node[d]
    BY <1>1, <2>1
  <2>3. r.node = [first EXCEPT ![d].entry[p] = NONE]
    BY <1>3, <1>6, <2>1
  <2>4. r.node = [first EXCEPT ![d] = new]
    BY <1>4, <1>5, <2>2, <2>3
  <2> QED BY <2>1, <2>4
<1>8. /\ r.node \in [Node -> Inode] /\ r.node[d] = new /\ r.node[h] = one
      /\ \A n \in Node \ {h, d} : r.node[n] = s.node[n]
  BY <1>1, <1>7
<1>9. \A n \in Node : r.node[n].kind = s.node[n].kind /\ r.node[n].parent = s.node[n].parent
  <2>1. ASSUME NEW n \in Node
        PROVE  r.node[n].kind = s.node[n].kind /\ r.node[n].parent = s.node[n].parent
    <3>1. CASE n = d
      BY <1>5, <1>8, <3>1
    <3>2. CASE n = h
      BY <1>6, <1>8, <3>2
    <3>3. CASE n \notin {h, d}
      BY <1>8, <3>3
    <3> QED BY <3>1, <3>2, <3>3
  <2> QED BY <2>1
<1> QED BY <1>2, <1>4, <1>5, <1>6, <1>8, <1>9

(* Where unlink and rmdir are when they clear the entry. *)
Clears(s, r, t, d, p, h) ==
    /\ s \in Shots /\ NamesGood(s) /\ r \in Shots /\ Others(s, r, t) /\ OddGrows(s, r)
    /\ d \in Node /\ d = Dir(s, t) /\ d = Dir(r, t) /\ h \in Node /\ h = Held(s, t)
    /\ h = Held(r, t) /\ h # d /\ p \in Pos /\ p = s.local[t].pos /\ r.local[t] = s.local[t]
    /\ s.local[t].name \in Name /\ Op(r, t) = Op(s, t) /\ r.pc[t] = "cleared"
    /\ \A n \in Node \ {h, d} : r.node[n] = s.node[n]
    /\ \A n \in Node : r.node[n].kind = s.node[n].kind /\ r.node[n].parent = s.node[n].parent
    /\ r.node[d].nlinks = s.node[d].nlinks /\ r.node[h].entry = s.node[h].entry
    /\ r.node[h].nlinks = (IF Late(s, t) THEN 1 ELSE s.node[h].nlinks)
    /\ r.node[d].entry[p] = NONE
    /\ \A q \in Pos : q # p => r.node[d].entry[q] = s.node[d].entry[q]
    /\ "stale" \notin r.odd =>
          s.node[d].entry[p] = [name |-> s.local[t].name, node |-> h]
    /\ Late(s, t) => "nonexistent" \in r.odd
    /\ s.node[d].kind = "dir" /\ (d = Root \/ Named(s, d)) /\ s.node[h].kind # "free"

LEMMA ClearFacts ==
    ASSUME FewNames, NEW s, NEW r, Moves(s, r), NEW t \in Task, Clear(t),
           s.pc[t] \in {"got", "empty_dir"}, Held(s, t) # Dir(s, t)
    PROVE  \E d, p, h : Clears(s, r, t, d, p, h)
<1>1. /\ s \in Shots /\ NamesGood(s) /\ SelfOK(s, t) /\ HoldsOK(s, t) /\ s.odd \subseteq Oddities
      /\ s.local \in [Task -> Frames]
  BY Reads, ShotFacts DEF Moves, NamesGood
<1>2. PICK d \in Node, h \in Node, p \in Pos :
         d = Dir(s, t) /\ h = Held(s, t) /\ p = s.local[t].pos
  BY <1>1 DEF SelfOK
<1>3. s.local[t].name \in Name /\ h # d
  BY <1>1, <1>2 DEF SelfOK
<1>4. /\ r.node \in [Node -> Inode] /\ \A n \in Node \ {h, d} : r.node[n] = s.node[n]
      /\ \A n \in Node : r.node[n].kind = s.node[n].kind /\ r.node[n].parent = s.node[n].parent
      /\ r.node[d].nlinks = s.node[d].nlinks /\ r.node[h].entry = s.node[h].entry
      /\ r.node[h].nlinks = (IF Late(s, t) THEN 1 ELSE s.node[h].nlinks)
      /\ r.node[d].entry[p] = NONE
      /\ \A q \in Pos : q # p => r.node[d].entry[q] = s.node[d].entry[q]
  BY <1>2, <1>3, Cleared
<1>5. /\ r.pc \in [Task -> Places] /\ r.pc[t] = "cleared"
      /\ \A u \in Task \ {t} : r.pc[u] = s.pc[u]
  BY GotoStep DEF Clear, Places
<1>6. r.local = s.local
  BY Reads DEF Clear
<1>7. /\ Others(s, r, t) /\ d = Dir(r, t) /\ h = Held(r, t) /\ Op(r, t) = Op(s, t)
  BY <1>2, <1>5, <1>6 DEF Others, Dir, Held, Op
<1>8. /\ r.odd \subseteq Oddities /\ OddGrows(s, r) /\ (Late(s, t) => "nonexistent" \in r.odd)
      /\ "stale" \notin r.odd => s.node[d].entry[p] = [name |-> s.local[t].name, node |-> h]
  <2>1. PICK late, stale :
           /\ late = (local[t].op = "unlink" /\ node[held(t)].nlinks = 0)
           /\ stale = (node[dir(t)].entry[local[t].pos]
                       # [name |-> local[t].name, node |-> held(t)])
    OBVIOUS
  <2>2. odd' = odd \cup (IF stale THEN {"stale"} ELSE {})
                   \cup (IF late THEN {"nonexistent"} ELSE {})
    BY <2>1 DEF Clear
  <2>3. late <=> Late(s, t)
    BY <2>1, Reads DEF Late, Op
  <2>4. stale <=> s.node[d].entry[p] # [name |-> s.local[t].name, node |-> h]
    BY <1>2, <2>1, Reads
  <2>5. "stale" \in Oddities /\ "nonexistent" \in Oddities
    BY DEF Oddities
  <2> QED BY <1>1, <2>2, <2>3, <2>4, <2>5, Reads DEF OddGrows
<1>9. r \in Shots
  BY <1>1, <1>4, <1>5, <1>6, <1>8, Writes
<1>10. s.node[d].kind = "dir" /\ (d = Root \/ Named(s, d)) /\ s.node[h].kind # "free"
  BY <1>1, <1>2, Distinct DEF HoldsOK
<1>11. Clears(s, r, t, d, p, h)
  BY <1>1, <1>2, <1>3, <1>4, <1>5, <1>6, <1>7, <1>8, <1>9, <1>10 DEF Clears
<1> QED BY <1>11

LEMMA ClearsEnts ==
    ASSUME FewNames, NEW s, NEW r, NEW t \in Task, NEW d, NEW p, NEW h,
           Clears(s, r, t, d, p, h), "stale" \notin r.odd
    PROVE  /\ Ents(s, h) = Ents(r, h) \cup {<<d, p>>} /\ <<d, p>> \notin Ents(r, h)
           /\ Cardinality(Ents(s, h)) = Cardinality(Ents(r, h)) + 1 /\ Named(s, h)
           /\ \A n \in Node \ {h} : Ents(r, n) = Ents(s, n) /\ (Named(r, n) <=> Named(s, n))
<1>1. PICK name \in Name : name = s.local[t].name
  BY DEF Clears
<1>2. \A n \in Node \ {d} : r.node[n].entry = s.node[n].entry
  BY DEF Clears
<1>3. Adds(r, s, d, p, name, h) /\ s \in Shots /\ r \in Shots
  <2>1. \A n \in Node, q \in Pos :
           ~(n = d /\ q = p) => s.node[n].entry[q] = r.node[n].entry[q]
    BY <1>2 DEF Clears
  <2> QED BY <1>1, <2>1 DEF Adds, Clears
<1>4. /\ Ents(s, h) = Ents(r, h) \cup {<<d, p>>} /\ <<d, p>> \notin Ents(r, h)
      /\ Cardinality(Ents(s, h)) = Cardinality(Ents(r, h)) + 1
      /\ \A n \in Node : n # h => Ents(s, n) = Ents(r, n)
  BY <1>3, EntAdded
<1> QED BY <1>4 DEF Named

LEMMA ClearsMild ==
    ASSUME FewNames, NEW s, NEW r, NEW t \in Task, NEW d, NEW p, NEW h,
           Clears(s, r, t, d, p, h), "stale" \notin r.odd,
           s.node[h].kind = "file" \/ \A u \in Task : Dir(s, u) # h
    PROVE  Mild(s, r, t)
<1>1. /\ Named(s, h) /\ \A n \in Node \ {h} : Named(r, n) <=> Named(s, n)
  BY ClearsEnts
<1>2. s \in Shots /\ NamesGood(s)
  BY DEF Clears
<1>3. ASSUME NEW u \in Task \ {t}, Dir(s, u) # NONE, Named(s, Dir(s, u))
      PROVE  Named(r, Dir(s, u))
  <2>1. Dir(s, u) \in Node /\ Dir(s, u) # h
    BY <1>2, <1>3, ShotFacts DEF NamesGood, HoldsOK
  <2> QED BY <1>1, <1>3, <2>1
<1>4. \A n \in Node : n \notin {Dir(s, t), Held(s, t)} =>
         r.node[n].nlinks = s.node[n].nlinks /\ n \notin {Dir(r, t), Held(r, t)}
  BY DEF Clears
<1> QED BY <1>1, <1>3, <1>4 DEF Mild, Clears

LEMMA ModSmall ==
    ASSUME NEW x \in Nat, x < 256
    PROVE  x % 256 = x
OBVIOUS

(* unlink: one name less, and one link to be counted off; an inode without *)
(* links gets one, so that its count is one too many from now on.          *)
LEMMA ClearsFile ==
    ASSUME FewNames, NEW s, NEW r, NEW t \in Task, NEW d, NEW p, NEW h,
           Clears(s, r, t, d, p, h), "stale" \notin r.odd, s.pc[t] = "got",
           Op(s, t) = "unlink", s.node[h].kind = "file"
    PROVE  ShapeOK(r, h) /\ LinksOK(r, h) /\ KeptOK(r, h)
<1>0. /\ Ents(s, h) = Ents(r, h) \cup {<<d, p>>} /\ <<d, p>> \notin Ents(r, h)
      /\ Cardinality(Ents(s, h)) = Cardinality(Ents(r, h)) + 1 /\ Named(s, h)
      /\ \A n \in Node \ {h} : Ents(r, n) = Ents(s, n) /\ (Named(r, n) <=> Named(s, n))
  BY ClearsEnts
<1>1. /\ s \in Shots /\ r \in Shots /\ NamesGood(s) /\ Others(s, r, t) /\ OddGrows(s, r)
      /\ h \in Node /\ h = Held(s, t) /\ h = Held(r, t) /\ r.pc[t] = "cleared"
      /\ r.node[h].kind = "file" /\ r.node[h].entry = s.node[h].entry
      /\ r.node[h].nlinks = (IF Late(s, t) THEN 1 ELSE s.node[h].nlinks)
      /\ Late(s, t) => "nonexistent" \in r.odd
      /\ Late(s, t) <=> s.node[h].nlinks = 0
  BY DEF Clears, Late
<1>2. ShapeOK(s, h) /\ FileLinks(s, h)
  BY <1>1 DEF NamesGood, LinksOK
<1>3. PICK k : Extra(s, h, k)
  BY <1>2 DEF FileLinks
<1>4. /\ t \notin Linking(r, h) /\ t \in Clearing(r, h) /\ t \notin Making(r, h)
      /\ t \notin Linking(s, h) /\ t \notin Clearing(s, h) /\ t \notin Making(s, h)
  BY <1>1 DEF Linking, Clearing, Making
<1>5. Linking(r, h) = Linking(s, h) /\ Making(r, h) = Making(s, h)
  BY <1>1, <1>4, ListsOf, NoMore
<1>6. Cardinality(Clearing(r, h)) = Cardinality(Clearing(s, h)) + 1
  <2>1. IsFiniteSet(Clearing(s, h)) /\ Clearing(r, h) \ {t} = Clearing(s, h) \ {t}
    BY <1>1, ListsOf, Counts
  <2> QED BY <1>4, <2>1, OneMore
<1>7. PICK e \in Nat, c \in Nat, w \in Nat, l \in Nat, x \in Nat, a \in Nat :
         /\ e = Cardinality(Ents(r, h)) /\ c = Cardinality(Clearing(s, h))
         /\ w = Cardinality(Making(s, h)) /\ l = Cardinality(Linking(s, h))
         /\ x = s.node[h].nlinks /\ a = Cardinality(Task) /\ l <= a /\ 3 * a < 256
  <2>1. /\ Cardinality(Ents(r, h)) \in Nat /\ Cardinality(Making(s, h)) \in Nat
        /\ Cardinality(Linking(s, h)) \in 0 .. Cardinality(Task) /\ s.node[h].nlinks \in Nat
        /\ Cardinality(Clearing(s, h)) \in Nat /\ Cardinality(Task) \in Nat
    BY <1>1, Counts, ShotFacts
  <2>2. 3 * Cardinality(Task) < 256
    <3>1. PICK b \in Nat, a \in Nat : b = Cardinality(Node \X Pos) /\ a = Cardinality(Task)
                                      /\ b + 3 * a < 256
      BY <1>1, Counts
    <3> QED BY <3>1
  <2> QED BY <2>1, <2>2
<1>8. Cardinality(Ents(s, h)) = e + 1
  BY <1>0, <1>7
<1>9. (x + l) % 256 = (e + 1) + c + w + k /\ k \in Nat /\ k <= a
  BY <1>3, <1>7, <1>8 DEF Extra
<1>10. CASE x # 0
  <2>1. (x + l) % 256 = e + (c + 1) + w + k
    BY <1>9
  <2>2. Extra(r, h, k)
    BY <1>1, <1>3, <1>5, <1>6, <1>7, <1>10, <2>1 DEF Extra, OddGrows
  <2>3. r.node[h].nlinks < 256
    BY <1>1, <1>2, <1>7, <1>10 DEF ShapeOK
  <2> QED BY <1>1, <1>2, <2>2, <2>3, FileOK DEF FileLinks, ShapeOK
<1>11. CASE x = 0
  <2>1. l < 256 /\ l + 1 < 256 /\ 1 + l = l + 1 /\ 0 + l = l
    BY <1>7
  <2>2. l % 256 = l /\ (1 + l) % 256 = l + 1
    BY <2>1, ModSmall
  <2>3. l = (e + 1) + c + w + k
    BY <1>9, <1>11, <2>1, <2>2
  <2>4. (1 + l) % 256 = e + (c + 1) + w + (k + 1) /\ k + 1 \in 0 .. a
    BY <1>7, <1>9, <2>2, <2>3
  <2>5. r.node[h].nlinks = 1 /\ "nonexistent" \in r.odd
    BY <1>1, <1>7, <1>11
  <2>6. Extra(r, h, k + 1)
    BY <1>5, <1>6, <1>7, <2>4, <2>5 DEF Extra
  <2> QED BY <1>1, <1>2, <2>5, <2>6, FileOK DEF FileLinks, ShapeOK
<1> QED BY <1>10, <1>11

LEMMA ClearFileGood ==
    ASSUME FewNames, NEW s, NEW r, Moves(s, r), NEW t \in Task, ClearFile(t)
    PROVE  r \in Shots /\ ("stale" \notin r.odd => NamesGood(r))
<1>1. /\ s.pc[t] = "got" /\ Op(s, t) = "unlink" /\ SelfOK(s, t) /\ s \in Shots /\ NamesGood(s)
      /\ s.node[Held(s, t)].kind = "file" /\ Clear(t)
  BY Reads DEF Moves, NamesGood, ClearFile, Doing, Op, Removable
<1>2. Held(s, t) # Dir(s, t)
  BY <1>1, DirThere DEF SelfOK
<1>3. PICK d, p, h : Clears(s, r, t, d, p, h)
  BY <1>1, <1>2, ClearFacts
<1>4. /\ r \in Shots /\ Others(s, r, t) /\ OddGrows(s, r) /\ d \in Node /\ d = Dir(s, t)
      /\ d = Dir(r, t) /\ h \in Node /\ h = Held(s, t) /\ h = Held(r, t) /\ h # d
      /\ r.local[t] = s.local[t] /\ Op(r, t) = Op(s, t) /\ r.pc[t] = "cleared"
      /\ \A n \in Node \ {h, d} : r.node[n] = s.node[n]
      /\ \A n \in Node : r.node[n].kind = s.node[n].kind /\ r.node[n].parent = s.node[n].parent
      /\ r.node[d].nlinks = s.node[d].nlinks
      /\ s.node[d].kind = "dir" /\ (d = Root \/ Named(s, d)) /\ s.node[h].kind = "file"
  BY <1>1, <1>3 DEF Clears
<1>5. SUFFICES ASSUME "stale" \notin r.odd PROVE NamesGood(r)
  BY <1>4
<1>6. \A n \in Node \ {h} : Ents(r, n) = Ents(s, n) /\ (Named(r, n) <=> Named(s, n))
  BY <1>3, <1>5, ClearsEnts
<1>7. Mild(s, r, t)
  BY <1>3, <1>4, <1>5, ClearsMild
<1>8. ASSUME NEW n \in Node PROVE Sons(r, n) = Sons(s, n)
  <2>1. \A x \in Node \ {Root} : x \in Sons(r, n) <=> x \in Sons(s, n)
    BY <1>4, <1>6 DEF Sons
  <2> QED BY <2>1 DEF Sons
<1>9. ASSUME NEW n \in Node PROVE Leaving(r, n) = Leaving(s, n)
  <2>1. t \notin Leaving(r, n) /\ t \notin Leaving(s, n)
    BY <1>1, <1>4 DEF Leaving
  <2> QED BY <1>4, <2>1, ListsOf, NoMore
<1>10. ASSUME NEW n \in Node, n # h PROVE ShapeOK(r, n) /\ LinksOK(r, n) /\ KeptOK(r, n)
  <2>1. n \notin {Held(s, t), Held(r, t)} /\ (n = Dir(s, t) => n = Dir(r, t))
    BY <1>4, <1>10
  <2>2. Aside(s, r, t, n)
    BY <1>4, <1>6, <1>8, <1>9, <1>10, <2>1 DEF Aside
  <2> QED BY <1>1, <1>4, <2>2, AsideOK
<1>11. ShapeOK(r, h) /\ LinksOK(r, h) /\ KeptOK(r, h)
  BY <1>1, <1>3, <1>4, <1>5, ClearsFile
<1>12. SelfOK(r, t)
  BY <1>1, <1>4 DEF SelfOK, ClearedOK
<1>13. HoldsOK(r, t)
  BY <1>4, <1>6 DEF HoldsOK
<1>14. AloneOK(r)
  BY <1>1, <1>4, AloneKept DEF OddGrows
<1> QED BY <1>1, <1>4, <1>7, <1>10, <1>11, <1>12, <1>13, <1>14, MildOK DEF NamesGood

(* rmdir: the directory loses its name and its father a son, and the task  *)
(* that is leaving stands for it until the links are counted off.          *)
LEMMA ClearsNode ==
    ASSUME FewNames, NEW s, NEW r, NEW t \in Task, NEW d, NEW p, NEW h,
           Clears(s, r, t, d, p, h), "stale" \notin r.odd,
           s.node[h].kind = "dir", h # Root
    PROVE  s.node[h].parent = d /\ ~Named(r, h) /\ Ents(r, h) = {}
<1>1. /\ Ents(s, h) = Ents(r, h) \cup {<<d, p>>} /\ <<d, p>> \notin Ents(r, h)
      /\ Cardinality(Ents(s, h)) = Cardinality(Ents(r, h)) + 1 /\ Named(s, h)
      /\ \A n \in Node \ {h} : Ents(r, n) = Ents(s, n) /\ (Named(r, n) <=> Named(s, n))
  BY ClearsEnts
<1>2. h \in Node /\ ShapeOK(s, h)
  BY DEF Clears, NamesGood
<1>3. PICK e : e = <<d, p>>
  OBVIOUS
<1>4. e \in Ents(s, h) /\ e \notin Ents(r, h) /\ e[1] = d
  BY <1>1, <1>3
<1>5. e[1] = s.node[h].parent /\ \A f \in Ents(s, h) : f = e
  BY <1>2, <1>4 DEF ShapeOK
<1>6. Ents(r, h) = {}
  BY <1>1, <1>4, <1>5
<1> QED BY <1>4, <1>5, <1>6 DEF Named

LEMMA ClearsSons ==
    ASSUME FewNames, NEW s, NEW r, NEW t \in Task, NEW d, NEW p, NEW h,
           Clears(s, r, t, d, p, h), "stale" \notin r.odd,
           s.node[h].kind = "dir", h # Root, s.pc[t] = "empty_dir", Op(s, t) = "rmdir"
    PROVE  /\ \A n \in Node \ {d} : Sons(r, n) = Sons(s, n) /\ Leaving(r, n) = Leaving(s, n)
           /\ Cardinality(Sons(r, d)) + Cardinality(Leaving(r, d))
                 = Cardinality(Sons(s, d)) + Cardinality(Leaving(s, d))
<1>1. s.node[h].parent = d /\ ~Named(r, h)
  BY ClearsNode
<1>2. /\ Ents(s, h) = Ents(r, h) \cup {<<d, p>>} /\ <<d, p>> \notin Ents(r, h)
      /\ Cardinality(Ents(s, h)) = Cardinality(Ents(r, h)) + 1 /\ Named(s, h)
      /\ \A n \in Node \ {h} : Ents(r, n) = Ents(s, n) /\ (Named(r, n) <=> Named(s, n))
  BY ClearsEnts
<1>3. /\ s \in Shots /\ r \in Shots /\ Others(s, r, t) /\ d \in Node /\ d = Dir(s, t)
      /\ d = Dir(r, t) /\ h \in Node /\ r.pc[t] = "cleared" /\ Op(r, t) = "rmdir"
      /\ \A n \in Node : r.node[n].kind = s.node[n].kind /\ r.node[n].parent = s.node[n].parent
  BY DEF Clears
<1>4. ASSUME NEW n \in Node \ {d}
      PROVE  Sons(r, n) = Sons(s, n) /\ Leaving(r, n) = Leaving(s, n)
  <2>1. h \notin Sons(r, n) /\ h \notin Sons(s, n)
    BY <1>1, <1>3 DEF Sons
  <2>2. \A x \in Node \ {Root} : x # h => (x \in Sons(r, n) <=> x \in Sons(s, n))
    BY <1>2, <1>3 DEF Sons
  <2>3. Sons(r, n) \subseteq Node \ {Root} /\ Sons(s, n) \subseteq Node \ {Root}
    BY DEF Sons
  <2>4. Sons(r, n) = Sons(s, n)
    BY <2>1, <2>2, <2>3
  <2>5. t \notin Leaving(r, n) /\ t \notin Leaving(s, n)
    BY <1>3, <1>4 DEF Leaving
  <2> QED BY <1>3, <2>4, <2>5, ListsOf, NoMore
<1>5. Cardinality(Sons(s, d)) = Cardinality(Sons(r, d)) + 1
      /\ Cardinality(Sons(r, d)) \in Nat
  <2>1. h \notin Sons(r, d) /\ h \in Sons(s, d)
    BY <1>1, <1>2, <1>3 DEF Sons
  <2>2. \A x \in Node \ {Root} : x # h => (x \in Sons(r, d) <=> x \in Sons(s, d))
    BY <1>2, <1>3 DEF Sons
  <2>3. Sons(r, d) \subseteq Node \ {Root} /\ Sons(s, d) \subseteq Node \ {Root}
    BY DEF Sons
  <2>4. Sons(s, d) \ {h} = Sons(r, d) \ {h}
    BY <2>2, <2>3
  <2>5. IsFiniteSet(Sons(r, d))
    BY <1>3, Counts
  <2> QED BY <2>1, <2>4, <2>5, OneMore
<1>6. Cardinality(Leaving(r, d)) = Cardinality(Leaving(s, d)) + 1
      /\ Cardinality(Leaving(s, d)) \in Nat
  <2>1. t \in Leaving(r, d) /\ t \notin Leaving(s, d)
    BY <1>3 DEF Leaving
  <2>2. Leaving(r, d) \ {t} = Leaving(s, d) \ {t} /\ IsFiniteSet(Leaving(s, d))
    BY <1>3, ListsOf, Counts
  <2> QED BY <2>1, <2>2, OneMore
<1>7. Cardinality(Sons(r, d)) + Cardinality(Leaving(r, d))
         = Cardinality(Sons(s, d)) + Cardinality(Leaving(s, d))
  BY <1>5, <1>6
<1> QED BY <1>4, <1>7

LEMMA ClearDirGood ==
    ASSUME FewNames, NEW s, NEW r, Moves(s, r), NEW t \in Task, ClearDir(t), ~Over
    PROVE  r \in Shots /\ ("stale" \notin r.odd => NamesGood(r))
<1>1. /\ s.pc[t] = "empty_dir" /\ SelfOK(s, t) /\ s \in Shots /\ NamesGood(s) /\ AloneOK(s)
      /\ ~Ended(s) /\ s.node[Held(s, t)].entry = NoEntries /\ Clear(t)
  BY Reads DEF Moves, NamesGood, ClearDir
<1>2. /\ Op(s, t) = "rmdir" /\ s.node[Held(s, t)].kind = "dir" /\ Held(s, t) # Root
      /\ \A u \in Task : Dir(s, u) # Held(s, t)
  BY <1>1 DEF SelfOK, AloneOK
<1>3. PICK d, p, h : Clears(s, r, t, d, p, h)
  BY <1>1, <1>2, ClearFacts
<1>4. /\ r \in Shots /\ Others(s, r, t) /\ OddGrows(s, r) /\ d \in Node /\ d = Dir(s, t)
      /\ d = Dir(r, t) /\ h \in Node /\ h = Held(s, t) /\ h = Held(r, t) /\ h # d
      /\ r.local[t] = s.local[t] /\ Op(r, t) = Op(s, t) /\ r.pc[t] = "cleared"
      /\ \A n \in Node \ {h, d} : r.node[n] = s.node[n]
      /\ \A n \in Node : r.node[n].kind = s.node[n].kind /\ r.node[n].parent = s.node[n].parent
      /\ r.node[d].nlinks = s.node[d].nlinks /\ r.node[h].entry = NoEntries
      /\ r.node[h].nlinks = s.node[h].nlinks
      /\ s.node[d].kind = "dir" /\ (d = Root \/ Named(s, d)) /\ s.node[h].kind = "dir"
      /\ h # Root
  BY <1>1, <1>2, <1>3 DEF Clears, Late
<1>5. SUFFICES ASSUME "stale" \notin r.odd PROVE NamesGood(r)
  BY <1>4
<1>6. /\ Ents(s, h) = Ents(r, h) \cup {<<d, p>>} /\ <<d, p>> \notin Ents(r, h)
      /\ Cardinality(Ents(s, h)) = Cardinality(Ents(r, h)) + 1 /\ Named(s, h)
      /\ \A n \in Node \ {h} : Ents(r, n) = Ents(s, n) /\ (Named(r, n) <=> Named(s, n))
  BY <1>3, <1>5, ClearsEnts
<1>7. s.node[h].parent = d /\ ~Named(r, h) /\ Ents(r, h) = {}
  BY <1>3, <1>4, <1>5, ClearsNode
<1>8. /\ \A n \in Node \ {d} : Sons(r, n) = Sons(s, n) /\ Leaving(r, n) = Leaving(s, n)
      /\ Cardinality(Sons(r, d)) + Cardinality(Leaving(r, d))
            = Cardinality(Sons(s, d)) + Cardinality(Leaving(s, d))
  BY <1>1, <1>2, <1>3, <1>4, <1>5, ClearsSons
<1>9. Mild(s, r, t)
  BY <1>2, <1>3, <1>4, <1>5, ClearsMild
<1>10. ASSUME NEW n \in Node, n \notin {h, d}
       PROVE  ShapeOK(r, n) /\ LinksOK(r, n) /\ KeptOK(r, n)
  <2>1. n \notin {Held(s, t), Held(r, t)} /\ n # Dir(s, t)
    BY <1>4, <1>10
  <2>2. Aside(s, r, t, n)
    BY <1>4, <1>6, <1>8, <1>10, <2>1 DEF Aside
  <2> QED BY <1>1, <1>4, <2>2, AsideOK
<1>11. ShapeOK(r, h) /\ LinksOK(r, h) /\ KeptOK(r, h)
  <2>1. DirLinks(s, h)
    BY <1>1, <1>4 DEF NamesGood, LinksOK
  <2>2. DirLinks(r, h)
    BY <1>4, <1>6, <1>8, <2>1 DEF DirLinks
  <2>3. ShapeOK(r, h)
    BY <1>4, <1>7 DEF ShapeOK
  <2>4. KeptOK(r, h)
    <3>1. t \in Has(r, h)
      BY <1>4 DEF Has
    <3> QED BY <1>4, <3>1 DEF KeptOK
  <2> QED BY <1>4, <2>2, <2>3, <2>4 DEF LinksOK
<1>12. ShapeOK(r, d) /\ LinksOK(r, d) /\ KeptOK(r, d)
  <2>1. ShapeOK(s, d) /\ DirLinks(s, d)
    BY <1>1, <1>4 DEF NamesGood, LinksOK
  <2>2. /\ s.node[d].nlinks >= 2 + Cardinality(Leaving(s, d)) + Cardinality(Sons(s, d))
        /\ s.node[d].nlinks \in Nat /\ Cardinality(Leaving(s, d)) \in Nat
        /\ Cardinality(Sons(s, d)) \in Nat
    BY <1>1, <1>4, DirUsed
  <2>3. Cardinality(Leaving(r, d)) \in Nat /\ Cardinality(Sons(r, d)) \in Nat
    BY <1>4, Counts
  <2>4. s.node[d].nlinks = Cardinality(Sons(s, d)) + 2 + Cardinality(Leaving(s, d))
    BY <2>1, <2>2 DEF DirLinks
  <2>5. r.node[d].nlinks = Cardinality(Sons(r, d)) + 2 + Cardinality(Leaving(r, d))
    BY <1>4, <1>8, <2>2, <2>3, <2>4
  <2>6. Ents(r, d) = Ents(s, d) /\ (Named(r, d) <=> Named(s, d)) /\ r.node[d].kind = "dir"
        /\ r.node[d].parent = s.node[d].parent
    BY <1>4, <1>6
  <2>7. ShapeOK(r, d)
    BY <1>4, <2>1, <2>6 DEF ShapeOK
  <2>8. r.node[d].nlinks > 0
    BY <1>4, <2>2
  <2>9. KeptOK(r, d)
    BY <1>4, <2>6, <2>8 DEF KeptOK
  <2> QED BY <2>5, <2>6, <2>7, <2>9 DEF LinksOK, DirLinks
<1>13. SelfOK(r, t)
  BY <1>1, <1>2, <1>4, <1>7 DEF SelfOK, ClearedOK, Removing
<1>14. HoldsOK(r, t)
  BY <1>4, <1>6 DEF HoldsOK
<1>15. AloneOK(r)
  BY <1>1, <1>4, AloneKept DEF OddGrows
<1> QED BY <1>1, <1>4, <1>9, <1>10, <1>11, <1>12, <1>13, <1>14, <1>15, MildOK DEF NamesGood

-----------------------------------------------------------------------------
(* The inductive invariant: until an entry is cleared that names another   *)
(* inode by now.                                                           *)
NamesInv == Now \in Shots /\ ("stale" \notin odd => NamesGood(Now))

LEMMA NewGood ==
    ASSUME FewNames, NEW s, NEW r, Moves(s, r), NEW t \in Task, NEW n \in Node,
           OpenNew(t, n) \/ Mknod(t, n) \/ Mkdir(t, n)
    PROVE  NamesGood(r)
<1>1. CASE OpenNew(t, n)
  <2>1. PICK op, kind, nlinks : op = "open" /\ kind = "file" /\ nlinks = 1
    OBVIOUS
  <2>2. NewNode(t, op, n, kind, nlinks) /\ op \in {"open", "mknod", "mkdir"} /\ op # "mkdir"
    BY <1>1, <2>1 DEF OpenNew
  <2> QED BY <2>1, <2>2, NewNodeGood
<1>2. CASE Mknod(t, n)
  <2>1. PICK op, kind, nlinks : op = "mknod" /\ kind = "file" /\ nlinks = 1
    OBVIOUS
  <2>2. NewNode(t, op, n, kind, nlinks) /\ op \in {"open", "mknod", "mkdir"} /\ op # "mkdir"
    BY <1>2, <2>1 DEF Mknod
  <2> QED BY <2>1, <2>2, NewNodeGood
<1>3. CASE Mkdir(t, n)
  <2>1. PICK op, kind, nlinks : op = "mkdir" /\ kind = "dir" /\ nlinks = 2
    OBVIOUS
  <2>2. NewNode(t, op, n, kind, nlinks) /\ op \in {"open", "mknod", "mkdir"}
    BY <1>3, <2>1 DEF Mkdir
  <2> QED BY <2>1, <2>2, NewNodeGood
<1> QED BY <1>1, <1>2, <1>3

LEMMA AddEntryGood ==
    ASSUME FewNames, NEW s, NEW r, Moves(s, r), NEW t \in Task, NEW p \in Pos, AddEntry(t, p)
    PROVE  NamesGood(r)
<1>1. local[t].op \in {"link", "open", "mknod", "mkdir"}
  BY DEF AddEntry, Fill
<1> QED BY <1>1, AddLinkGood, AddOpenGood, AddMknodGood, AddMkdirGood

LEMMA RestGood ==
    ASSUME FewNames, NEW s, NEW r, Moves(s, r), NEW t \in Task,
           \/ WalkUp(t) \/ Fail(t) \/ Close(t) \/ LinkNew(t) \/ AddFails(t) \/ Linked(t)
           \/ Refuse(t) \/ Rmdir(t) \/ NotEmpty(t) \/ Removed(t)
    PROVE  NamesGood(r)
<1>1. CASE \/ Fail(t) \/ Close(t) \/ Refuse(t) \/ NotEmpty(t)
           \/ AddFails(t) /\ local[t].op = "link"
  BY <1>1, EndsGood
<1>2. CASE AddFails(t) /\ local[t].op # "link"
  BY <1>2, AddFailsGood
<1>3. CASE WalkUp(t)
  BY <1>3, WalkUpGood
<1>4. CASE LinkNew(t) \/ Linked(t) \/ Rmdir(t)
  BY <1>4, LinkNewGood, LinkedGood, RmdirGood
<1>5. CASE Removed(t) /\ local[t].op = "rmdir"
  BY <1>5, DirRemovedGood
<1>6. CASE Removed(t) /\ local[t].op # "rmdir"
  BY <1>6, FileRemovedGood
<1> QED BY <1>1, <1>2, <1>3, <1>4, <1>5, <1>6

LEMMA NamesInitOK == ASSUME FewNames, NamesInit PROVE NamesInv
<1>1. PICK s : s = Now
  OBVIOUS
<1>2. s.node = node /\ s.pc = pc /\ s.local = local /\ s.odd = odd
  BY <1>1 DEF Now
<1>3. /\ \A n \in Node \ {Root} : s.node[n] = FreeNode
      /\ s.node[Root].kind = "dir" /\ s.node[Root].nlinks = 2
      /\ \A n \in Node : s.node[n].entry = NoEntries
      /\ \A n \in Node \ {Root} : s.node[n].kind = "free"
  BY <1>2, Distinct DEF NamesInit, FreeNode
<1>4. \A t \in Task : s.pc[t] = "user" /\ s.local[t] = NoLocals /\ Dir(s, t) = NONE
                      /\ Held(s, t) = NONE
  BY <1>2 DEF NamesInit, NoLocals, Dir, Held
<1>5. s \in Shots
  <2>1. NoEntries \in [Pos -> Entry \cup {NONE}] /\ FreeNode \in Inode /\ NoLocals \in Frames
    BY FreeType DEF NoEntries
  <2>2. [kind |-> "dir", nlinks |-> 2, parent |-> Root, entry |-> NoEntries] \in Inode
    BY <2>1, Distinct DEF Inode
  <2>3. PICK root \in Inode : root =
           [kind |-> "dir", nlinks |-> 2, parent |-> Root, entry |-> NoEntries]
    BY <2>2
  <2>4. node = [n \in Node |-> IF n = Root THEN root ELSE FreeNode]
    BY <2>3 DEF NamesInit
  <2>5. node \in [Node -> Inode]
    BY <2>1, <2>4
  <2>6. pc \in [Task -> Places] /\ local \in [Task -> Frames] /\ odd \subseteq Oddities
    BY <2>1 DEF NamesInit, Places
  <2> QED BY <1>1, <2>5, <2>6 DEF Now, Shots
<1>6. \A n \in Node : Ents(s, n) = {} /\ ~Named(s, n)
  BY <1>3 DEF Ents, Named, NoEntries
<1>7. \A t \in Task : SelfOK(s, t) /\ HoldsOK(s, t)
  BY <1>4 DEF SelfOK, HoldsOK
<1>8. AloneOK(s)
  BY <1>4 DEF AloneOK
<1>9. \A n \in Node : ShapeOK(s, n) /\ KeptOK(s, n)
  BY <1>3, <1>6 DEF ShapeOK, KeptOK
<1>10. ASSUME NEW n \in Node PROVE LinksOK(s, n)
  <2>1. CASE n = Root
    <3>1. Sons(s, Root) = {} /\ Leaving(s, Root) = {}
      BY <1>4, <1>6 DEF Sons, Leaving
    <3>2. DirLinks(s, Root)
      BY <1>3, <3>1, FS_EmptySet DEF DirLinks
    <3> QED BY <1>3, <2>1, <3>2 DEF LinksOK
  <2>2. CASE n # Root
    BY <1>3, <2>2 DEF LinksOK
  <2> QED BY <2>1, <2>2
<1> QED BY <1>1, <1>5, <1>7, <1>8, <1>9, <1>10 DEF NamesGood, NamesInv

LEMMA NamesStepOK == ASSUME FewNames, NamesInv, [NamesNext]_namesVars PROVE NamesInv'
<1>1. CASE UNCHANGED namesVars
  <2>1. Now' = Now /\ odd' = odd
    BY <1>1 DEF namesVars, Now
  <2>2. PICK s : s = Now
    OBVIOUS
  <2>3. PICK r : r = Now'
    OBVIOUS
  <2>4. Now' \in Shots /\ ("stale" \notin odd' => NamesGood(r))
    BY <2>1, <2>2, <2>3 DEF NamesInv
  <2> QED BY <2>3, <2>4 DEF NamesInv
<1>2. CASE NamesNext
  <2>1. PICK s : s = Now
    OBVIOUS
  <2>2. PICK r : r = Now'
    OBVIOUS
  <2>3. ~Over /\ "stale" \notin odd
    BY <1>2 DEF NamesNext, Over
  <2>4. Moves(s, r)
    BY <2>1, <2>2, <2>3 DEF Moves, NamesInv
  <2>5. PICK t \in Task : Step(t)
    BY <1>2 DEF NamesNext
  <2>6. r \in Shots /\ ("stale" \notin r.odd => NamesGood(r))
    <3>1. NamesGood(r) => r \in Shots
      BY DEF NamesGood
    <3>2. CASE \E op \in Creating \cup Removing, name \in Name : Start(t, op, name)
      <4>1. PICK op \in Calling, name \in Name : Start(t, op, name)
        BY <3>2 DEF Calling
      <4> QED BY <2>4, <3>1, <4>1, StartGood
    <3>3. CASE \E p \in Pos : Walk(t, p) \/ OpenOld(t, p) \/ AddEntry(t, p) \/ FindOld(t, p)
      BY <2>4, <3>1, <3>3, WalkGood, OpenOldGood, AddEntryGood, FindOldGood
    <3>4. CASE \E n \in Node : OpenNew(t, n) \/ Mknod(t, n) \/ Mkdir(t, n)
      BY <2>4, <3>1, <3>4, NewGood
    <3>5. CASE \E p \in Pos, name \in Name : LinkOld(t, p, name)
      BY <2>4, <3>1, <3>5, LinkOldGood
    <3>6. CASE \/ WalkUp(t) \/ Fail(t) \/ Close(t) \/ LinkNew(t) \/ AddFails(t) \/ Linked(t)
               \/ Refuse(t) \/ Rmdir(t) \/ NotEmpty(t) \/ Removed(t)
      BY <2>4, <3>1, <3>6, RestGood
    <3>7. CASE ClearFile(t)
      BY <2>4, <3>7, ClearFileGood
    <3>8. CASE ClearDir(t)
      BY <2>3, <2>4, <3>8, ClearDirGood
    <3> QED BY <2>5, <3>2, <3>3, <3>4, <3>5, <3>6, <3>7, <3>8 DEF Step
  <2>7. r.odd = odd'
    BY <2>2 DEF Now
  <2> QED BY <2>2, <2>6, <2>7 DEF NamesInv
<1> QED BY <1>1, <1>2

LEMMA NamesInvariant == FewNames => (NamesSpec => []NamesInv)
<1> SUFFICES ASSUME FewNames PROVE NamesSpec => []NamesInv
  OBVIOUS
<1>1. NamesInit => NamesInv
  BY NamesInitOK
<1>2. NamesInv /\ [NamesNext]_namesVars => NamesInv'
  BY NamesStepOK
<1> QED BY <1>1, <1>2, PTL DEF NamesSpec

LEMMA Counted ==
    ASSUME NEW s, s = Now, NEW n \in Node
    PROVE  /\ Entries(n) = Ents(s, n) /\ (Entries(n) # {} <=> Named(s, n))
           /\ Holders(n) = Has(s, n) /\ (n \in Live <=> s.node[n].kind # "free")
           /\ Due("linked", n) = Cardinality(Linking(s, n))
           /\ Due("cleared", n) = Cardinality(Clearing(s, n))
           /\ Children(n) = Sons(s, n)
           /\ {t \in Task : pc[t] = "cleared" /\ dir(t) = n /\ local[t].op = "rmdir"}
                 = Leaving(s, n)
<1>1. s.node = node /\ s.pc = pc /\ s.local = local
  BY DEF Now
<1>2. \A m \in Node : Entries(m) = Ents(s, m) /\ (m \in Live <=> s.node[m].kind # "free")
  BY <1>1 DEF Entries, Ents, Live
<1>3. \A t \in Task : held(t) = Held(s, t) /\ dir(t) = Dir(s, t) /\ local[t].op = Op(s, t)
  BY <1>1 DEF held, dir, Held, Dir, Op
<1>4. {t \in Task : pc[t] = "linked" /\ held(t) = n /\ n # NONE} = Linking(s, n)
      /\ {t \in Task : pc[t] = "cleared" /\ held(t) = n /\ n # NONE} = Clearing(s, n)
  BY <1>1, <1>3, Distinct DEF Linking, Clearing
<1>5. {t \in Task : pc[t] = "cleared" /\ dir(t) = n /\ local[t].op = "rmdir"} = Leaving(s, n)
  BY <1>1, <1>3 DEF Leaving
<1>6. Children(n) = Sons(s, n)
  BY <1>1, <1>2 DEF Children, Sons, Named, Live
<1>7. Holders(n) = Has(s, n)
  BY <1>3 DEF Holders, Has
<1> QED BY <1>2, <1>4, <1>5, <1>6, <1>7 DEF Due, Named

(* An entry keeps its inode, unless two calls that removed it collided: it *)
(* leads to no freed inode, and the inode has a link (sys_unlink,          *)
(* sys_rmdir, sys_link, add_entry).                                        *)
THEOREM EntriesKeepInodes == FewNames => (NamesSpec => []NamedIsKept)
<1> SUFFICES ASSUME FewNames PROVE NamesSpec => []NamedIsKept
  OBVIOUS
<1>1. NamesInv => NamedIsKept
  <2> SUFFICES ASSUME NamesInv PROVE NamedIsKept
    OBVIOUS
  <2>1. NamesTypeOK
    BY DEF NamesInv, Now, Shots, NamesTypeOK, Inode, Entry, Places
  <2>2. ASSUME "stale" \notin odd, NEW n \in Node, Entries(n) # {}
        PROVE  n \in Live /\ node[n].nlinks + Due("linked", n) > 0
    <3>1. PICK s : s = Now
      OBVIOUS
    <3>2. NamesGood(s) /\ s \in Shots /\ ShapeOK(s, n) /\ LinksOK(s, n) /\ s.node = node
      BY <2>2, <3>1 DEF NamesInv, NamesGood, Now
    <3>3. Named(s, n) /\ (n \in Live <=> s.node[n].kind # "free")
          /\ Due("linked", n) = Cardinality(Linking(s, n))
      BY <2>2, <3>1, Counted
    <3>4. s.node[n].kind \in {"file", "dir"} /\ s.node[n].nlinks \in Nat
      BY <3>2, <3>3, ShotFacts DEF ShapeOK
    <3>5. /\ Cardinality(Linking(s, n)) \in Nat /\ Cardinality(Clearing(s, n)) \in Nat
          /\ Cardinality(Making(s, n)) \in Nat /\ IsFiniteSet(Ents(s, n))
          /\ Cardinality(Sons(s, n)) \in Nat /\ Cardinality(Leaving(s, n)) \in Nat
      BY <3>2, Counts
    <3>6. Cardinality(Ents(s, n)) \in Nat /\ Cardinality(Ents(s, n)) # 0
      BY <3>3, <3>5, None0 DEF Named
    <3>7. CASE s.node[n].kind = "dir"
      <4>1. s.node[n].nlinks > 0
        BY <3>2, <3>3, <3>5, <3>7 DEF LinksOK, DirLinks
      <4> QED BY <3>2, <3>3, <3>4, <3>5, <4>1
    <3>8. CASE s.node[n].kind = "file"
      <4>1. PICK k : Extra(s, n, k)
        BY <3>2, <3>8 DEF LinksOK, FileLinks
      <4>2. k \in Nat
        BY <3>2, <4>1, Counts DEF Extra
      <4>3. PICK e \in Nat, c \in Nat, w \in Nat, l \in Nat, x \in Nat :
               /\ e = Cardinality(Ents(s, n)) /\ c = Cardinality(Clearing(s, n))
               /\ w = Cardinality(Making(s, n)) /\ l = Cardinality(Linking(s, n))
               /\ x = s.node[n].nlinks /\ e # 0
        BY <3>4, <3>5, <3>6
      <4>4. PICK j \in Nat : j = k
        BY <4>2
      <4>5. (x + l) % 256 = e + c + w + j /\ e + c + w + j > 0
        <5>1. (x + l) % 256 = e + c + w + j
          BY <4>1, <4>3, <4>4 DEF Extra
        <5>2. e > 0
          BY <4>3
        <5>3. e + c + w + j > 0
          BY <5>2
        <5> QED BY <5>1, <5>3
      <4>6. x + l # 0
        <5>1. 0 % 256 = 0
          OBVIOUS
        <5> QED BY <4>5, <5>1
      <4> QED BY <3>2, <3>3, <3>4, <3>5, <4>3, <4>6
    <3> QED BY <3>4, <3>7, <3>8
  <2> QED BY <2>1, <2>2 DEF NamedIsKept
<1>2. NamesSpec => []NamesInv
  BY NamesInvariant
<1> QED BY <1>1, <1>2, PTL

(* i_nlinks is exact: the names of a file, and 2 plus the directories in a *)
(* directory, whoever else is at work in it (sys_link, sys_unlink,         *)
(* sys_mkdir, sys_rmdir), as long as no two calls have collided.           *)
THEOREM LinkCountsAreExact == FewNames => (NamesSpec => []LinksExact)
<1> SUFFICES ASSUME FewNames PROVE NamesSpec => []LinksExact
  OBVIOUS
<1>1. NamesInv => LinksExact
  <2> SUFFICES ASSUME NamesInv, odd \subseteq {"twice"}, NEW n \in Live
               PROVE  IF node[n].kind = "file"
                      THEN \/ (node[n].nlinks + Due("linked", n)) % 256
                                = Cardinality(Entries(n)) + Due("cleared", n)
                           \/ Due("add_entry", n) > 0
                      ELSE \/ node[n].nlinks = Cardinality(Children(n)) + 2
                                + Cardinality({t \in Task : pc[t] = "cleared" /\ dir(t) = n
                                                              /\ local[t].op = "rmdir"})
                           \/ node[n].nlinks = 0 /\ Entries(n) = {} /\ Children(n) = {}
    BY DEF LinksExact
  <2>1. PICK s : s = Now
    OBVIOUS
  <2>2. n \in Node /\ node[n].kind # "free"
    BY DEF Live
  <2>3. /\ NamesGood(s) /\ s \in Shots /\ ShapeOK(s, n) /\ LinksOK(s, n) /\ s.node = node
        /\ s.odd = odd /\ s.pc = pc /\ s.local = local
    BY <2>1, <2>2 DEF NamesInv, NamesGood, Now
  <2>4. /\ Entries(n) = Ents(s, n) /\ (Entries(n) # {} <=> Named(s, n))
        /\ Due("linked", n) = Cardinality(Linking(s, n))
        /\ Due("cleared", n) = Cardinality(Clearing(s, n))
        /\ Children(n) = Sons(s, n)
        /\ {t \in Task : pc[t] = "cleared" /\ dir(t) = n /\ local[t].op = "rmdir"}
              = Leaving(s, n)
    BY <2>1, <2>2, Counted
  <2>5. CASE node[n].kind = "file"
    <3>1. PICK k : Extra(s, n, k)
      BY <2>3, <2>5 DEF LinksOK, FileLinks
    <3>2. k = 0
      BY <2>3, <3>1 DEF Extra
    <3>3. Cardinality(Ents(s, n)) \in Nat /\ Cardinality(Clearing(s, n)) \in Nat
      BY <2>2, <2>3, Counts
    <3>4. CASE Making(s, n) = {}
      <4>1. Cardinality(Making(s, n)) = 0
        BY <3>4, FS_EmptySet
      <4>2. (s.node[n].nlinks + Cardinality(Linking(s, n))) % 256
               = Cardinality(Ents(s, n)) + Cardinality(Clearing(s, n))
        BY <3>1, <3>2, <3>3, <4>1 DEF Extra
      <4> QED BY <2>3, <2>4, <2>5, <4>2
    <3>5. CASE Making(s, n) # {}
      <4>1. PICK B : B = {t \in Task : pc[t] = "add_entry" /\ held(t) = n /\ n # NONE}
        OBVIOUS
      <4>2. Making(s, n) \subseteq B /\ B \subseteq Task
        BY <2>2, <2>3, <4>1, Distinct DEF Making, Held, held
      <4>3. IsFiniteSet(B) /\ B # {}
        BY <3>5, <4>2, FS_Subset DEF FewNames
      <4>4. Cardinality(B) \in Nat /\ Cardinality(B) # 0
        BY <4>3, None0
      <4>5. Due("add_entry", n) > 0
        BY <4>1, <4>4 DEF Due
      <4> QED BY <2>5, <4>5
    <3> QED BY <3>4, <3>5
  <2>6. CASE node[n].kind # "file"
    <3>1. DirLinks(s, n) /\ s.node[n].kind = "dir"
      BY <2>2, <2>3, <2>6, ShotFacts DEF LinksOK
    <3>2. ASSUME ~Named(s, n), n # Root PROVE Sons(s, n) = {}
      <4>1. s.node[n].entry = NoEntries
        BY <2>3, <3>1, <3>2 DEF ShapeOK
      <4>2. ASSUME NEW m \in Sons(s, n) PROVE FALSE
        <5>1. m \in Node \ {Root} /\ s.node[m].kind = "dir" /\ s.node[m].parent = n /\ Named(s, m)
          BY <4>2 DEF Sons
        <5>2. PICK e \in Ents(s, m) : TRUE
          BY <5>1 DEF Named
        <5>3. e[1] = n
          BY <2>3, <5>1, <5>2 DEF NamesGood, ShapeOK
        <5>4. e[2] \in Pos /\ s.node[e[1]].entry[e[2]] # NONE
          BY <5>2 DEF Ents
        <5> QED BY <4>1, <5>3, <5>4 DEF NoEntries
      <4> QED BY <4>2
    <3>3. CASE s.node[n].nlinks = Cardinality(Sons(s, n)) + 2 + Cardinality(Leaving(s, n))
      BY <2>3, <2>4, <2>6, <3>3
    <3>4. CASE s.node[n].nlinks = 0 /\ ~Named(s, n) /\ n # Root
      BY <2>3, <2>4, <2>6, <3>2, <3>4
    <3> QED BY <3>1, <3>3, <3>4 DEF DirLinks
  <2> QED BY <2>5, <2>6
<1>2. NamesSpec => []NamesInv
  BY NamesInvariant
<1> QED BY <1>1, <1>2, PTL

(* Nothing is lost: an inode that is not free has a name in a directory    *)
(* that is there itself, or a call in progress or an open file holds it    *)
(* (iput, add_entry, sys_rmdir).                                           *)
THEOREM NothingIsLost == FewNames => (NamesSpec => []NoOrphan)
<1> SUFFICES ASSUME FewNames PROVE NamesSpec => []NoOrphan
  OBVIOUS
<1>1. NamesInv => NoOrphan
  <2> SUFFICES ASSUME NamesInv, odd \subseteq {"twice"}, NEW n \in Live \ {Root},
                      Holders(n) = {}
               PROVE  \E e \in Entries(n) : e[1] \in Live /\ node[e[1]].nlinks > 0
    BY DEF NoOrphan
  <2>1. PICK s : s = Now
    OBVIOUS
  <2>2. n \in Node /\ node[n].kind # "free"
    BY DEF Live
  <2>3. /\ NamesGood(s) /\ s \in Shots /\ ShapeOK(s, n) /\ LinksOK(s, n) /\ KeptOK(s, n)
        /\ s.node = node /\ s.odd = odd
    BY <2>1, <2>2 DEF NamesInv, NamesGood, Now
  <2>4. Entries(n) = Ents(s, n) /\ Holders(n) = Has(s, n)
    BY <2>1, <2>2, Counted
  <2>5. \A t \in Task : Held(s, t) # n
    BY <2>4 DEF Has
  <2>6. s.node[n].nlinks # 0 /\ s.node[n].nlinks \in Nat
    BY <2>2, <2>3, <2>4, ShotFacts DEF KeptOK
  <2>7. Named(s, n)
    <3>1. CASE s.node[n].kind = "dir"
      BY <2>3, <2>5, <2>6, <3>1 DEF KeptOK
    <3>2. CASE s.node[n].kind = "file"
      <4>1. PICK k : Extra(s, n, k)
        BY <2>3, <3>2 DEF LinksOK, FileLinks
      <4>2. k = 0
        BY <2>3, <4>1 DEF Extra
      <4>3. Linking(s, n) = {} /\ Clearing(s, n) = {} /\ Making(s, n) = {}
        BY <2>5 DEF Linking, Clearing, Making
      <4>4. Cardinality(Linking(s, n)) = 0 /\ Cardinality(Clearing(s, n)) = 0
            /\ Cardinality(Making(s, n)) = 0
        BY <4>3, FS_EmptySet
      <4>5. PICK x \in Nat : x = s.node[n].nlinks /\ x < 256
        BY <2>3, <2>6, <3>2 DEF ShapeOK
      <4>6. (x + 0) % 256 = Cardinality(Ents(s, n)) + 0 + 0 + 0
        BY <4>1, <4>2, <4>4, <4>5 DEF Extra
      <4>7. Cardinality(Ents(s, n)) # 0
        <5>1. x % 256 = x
          BY <4>5, ModSmall
        <5>2. x + 0 = x
          OBVIOUS
        <5>3. IsFiniteSet(Ents(s, n)) /\ Cardinality(Ents(s, n)) \in Nat
          BY <2>2, <2>3, Counts
        <5> QED BY <2>6, <4>5, <4>6, <5>1, <5>2, <5>3
      <4> QED BY <4>7, FS_EmptySet DEF Named
    <3> QED BY <2>2, <2>3, <3>1, <3>2, ShotFacts
  <2>8. PICK e \in Ents(s, n) : TRUE
    BY <2>7 DEF Named
  <2>9. PICK d \in Node, p \in Pos : d = e[1] /\ p = e[2]
    BY <2>8 DEF Ents
  <2>10. s.node[d].entry[p] # NONE
    BY <2>8, <2>9 DEF Ents
  <2>11. s.node[d].kind = "dir" /\ (d = Root \/ Named(s, d))
    BY <2>3, <2>10, DirInUse
  <2>12. s.node[d].nlinks > 0
    <3>1. s.node[d].nlinks >= 2 + Cardinality(Leaving(s, d)) + Cardinality(Sons(s, d))
          /\ s.node[d].nlinks \in Nat /\ Cardinality(Leaving(s, d)) \in Nat
          /\ Cardinality(Sons(s, d)) \in Nat
      BY <2>3, <2>11, DirUsed
    <3> QED BY <3>1
  <2> QED BY <2>3, <2>4, <2>8, <2>9, <2>11, <2>12 DEF Live
<1>2. NamesSpec => []NamesInv
  BY NamesInvariant
<1> QED BY <1>1, <1>2, PTL
===============================================================================
