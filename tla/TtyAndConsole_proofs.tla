------------------------ MODULE TtyAndConsole_proofs ------------------------
(***************************************************************************)
(* The queues, the sleepers and the alarms of a terminal, for any tasks,   *)
(* modes and sizes of the queues, and the console, for any size of the     *)
(* screen, of video memory and of a tab.  The two share no variable.       *)
(***************************************************************************)
EXTENDS Tty, Console, SequenceTheorems, FiniteSetTheorems, WellFoundedInduction,
        NaturalsInduction, TLAPS


(* Ends of line in a sequence of characters. *)
EndsOf(s) == {i \in DOMAIN s : s[i] \in Ends}
NEnds(s)  == Cardinality(EndsOf(s))

LEMMA EndsFinite ==
    ASSUME NEW S, NEW s \in Seq(S)
    PROVE  IsFiniteSet(EndsOf(s)) /\ NEnds(s) \in 0 .. Len(s)
<1>1. DOMAIN s = 1 .. Len(s) /\ Len(s) \in Nat
  BY LenProperties
<1>2. IsFiniteSet(1 .. Len(s)) /\ Cardinality(1 .. Len(s)) = Len(s)
  BY <1>1, FS_Interval
<1>3. EndsOf(s) \subseteq 1 .. Len(s)
  BY <1>1 DEF EndsOf
<1>4. IsFiniteSet(EndsOf(s)) /\ Cardinality(EndsOf(s)) <= Len(s)
  BY <1>2, <1>3, FS_Subset, Zenon
<1> QED BY <1>1, <1>4, FS_CardinalityType DEF NEnds

(* The counts of a sequence with one more character, with one less, and *)
(* of a part of it. *)
LEMMA EndsAppend ==
    ASSUME NEW S, NEW s \in Seq(S), NEW c \in S
    PROVE  NEnds(Append(s, c)) = NEnds(s) + (IF c \in Ends THEN 1 ELSE 0)
<1> DEFINE n == Len(s)
<1>1. /\ DOMAIN s = 1 .. n /\ n \in Nat
      /\ DOMAIN Append(s, c) = 1 .. n + 1
      /\ \A i \in 1 .. n : Append(s, c)[i] = s[i]
      /\ Append(s, c)[n + 1] = c
  BY LenProperties, AppendProperties
<1>2. IsFiniteSet(EndsOf(s)) /\ n + 1 \notin EndsOf(s) /\ NEnds(s) \in Nat
  <2>1. IsFiniteSet(EndsOf(s)) /\ NEnds(s) \in 0 .. n
    BY EndsFinite
  <2>2. n + 1 \notin EndsOf(s)
    BY <1>1 DEF EndsOf
  <2> QED BY <1>1, <2>1, <2>2
<1>3. CASE c \in Ends
  <2>1. EndsOf(Append(s, c)) = EndsOf(s) \cup {n + 1}
    BY <1>1, <1>3 DEF EndsOf
  <2>2. Cardinality(EndsOf(s) \cup {n + 1}) = Cardinality(EndsOf(s)) + 1
    BY <1>2, FS_AddElement
  <2> QED BY <1>3, <2>1, <2>2 DEF NEnds
<1>4. CASE c \notin Ends
  <2>1. EndsOf(Append(s, c)) = EndsOf(s)
    BY <1>1, <1>4 DEF EndsOf
  <2> QED BY <1>2, <1>4, <2>1 DEF NEnds
<1> QED BY <1>3, <1>4

LEMMA EndsTail ==
    ASSUME NEW S, NEW s \in Seq(S), s # <<>>
    PROVE  /\ NEnds(s) = NEnds(Tail(s)) + (IF Head(s) \in Ends THEN 1 ELSE 0)
           /\ NEnds(Tail(s)) \in Nat
<1> DEFINE n == Len(s)
           t == Tail(s)
           B == EndsOf(s) \ {1}
<1>1. /\ DOMAIN s = 1 .. n /\ n \in Nat \ {0} /\ Head(s) = s[1]
      /\ t \in Seq(S) /\ DOMAIN t = 1 .. n - 1
      /\ \A i \in 1 .. n - 1 : t[i] = s[i + 1]
  BY LenProperties, HeadTailProperties, EmptySeq
<1>2. IsFiniteSet(EndsOf(s)) /\ IsFiniteSet(EndsOf(t)) /\ NEnds(t) \in Nat
  <2>1. /\ IsFiniteSet(EndsOf(s))
        /\ IsFiniteSet(EndsOf(t)) /\ NEnds(t) \in 0 .. Len(t) /\ Len(t) \in Nat
    BY <1>1, EndsFinite, LenProperties, Zenon
  <2> QED BY <2>1
<1>3. Cardinality(B) = NEnds(t) /\ IsFiniteSet(B)
  <2> DEFINE f == [i \in EndsOf(t) |-> i + 1]
  <2>1. f \in Bijection(EndsOf(t), B)
    <3>1. f \in Surjection(EndsOf(t), B)
      <4>1. \A i \in EndsOf(t) : f[i] \in B
        BY <1>1 DEF EndsOf
      <4>2. ASSUME NEW j \in B PROVE \E i \in EndsOf(t) : f[i] = j
        <5>1. j \in 1 .. n /\ j # 1 /\ s[j] \in Ends
          BY <1>1 DEF EndsOf
        <5>2. j - 1 \in 1 .. n - 1 /\ (j - 1) + 1 = j
          BY <1>1, <5>1
        <5>3. j - 1 \in EndsOf(t)
          BY <1>1, <5>1, <5>2 DEF EndsOf
        <5> QED BY <5>2, <5>3
      <4> QED BY <4>1, <4>2 DEF Surjection
    <3>2. \A i, k \in EndsOf(t) : f[i] = f[k] => i = k
      BY <1>1 DEF EndsOf
    <3> QED BY <3>1, <3>2 DEF Bijection, Injection, Surjection, IsInjective
  <2> QED BY <1>2, <2>1, FS_Bijection DEF NEnds, ExistsBijection
<1>4. CASE Head(s) \in Ends
  <2>1. EndsOf(s) = B \cup {1} /\ 1 \notin B
    BY <1>1, <1>4 DEF EndsOf
  <2>2. Cardinality(B \cup {1}) = Cardinality(B) + 1
    BY <1>3, <2>1, FS_AddElement
  <2> QED BY <1>2, <1>3, <1>4, <2>1, <2>2 DEF NEnds
<1>5. CASE Head(s) \notin Ends
  <2>1. EndsOf(s) = B
    BY <1>1, <1>5 DEF EndsOf
  <2>2. NEnds(s) = NEnds(t)
    BY <1>3, <2>1 DEF NEnds
  <2> QED BY <1>2, <1>5, <2>2
<1> QED BY <1>2, <1>4, <1>5

(* What comes after the last end of line may be cut off. *)
LEMMA EndsPrefix ==
    ASSUME NEW S, NEW s \in Seq(S), NEW k \in 0 .. Len(s),
           \A i \in k + 1 .. Len(s) : s[i] \notin Ends
    PROVE  /\ SubSeq(s, 1, k) \in Seq(S) /\ Len(SubSeq(s, 1, k)) = k
           /\ NEnds(SubSeq(s, 1, k)) = NEnds(s)
           /\ \A i \in 1 .. k : SubSeq(s, 1, k)[i] = s[i]
<1>1. DOMAIN s = 1 .. Len(s) /\ Len(s) \in Nat /\ \A i \in 1 .. Len(s) : s[i] \in S
  BY LenProperties, ElementOfSeq
<1>2. /\ SubSeq(s, 1, k) \in Seq(S) /\ Len(SubSeq(s, 1, k)) = k
      /\ \A i \in 1 .. k : SubSeq(s, 1, k)[i] = s[i]
  BY <1>1, SubSeqProperties
<1>3. DOMAIN SubSeq(s, 1, k) = 1 .. k
  BY <1>2, LenProperties
<1>4. EndsOf(SubSeq(s, 1, k)) = EndsOf(s)
  BY <1>1, <1>2, <1>3 DEF EndsOf
<1> QED BY <1>2, <1>4 DEF NEnds

(* Where the line being typed begins. *)
LEMMA MaxOfInterval ==
    ASSUME NEW n \in Nat, NEW I \in SUBSET (1 .. n), I # {}
    PROVE  Max(I) \in I /\ \A i \in I : i <= Max(I)
<1> DEFINE T == {n - i : i \in I}
           Smaller == OpToRel(<, Nat)
<1>1. IsWellFoundedOn(Smaller, Nat)
  BY NatLessThanWellFounded, Zenon
<1>2. \A i, j \in Nat : j < i => <<j, i>> \in Smaller
  BY Zenon DEF OpToRel
<1> HIDE DEF Smaller
<1>3. T \subseteq Nat /\ T # {}
  <2>1. \A i \in I : n - i \in Nat
    OBVIOUS
  <2> QED BY <2>1
<1>4. PICK t \in T : \A u \in T : ~(<<u, t>> \in Smaller)
  <2> HIDE DEF T
  <2> QED BY <1>1, <1>3, WFMin, Zenon
<1>5. PICK m \in I : t = n - m
  BY <1>4
<1>6. ASSUME NEW i \in I PROVE m >= i
  <2>1. n - i \in T
    OBVIOUS
  <2>2. n - i \in Nat /\ n - m \in Nat
    <3>1. i \in 1 .. n /\ m \in 1 .. n
      OBVIOUS
    <3> HIDE DEF T
    <3> QED BY <3>1
  <2>3. ~(n - i < n - m)
    BY <1>2, <1>4, <1>5, <2>1, <2>2
  <2> QED BY <2>2, <2>3
<1>7. Max(I) \in I /\ \A i \in I : Max(I) >= i
  BY <1>6 DEF Max
<1> QED BY <1>7

LEMMA LineStart ==
    ASSUME NEW S, sq \in Seq(S)
    PROVE  Tail0 \in 0 .. Len(sq) /\ \A i \in Tail0 + 1 .. Len(sq) : sq[i] \notin Ends
<1> DEFINE I == {i \in 1 .. Len(sq) : sq[i] \in Ends}
<1>1. Len(sq) \in Nat /\ I \in SUBSET (1 .. Len(sq))
  BY LenProperties
<1>2. Tail0 = IF I # {} THEN Max(I) ELSE 0
  BY DEF Tail0, SelectLastInSeq
<1>3. CASE I = {}
  BY <1>1, <1>2, <1>3
<1>4. CASE I # {}
  <2>1. Max(I) \in I /\ \A i \in I : i <= Max(I)
    BY <1>1, <1>4, MaxOfInterval
  <2>2. Tail0 \in I /\ \A i \in I : i <= Tail0
    BY <1>2, <1>4, <2>1
  <2>3. ASSUME NEW i \in Tail0 + 1 .. Len(sq), sq[i] \in Ends PROVE FALSE
    <3>1. Tail0 \in 1 .. Len(sq)
      BY <2>2
    <3>2. i \in 1 .. Len(sq) /\ i > Tail0
      BY <1>1, <3>1
    <3> QED BY <1>1, <2>2, <2>3, <3>1, <3>2
  <2> QED BY <1>1, <2>2, <2>3
<1> QED BY <1>3, <1>4
-----------------------------------------------------------------------------
(* The invariant. *)
Chars  == Typed \cup {"a"}
Points == {"user", "rtest", "rget", "rinc", "rmore", "rend",
           "wtest", "wfull", "wput", "winc", "cnext", "cinc"}
Job    == [left : Int, got : Int, c : Chars \cup {"query", None}, n : Int,
           min : Nat, timed : BOOLEAN, flag : BOOLEAN, old : {None, "own", "read"}]

Types ==
    /\ kind \in Kinds /\ mode \in Modes /\ Allowed(mode)
    /\ rq \in Seq(Chars) /\ sq \in Seq(Chars)
    /\ wq \in Seq(Chars \cup {"query"})
    /\ irq \in BOOLEAN /\ thre \in BOOLEAN

TaskTypes == pc \in [Task -> Points] /\ job \in [Task -> Job]

(* What a task does without giving up the processor. *)
Held    == {"rget", "rinc", "rmore", "rend", "wput", "winc", "cnext", "cinc"}
Sending == {"wput", "winc", "cnext", "cinc"}

CpuOK ==
    /\ cpu # None => pc[cpu] # "user"
    /\ \A p \in Task :
        /\ pc[p] \in Held => cpu = p
        /\ p \in asleep => pc[p] \in {"rtest", "wfull"} /\ cpu # p

(* A reader that has tested finds the character it tested for. *)
ReadOK ==
    \A p \in Task :
        /\ pc[p] \in {"rget", "rinc"} =>
              /\ sq # <<>>
              /\ irq => ToSet(rq) \cap {"erase", "kill"} = {}
        /\ pc[p] = "rinc" => job[p].c = Head(sq)

(* A writer has room for its character, and con_write as many characters   *)
(* as it has counted.                                                      *)
WriteOK ==
    \A p \in Task :
        /\ pc[p] = "wfull" => kind = "serial"
        /\ kind = "serial" => job[p].n = 0
        /\ pc[p] = "winc" =>
              Len(wq) < Cap /\ ~(irq /\ mode.echo) /\ job[p].c # None
        /\ pc[p] = "cnext" /\ kind = "console" => job[p].n = Len(wq)
        /\ pc[p] = "cnext" /\ irq /\ mode.echo => wq = <<>>
        /\ pc[p] = "cinc" =>
              /\ kind = "console" /\ wq # <<>>
              /\ Len(wq) = job[p].n + 1 /\ job[p].c = Head(wq)
              /\ ~(irq /\ mode.echo)

(* While a query is on its way it is the last of what its task writes, and *)
(* no other character comes.                                               *)
QueryOK ==
    \A i \in 1 .. Len(wq) : wq[i] = "query" =>
        /\ i = Len(wq) /\ rq = <<>> /\ ~irq /\ kind = "console"
        /\ \E p \in Task : \/ pc[p] \in {"cnext", "cinc"}
                           \/ pc[p] = "wput" /\ job[p].left = 0

HoldOK ==
    \A p \in Task : job[p].c = "query" =>
        /\ rq = <<>> /\ ~irq /\ kind = "console"
        /\ pc[p] = "cinc" \/ (pc[p] = "winc" /\ job[p].left = 1)

(* What is in write_q is being written out.                                *)
SendOK ==
    /\ thre => kind = "serial"
    /\ kind = "console" /\ (\A p \in Task : pc[p] \notin Sending) => wq = <<>>
    /\ kind = "serial" /\ (\A p \in Task : pc[p] \notin {"wput", "winc"}) /\ wq # <<>> =>
          thre

Sound ==
    /\ ~broken /\ lines = NEnds(sq)
    /\ Len(rq) <= Cap /\ Len(sq) <= Cap /\ Len(wq) <= Cap

(* Nobody sleeps for what has happened. *)
SleepOK ==
    \A p \in asleep : signal[p] = {} =>
        /\ pc[p] = "rtest" /\ ~irq => sq = <<>>
        /\ pc[p] = "wfull" => kind = "serial" /\ thre

IInv == Types /\ TaskTypes /\ TypeOK /\ CpuOK /\ ReadOK /\ WriteOK /\ QueryOK
          /\ HoldOK /\ SendOK /\ Sound /\ SleepOK

(* Interrupts and tasks do not meet in the places that Quiet is about. *)
NoRaces == Races \cap {"erase", "echo", "full", "query"} = {}

(* The record of a call. *)
LEMMA NoJobTyped == NoJob \in Job
  BY DEF NoJob, Job, None

(* Fields of a job that steps change. *)
LEMMA JobChanges ==
    ASSUME NEW j \in Job
    PROVE  /\ \A n \in Int : [j EXCEPT !.n = n] \in Job
           /\ \A f \in BOOLEAN : [j EXCEPT !.flag = f] \in Job
           /\ \A c \in Chars \cup {"query", None} :
                 /\ [j EXCEPT !.c = c] \in Job
                 /\ \A l \in Int : [j EXCEPT !.left = l, !.c = c] \in Job
                 /\ \A n \in Int : [j EXCEPT !.c = c, !.n = n] \in Job
                 /\ \A l \in Int, g \in Int :
                       [j EXCEPT !.left = l, !.got = g, !.c = c] \in Job
  BY DEF Job

(* What is known of a sequence of characters. *)
LEMMA Queue ==
    ASSUME NEW S, NEW s \in Seq(S)
    PROVE  /\ Len(s) \in Nat /\ (s = <<>> <=> Len(s) = 0)
           /\ \A i \in 1 .. Len(s) : s[i] \in S
           /\ ToSet(s) = {s[i] : i \in 1 .. Len(s)}
           /\ s # <<>> => /\ Head(s) = s[1] /\ Tail(s) \in Seq(S)
                          /\ Len(Tail(s)) = Len(s) - 1
                          /\ \A i \in 1 .. Len(s) - 1 : Tail(s)[i] = s[i + 1]
                          /\ ToSet(Tail(s)) \subseteq ToSet(s)
           /\ \A c \in S : /\ Append(s, c) \in Seq(S) /\ Append(s, c) # <<>>
                           /\ Len(Append(s, c)) = Len(s) + 1
                           /\ \A i \in 1 .. Len(s) : Append(s, c)[i] = s[i]
                           /\ Append(s, c)[Len(s) + 1] = c
                           /\ ToSet(Append(s, c)) = ToSet(s) \cup {c}
                           /\ s # <<>> => Head(Append(s, c)) = Head(s)
<1>1. /\ Len(s) \in Nat /\ (s = <<>> <=> Len(s) = 0) /\ DOMAIN s = 1 .. Len(s)
      /\ \A i \in 1 .. Len(s) : s[i] \in S
  BY LenProperties, EmptySeq, ElementOfSeq
<1>2. ToSet(s) = {s[i] : i \in 1 .. Len(s)}
  BY <1>1 DEF ToSet
<1>3. ASSUME s # <<>>
      PROVE  /\ Head(s) = s[1] /\ Tail(s) \in Seq(S)
             /\ Len(Tail(s)) = Len(s) - 1
             /\ \A i \in 1 .. Len(s) - 1 : Tail(s)[i] = s[i + 1]
             /\ ToSet(Tail(s)) \subseteq ToSet(s)
  <2>1. /\ Head(s) = s[1] /\ Tail(s) \in Seq(S)
        /\ Len(Tail(s)) = Len(s) - 1
        /\ \A i \in 1 .. Len(s) - 1 : Tail(s)[i] = s[i + 1]
    BY <1>1, <1>3, HeadTailProperties
  <2>2. DOMAIN Tail(s) = 1 .. Len(s) - 1
    BY <2>1, LenProperties
  <2>3. ASSUME NEW i \in 1 .. Len(s) - 1 PROVE Tail(s)[i] \in {s[j] : j \in 1 .. Len(s)}
    BY <1>1, <2>1
  <2> QED BY <1>2, <2>1, <2>2, <2>3 DEF ToSet
<1>4. ASSUME NEW c \in S
      PROVE  /\ Append(s, c) \in Seq(S) /\ Append(s, c) # <<>>
             /\ Len(Append(s, c)) = Len(s) + 1
             /\ \A i \in 1 .. Len(s) : Append(s, c)[i] = s[i]
             /\ Append(s, c)[Len(s) + 1] = c
             /\ ToSet(Append(s, c)) = ToSet(s) \cup {c}
             /\ s # <<>> => Head(Append(s, c)) = Head(s)
  <2> DEFINE a == Append(s, c)
  <2>1. /\ a \in Seq(S) /\ a # <<>> /\ Len(a) = Len(s) + 1
        /\ \A i \in 1 .. Len(s) : a[i] = s[i]
        /\ a[Len(s) + 1] = c
    BY AppendProperties
  <2>2. DOMAIN a = 1 .. Len(s) + 1 /\ Head(a) = a[1]
    BY <2>1, LenProperties, HeadTailProperties
  <2> HIDE DEF a
  <2>3. ToSet(a) = ToSet(s) \cup {c}
    <3>1. \A i \in 1 .. Len(s) + 1 : a[i] \in ToSet(s) \cup {c}
      BY <1>1, <1>2, <2>1
    <3>2. \A i \in 1 .. Len(s) : s[i] \in ToSet(a)
      BY <1>1, <2>1, <2>2 DEF ToSet
    <3>3. c \in ToSet(a)
      BY <1>1, <2>1, <2>2 DEF ToSet
    <3> QED BY <1>2, <2>2, <3>1, <3>2, <3>3 DEF ToSet
  <2>4. s # <<>> => Head(a) = Head(s)
    BY <1>1, <1>3, <2>1, <2>2
  <2> QED BY <2>1, <2>3, <2>4 DEF a
<1> QED BY <1>1, <1>2, <1>3, <1>4

(* Every operation keeps the invariant: the interrupts ... *)
LEMMA ArrivesKeeps ==
    ASSUME NoRaces, IInv, NEW c \in Typed, Arrives(c)
    PROVE  IInv'
<1> USE TtyAssumption, NoneAssumption DEF IInv
<1>1. /\ ~irq
      /\ irq'
      /\ rq' \in Seq(Chars)
      /\ rq' = rq \/ ToSet(rq') = ToSet(rq) \cup {c}
      /\ ToSet(rq) \subseteq ToSet(rq')
      /\ \A i \in 1 .. Len(wq) : wq[i] # "query"
      /\ \A p \in Task : job[p].c # "query"
      /\ \A p \in Task : pc[p] \in {"winc", "cnext", "cinc"} => ~mode.echo
      /\ \A p \in Task :
            pc[p] \in {"rget", "rinc"} => ToSet(rq') \cap {"erase", "kill"} = {}
      /\ UNCHANGED <<kind, mode, sq, wq, lines, thre, broken, pc, cpu, asleep,
                     signal, alarm, job>>
  <2>1. rq \in Seq(Chars) /\ wq \in Seq(Chars \cup {"query"}) /\ c \in Chars
    BY DEF Types, Chars
  <2>2. /\ rq' = rq \/ rq' = Append(rq, c)
        /\ ~irq /\ irq' /\ Quiet(c)
        /\ UNCHANGED <<kind, mode, sq, wq, lines, thre, broken, pc, cpu, asleep,
                       signal, alarm, job>>
    BY DEF Arrives
  <2>3. /\ rq' \in Seq(Chars) /\ ToSet(rq) \subseteq ToSet(rq')
        /\ rq' = rq \/ ToSet(rq') = ToSet(rq) \cup {c}
    <3>1. /\ Append(rq, c) \in Seq(Chars)
          /\ ToSet(Append(rq, c)) = ToSet(rq) \cup {c}
      BY <2>1, Queue
    <3> QED BY <2>1, <2>2, <3>1
  <2>4. ToSet(wq) = {wq[i] : i \in 1 .. Len(wq)}
    BY <2>1, Queue
  <2>5. /\ \A i \in 1 .. Len(wq) : wq[i] # "query"
        /\ \A p \in Task : job[p].c # "query"
    BY <2>2, <2>4 DEF Quiet, NoRaces
  <2>6. /\ \A p \in Task : pc[p] \in {"winc", "cnext", "cinc"} => ~mode.echo
        /\ \A p \in Task :
              pc[p] \in {"rget", "rinc"} => ToSet(rq') \cap {"erase", "kill"} = {}
    BY <2>2, <2>3 DEF Quiet, NoRaces
  <2> QED BY <2>2, <2>3, <2>5, <2>6
<1>2. Types'
  BY <1>1 DEF Types, Allowed
<1>3. TaskTypes'
  BY <1>1 DEF Arrives, Quiet, queues, TaskTypes
<1>4. TypeOK'
  BY <1>1 DEF Arrives, Quiet, queues, TypeOK
<1>5. CpuOK'
  BY <1>1 DEF Arrives, Quiet, queues, CpuOK
<1>6. ReadOK'
  BY <1>1 DEF ReadOK
<1>7. WriteOK'
  BY <1>1 DEF WriteOK
<1>8. QueryOK'
  BY <1>1 DEF QueryOK
<1>9. HoldOK'
  BY <1>1 DEF HoldOK
<1>10. SendOK'
  BY <1>1 DEF Arrives, Quiet, queues, SendOK
<1>11. Sound'
  BY <1>1 DEF Arrives, Quiet, queues, Sound
<1>12. SleepOK'
  BY <1>1 DEF Arrives, Quiet, queues, SleepOK
<1> QED BY <1>2, <1>3, <1>4, <1>5, <1>6, <1>7, <1>8, <1>9, <1>10, <1>11, <1>12

LEMMA CookedKeeps ==
    ASSUME NoRaces, IInv, Cooked
    PROVE  IInv'
<1> USE TtyAssumption, NoneAssumption DEF IInv
<1>2. Types'
  BY DEF Cooked, Readers, queues, Types, Allowed
<1>3. TaskTypes'
  BY DEF Cooked, Readers, queues, TaskTypes
<1>4. TypeOK'
  BY DEF Cooked, Readers, queues, TypeOK
<1>5. CpuOK'
  BY DEF Cooked, Readers, queues, CpuOK
<1>6. ReadOK'
  BY DEF Cooked, Readers, queues, ReadOK
<1>7. WriteOK'
  BY DEF Cooked, Readers, queues, WriteOK
<1>8. QueryOK'
  BY DEF Cooked, Readers, queues, QueryOK
<1>9. HoldOK'
  BY DEF Cooked, Readers, queues, HoldOK
<1>10. SendOK'
  BY DEF Cooked, Readers, queues, SendOK
<1>11. Sound'
  BY DEF Cooked, Readers, queues, Sound
<1>12. SleepOK'
  BY DEF Cooked, Readers, queues, SleepOK, CpuOK, Held, TypeOK
<1> QED BY <1>2, <1>3, <1>4, <1>5, <1>6, <1>7, <1>8, <1>9, <1>10, <1>11, <1>12

LEMMA DispatchKeeps ==
    ASSUME NoRaces, IInv, NEW p \in Task, Dispatch(p)
    PROVE  IInv'
<1> USE TtyAssumption, NoneAssumption DEF IInv
<1>2. Types'
  BY DEF Dispatch, queues, Types, Allowed
<1>3. TaskTypes'
  BY DEF Dispatch, queues, TaskTypes
<1>4. TypeOK'
  BY DEF Dispatch, queues, TypeOK
<1>5. CpuOK'
  BY DEF Dispatch, queues, CpuOK
<1>6. ReadOK'
  BY DEF Dispatch, queues, ReadOK
<1>7. WriteOK'
  BY DEF Dispatch, queues, WriteOK
<1>8. QueryOK'
  BY DEF Dispatch, queues, QueryOK
<1>9. HoldOK'
  BY DEF Dispatch, queues, HoldOK
<1>10. SendOK'
  BY DEF Dispatch, queues, SendOK
<1>11. Sound'
  BY DEF Dispatch, queues, Sound
<1>12. SleepOK'
  BY DEF Dispatch, queues, SleepOK
<1> QED BY <1>2, <1>3, <1>4, <1>5, <1>6, <1>7, <1>8, <1>9, <1>10, <1>11, <1>12

(* ... the steps of tty_read ... *)
LEMMA ReadLeaveKeeps ==
    ASSUME NoRaces, IInv, NEW p \in Task, ReadLeave(p)
    PROVE  IInv'
<1> USE TtyAssumption, NoneAssumption DEF IInv
<1>1. /\ ~irq
      /\ pc[p] = "rtest" /\ pc' = [pc EXCEPT ![p] = "user"]
      /\ alarm' = [alarm EXCEPT ![p] = job[p].old]
      /\ job[p].old \in {None, "own", "read"}
  BY DEF ReadLeave, Finish, At, Goto, TaskTypes, Job
<1>2. Types'
  BY <1>1 DEF ReadLeave, At, Goto, Finish, queues, Types, Allowed
<1>3. TaskTypes'
  BY DEF ReadLeave, At, Goto, Finish, queues, Job, Points, None, TaskTypes,
        NoJob, TypeOK
<1>4. TypeOK'
  BY <1>1 DEF ReadLeave, At, Goto, Finish, queues, TypeOK
<1>5. CpuOK'
  BY <1>1 DEF ReadLeave, At, Goto, Finish, queues, CpuOK, Held
<1>6. ReadOK'
  BY <1>1 DEF ReadLeave, At, Goto, Finish, queues, ReadOK
<1>7. WriteOK'
  BY DEF ReadLeave, At, Goto, Finish, queues, None, Types, TaskTypes, CpuOK,
        Held, WriteOK, Job, SendOK, Sending, NoJob
<1>8. QueryOK'
  BY <1>1 DEF ReadLeave, At, Goto, Finish, queues, QueryOK
<1>9. HoldOK'
  BY <1>1 DEF ReadLeave, At, Goto, Finish, queues, HoldOK, None, NoJob
<1>10. SendOK'
  BY <1>1 DEF ReadLeave, At, Goto, Finish, queues, SendOK, Sending, CpuOK,
        Held, Types
<1>11. Sound'
  BY <1>1 DEF ReadLeave, At, Goto, Finish, queues, Sound
<1>12. SleepOK'
  BY <1>1 DEF ReadLeave, At, Goto, Finish, queues, SleepOK, CpuOK, Held, TypeOK
<1> QED BY <1>2, <1>3, <1>4, <1>5, <1>6, <1>7, <1>8, <1>9, <1>10, <1>11, <1>12

LEMMA ReadTestKeeps ==
    ASSUME NoRaces, IInv, NEW p \in Task, ReadTest(p)
    PROVE  IInv'
<1> USE TtyAssumption, NoneAssumption DEF IInv
<1>1. /\ ~irq /\ pc[p] = "rtest" /\ cpu = p
      /\ pc' \in [Task -> Points]
      /\ pc'[p] \in {"rtest", "rget"}
      /\ \A q \in Task : q # p => pc'[q] = pc[q]
      /\ UNCHANGED <<kind, mode, wq, irq, job>>
  BY DEF ReadTest, At, Goto, TaskTypes, Points, queues
<1>2. Types'
  BY <1>1 DEF ReadTest, At, Goto, queues, Types, Allowed
<1>3. TaskTypes'
  BY <1>1 DEF ReadTest, At, Goto, queues, TaskTypes
<1>4. TypeOK'
  BY <1>1 DEF ReadTest, At, Goto, queues, TypeOK
<1>5. CpuOK'
  BY <1>1 DEF ReadTest, At, Goto, queues, CpuOK, Held
<1>6. ReadOK'
  BY <1>1 DEF ReadTest, At, Goto, queues, ReadOK
<1>7. WriteOK'
  BY <1>1 DEF WriteOK
<1>8. QueryOK'
  BY <1>1 DEF ReadTest, At, Goto, queues, QueryOK
<1>9. HoldOK'
  BY <1>1 DEF ReadTest, At, Goto, queues, HoldOK
<1>10. SendOK'
  BY <1>1 DEF ReadTest, At, Goto, queues, SendOK, Sending, CpuOK, Held, Types
<1>11. Sound'
  BY <1>1 DEF ReadTest, At, Goto, queues, Sound
<1>12. SleepOK'
  BY <1>1 DEF ReadTest, At, Goto, queues, SleepOK, CpuOK, Held, TypeOK
<1> QED BY <1>2, <1>3, <1>4, <1>5, <1>6, <1>7, <1>8, <1>9, <1>10, <1>11, <1>12

LEMMA ReadGetKeeps ==
    ASSUME NoRaces, IInv, NEW p \in Task, ReadGet(p)
    PROVE  IInv'
<1> USE TtyAssumption, NoneAssumption DEF IInv
<1>1. /\ ~irq /\ cpu = p /\ pc[p] = "rget" /\ pc'[p] = "rinc"
      /\ job' \in [Task -> Job] /\ job'[p].c # "query"
      /\ \A q \in Task : q # p => job'[q] = job[q] /\ pc'[q] = pc[q]
      /\ UNCHANGED <<kind, mode, wq, rq, irq>>
  <2> DEFINE c == IF sq = <<>> THEN None ELSE Head(sq)
  <2>1. c \in (Chars \cup {"query", None}) \ {"query"}
    BY Queue DEF Types, Chars, None
  <2>2. job' = [job EXCEPT ![p] = [@ EXCEPT !.c = c]]
    BY DEF ReadGet
  <2> HIDE DEF c
  <2>3. job[p] \in Job
    BY DEF TaskTypes
  <2>4. [job[p] EXCEPT !.c = c] \in Job /\ [job[p] EXCEPT !.c = c].c = c
    <3>1. [job[p] EXCEPT !.c = c] \in Job
      BY <2>1, <2>3, JobChanges
    <3> QED BY <2>3, <3>1 DEF Job
  <2>5. job' \in [Task -> Job] /\ job'[p].c # "query"
        /\ \A q \in Task : q # p => job'[q] = job[q]
    BY <2>1, <2>2, <2>4 DEF TaskTypes
  <2>6. /\ ~irq /\ cpu = p /\ pc[p] = "rget" /\ pc'[p] = "rinc"
        /\ \A q \in Task : q # p => pc'[q] = pc[q]
        /\ UNCHANGED <<kind, mode, wq, rq, irq>>
    BY DEF ReadGet, At, Goto, TaskTypes, queues
  <2> QED BY <2>5, <2>6
<1>2. Types'
  BY <1>1 DEF ReadGet, At, Goto, queues, Types, Allowed
<1>3. TaskTypes'
  BY <1>1 DEF ReadGet, At, Goto, TaskTypes, Points
<1>4. TypeOK'
  BY <1>1 DEF ReadGet, At, Goto, queues, TypeOK
<1>5. CpuOK'
  BY <1>1 DEF ReadGet, At, Goto, queues, CpuOK
<1>6. ReadOK'
  BY <1>1 DEF ReadGet, At, Goto, queues, ReadOK
<1>7. WriteOK'
  BY <1>1 DEF ReadGet, At, Goto, queues, WriteOK
<1>8. QueryOK'
  BY <1>1 DEF ReadGet, At, Goto, queues, QueryOK
<1>9. HoldOK'
  BY <1>1 DEF HoldOK
<1>10. SendOK'
  BY <1>1 DEF ReadGet, At, Goto, queues, SendOK, Sending, CpuOK, Held, Types
<1>11. Sound'
  BY DEF ReadGet, At, Goto, queues, Types, TaskTypes, Sound, ReadOK, WriteOK,
        TypeOK
<1>12. SleepOK'
  BY <1>1 DEF ReadGet, At, Goto, queues, SleepOK
<1> QED BY <1>2, <1>3, <1>4, <1>5, <1>6, <1>7, <1>8, <1>9, <1>10, <1>11, <1>12

LEMMA ReadIncKeeps ==
    ASSUME NoRaces, IInv, NEW p \in Task, ReadInc(p)
    PROVE  IInv'
<1> USE TtyAssumption, NoneAssumption DEF IInv
<1>1. /\ ~irq /\ ~irq' /\ cpu = p /\ pc[p] = "rinc"
      /\ pc'[p] \in {"user", "rend", "rmore"}
      /\ pc' \in [Task -> Points]
      /\ job' \in [Task -> Job]
      /\ job'[p].c = None /\ job'[p].n \in {job[p].n, 0}
      /\ \A q \in Task : q # p => job'[q] = job[q] /\ pc'[q] = pc[q]
      /\ sq # <<>> /\ sq' = Tail(sq) /\ sq' \in Seq(Chars)
      /\ Len(sq') = Len(sq) - 1
      /\ ~broken' /\ lines' = NEnds(sq')
      /\ UNCHANGED <<kind, mode, rq, wq, thre, irq>>
  <2>0. rq \in Seq(Chars) /\ sq \in Seq(Chars) /\ wq \in Seq(Chars \cup {"query"})
    BY DEF Types
  <2>1. pc[p] = "rinc" /\ sq # <<>> /\ job[p].c = Head(sq)
    BY DEF ReadInc, At, ReadOK
  <2>2. /\ sq' = Tail(sq) /\ sq' \in Seq(Chars) /\ Len(sq') = Len(sq) - 1
        /\ NEnds(sq) = NEnds(sq') + (IF job[p].c \in Ends THEN 1 ELSE 0)
        /\ NEnds(sq') \in Nat
    BY <2>0, <2>1, Queue, EndsTail DEF ReadInc
  <2>3. ~broken' /\ lines' = NEnds(sq')
    <3>1. ~broken /\ lines = NEnds(sq)
      BY DEF Sound
    <3>2. /\ broken' = (broken \/ sq = <<>>)
          /\ lines' = IF job[p].c \in Ends /\ lines > 0 THEN lines - 1 ELSE lines
      BY DEF ReadInc
    <3>3. ~broken'
      BY <2>1, <3>1, <3>2, Zenon
    <3>4. lines' = NEnds(sq')
      <4> DEFINE old == NEnds(sq)
                 new == NEnds(sq')
                 b   == job[p].c \in Ends
      <4>1. /\ old = new + (IF b THEN 1 ELSE 0) /\ new \in Nat /\ lines = old
            /\ lines' = IF b /\ lines > 0 THEN lines - 1 ELSE lines
        BY <2>2, <3>1, <3>2
      <4> HIDE DEF old, new, b
      <4>2. lines' = new
        BY <4>1
      <4> QED BY <4>2 DEF new
    <3> QED BY <3>3, <3>4
  <2>4. /\ job'[p] \in Job /\ job'[p].c = None /\ job'[p].n \in {job[p].n, 0}
        /\ job' = [job EXCEPT ![p] = job'[p]]
    <3>1. CASE job' = [job EXCEPT ![p] = NoJob]
      BY <3>1, NoJobTyped DEF NoJob, TaskTypes
    <3>2. CASE job' = [job EXCEPT ![p].left = @ - 1, ![p].got = @ + 1, ![p].c = None]
      <4> DEFINE l == job[p].left - 1
                 g == job[p].got + 1
      <4>1. /\ job'[p] = [job[p] EXCEPT !.left = l, !.got = g, !.c = None]
            /\ job' = [job EXCEPT ![p] = job'[p]]
        BY <3>2 DEF TaskTypes
      <4>2. job[p] \in Job /\ l \in Int /\ g \in Int /\ None \in Chars \cup {"query", None}
        BY DEF TaskTypes, Job
      <4> HIDE DEF l, g
      <4>3. [job[p] EXCEPT !.left = l, !.got = g, !.c = None] \in Job
        BY <4>2, JobChanges
      <4>4. job'[p].c = None /\ job'[p].n = job[p].n
        BY <4>1, <4>2 DEF Job
      <4> QED BY <4>1, <4>3, <4>4
    <3> QED BY <3>1, <3>2 DEF ReadInc
  <2>5. /\ pc'[p] \in {"user", "rend", "rmore"} /\ pc' \in [Task -> Points]
        /\ \A q \in Task : q # p => pc'[q] = pc[q]
    BY DEF ReadInc, Goto, TaskTypes, Points
  <2>6. job' \in [Task -> Job] /\ \A q \in Task : q # p => job'[q] = job[q]
    BY <2>4 DEF TaskTypes
  <2>7. /\ ~irq /\ ~irq' /\ cpu = p
        /\ UNCHANGED <<kind, mode, rq, wq, thre, irq>>
    BY DEF ReadInc, At
  <2> QED BY <2>1, <2>2, <2>3, <2>4, <2>5, <2>6, <2>7
<1>2. Types'
  BY <1>1 DEF Types, Allowed
<1>3. TaskTypes'
  BY <1>1 DEF TaskTypes
<1>4. TypeOK'
  BY <1>1 DEF ReadInc, At, Goto, queues, TypeOK
<1>5. CpuOK'
  BY <1>1 DEF ReadInc, At, Goto, queues, CpuOK, Held
<1>6. ReadOK'
  BY <1>1 DEF ReadInc, At, Goto, queues, ReadOK, CpuOK, Held
<1>7. WriteOK'
  BY <1>1 DEF WriteOK, None
<1>8. QueryOK'
  BY <1>1 DEF QueryOK, WriteOK, CpuOK, Held, TaskTypes
<1>9. HoldOK'
  BY <1>1 DEF HoldOK, None
<1>10. SendOK'
  BY <1>1 DEF ReadInc, At, Goto, queues, SendOK, Sending, CpuOK, Held, Types
<1>11. Sound'
  BY <1>1 DEF Sound, Types, TypeOK, LenProperties
<1>12. SleepOK'
  BY <1>1 DEF ReadInc, At, Goto, queues, SleepOK, CpuOK, Held, TypeOK
<1> QED BY <1>2, <1>3, <1>4, <1>5, <1>6, <1>7, <1>8, <1>9, <1>10, <1>11, <1>12

LEMMA ReadMoreKeeps ==
    ASSUME NoRaces, IInv, NEW p \in Task, ReadMore(p)
    PROVE  IInv'
<1> USE TtyAssumption, NoneAssumption DEF IInv
<1>2. Types'
  BY DEF ReadMore, At, Goto, queues, Types, Allowed
<1>3. TaskTypes'
  BY DEF ReadMore, At, Goto, queues, TaskTypes, Points
<1>4. TypeOK'
  BY DEF ReadMore, At, Goto, queues, TypeOK
<1>5. CpuOK'
  BY DEF ReadMore, At, Goto, queues, CpuOK
<1>6. ReadOK'
  BY DEF ReadMore, At, Goto, queues, ReadOK
<1>7. WriteOK'
  BY DEF ReadMore, At, Goto, queues, WriteOK
<1>8. QueryOK'
  BY DEF ReadMore, At, Goto, queues, QueryOK
<1>9. HoldOK'
  BY DEF ReadMore, At, Goto, queues, HoldOK
<1>10. SendOK'
  BY DEF ReadMore, At, Goto, queues, SendOK, Sending, CpuOK, Held, Types
<1>11. Sound'
  BY DEF ReadMore, At, Goto, queues, Sound
<1>12. SleepOK'
  BY DEF ReadMore, At, Goto, queues, SleepOK
<1> QED BY <1>2, <1>3, <1>4, <1>5, <1>6, <1>7, <1>8, <1>9, <1>10, <1>11, <1>12

LEMMA ReadEndKeeps ==
    ASSUME NoRaces, IInv, NEW p \in Task, ReadEnd(p)
    PROVE  IInv'
<1> USE TtyAssumption, NoneAssumption DEF IInv
<1>1. /\ ~irq /\ ~irq' /\ cpu = p /\ pc[p] = "rend"
      /\ pc'[p] \in {"user", "rtest"}
      /\ pc' \in [Task -> Points]
      /\ job' \in [Task -> Job]
      /\ job'[p].c \in {job[p].c, None} /\ job'[p].n \in {job[p].n, 0}
      /\ \A q \in Task : q # p => job'[q] = job[q] /\ pc'[q] = pc[q]
      /\ alarm' \in [Task -> {None, "own", "read"}]
      /\ UNCHANGED <<kind, mode, queues, irq, thre, broken, asleep, signal>>
      /\ cpu' \in {p, None}
  <2>1. job[p] \in Job /\ alarm \in [Task -> {None, "own", "read"}]
    BY DEF TaskTypes, TypeOK
  <2>2. CASE Finish(p)
    BY <2>1, <2>2, NoJobTyped DEF ReadEnd, At, Goto, Finish, TaskTypes, Points,
          NoJob, Job, queues
  <2>3. ASSUME NEW flag \in BOOLEAN, At(p, "rend"), Goto(p, "rtest"), UNCHANGED cpu,
               job' = [job EXCEPT ![p].flag = flag],
               alarm' = IF ~job[p].timed THEN alarm
                        ELSE [alarm EXCEPT ![p] = IF flag THEN "read" ELSE job[p].old]
        PROVE  /\ cpu = p /\ cpu' = p /\ pc[p] = "rend" /\ pc'[p] = "rtest"
               /\ pc' \in [Task -> Points] /\ job' \in [Task -> Job]
               /\ job'[p].c = job[p].c /\ job'[p].n = job[p].n
               /\ \A q \in Task : q # p => job'[q] = job[q] /\ pc'[q] = pc[q]
               /\ alarm' \in [Task -> {None, "own", "read"}]
    <3>1. /\ job'[p] = [job[p] EXCEPT !.flag = flag]
          /\ job' = [job EXCEPT ![p] = job'[p]]
      BY <2>3 DEF TaskTypes
    <3>2. job'[p] \in Job
      <4>1. [job[p] EXCEPT !.flag = flag] \in Job
        BY <2>1, JobChanges, Zenon
      <4> QED BY <3>1, <4>1
    <3>3. job'[p].c = job[p].c /\ job'[p].n = job[p].n /\ job[p].old \in {None, "own", "read"}
      BY <2>1, <3>1 DEF Job
    <3>4. alarm' \in [Task -> {None, "own", "read"}]
      BY <2>1, <2>3, <3>3
    <3>5. /\ cpu = p /\ cpu' = p /\ pc[p] = "rend" /\ pc'[p] = "rtest"
          /\ pc' \in [Task -> Points]
          /\ \A q \in Task : q # p => pc'[q] = pc[q]
      BY <2>3 DEF At, Goto, TaskTypes, Points
    <3> QED BY <3>1, <3>2, <3>3, <3>4, <3>5 DEF TaskTypes
  <2>4. Finish(p) \/ \E flag \in BOOLEAN :
           /\ Goto(p, "rtest") /\ UNCHANGED cpu
           /\ job' = [job EXCEPT ![p].flag = flag]
           /\ alarm' = IF ~job[p].timed THEN alarm
                       ELSE [alarm EXCEPT ![p] = IF flag THEN "read" ELSE job[p].old]
    BY <2>1 DEF ReadEnd, Later, Job
  <2>5. /\ At(p, "rend") /\ ~irq
        /\ UNCHANGED <<kind, mode, rq, sq, wq, lines, irq, thre, broken, asleep,
                       signal>>
    BY DEF ReadEnd, At, queues
  <2> QED BY <2>2, <2>3, <2>4, <2>5 DEF queues
<1>2. Types'
  BY <1>1 DEF ReadEnd, At, Goto, Finish, Later, queues, Types, Allowed
<1>3. TaskTypes'
  BY <1>1 DEF TaskTypes
<1>4. TypeOK'
  BY <1>1 DEF TypeOK, queues
<1>5. CpuOK'
  BY <1>1 DEF ReadEnd, At, Goto, Finish, Later, queues, CpuOK, Held
<1>6. ReadOK'
  BY <1>1 DEF ReadEnd, At, Goto, Finish, Later, queues, ReadOK
<1>7. WriteOK'
  BY <1>1 DEF WriteOK, None, queues
<1>8. QueryOK'
  BY <1>1 DEF ReadEnd, At, Goto, Finish, Later, queues, QueryOK
<1>9. HoldOK'
  BY <1>1 DEF HoldOK, queues, None
<1>10. SendOK'
  BY <1>1 DEF ReadEnd, At, Goto, Finish, Later, queues, SendOK, Sending, CpuOK,
        Held, Types
<1>11. Sound'
  BY <1>1 DEF ReadEnd, At, Goto, Finish, Later, queues, Sound
<1>12. SleepOK'
  BY <1>1 DEF ReadEnd, At, Goto, Finish, Later, queues, SleepOK, CpuOK, Held,
        TypeOK
<1> QED BY <1>2, <1>3, <1>4, <1>5, <1>6, <1>7, <1>8, <1>9, <1>10, <1>11, <1>12

(* ... those of tty_write, con_write and rs_write ... *)
LEMMA WriteTestKeeps ==
    ASSUME NoRaces, IInv, NEW p \in Task, WriteTest(p)
    PROVE  IInv'
<1> USE TtyAssumption, NoneAssumption DEF IInv
<1>1. /\ ~irq /\ cpu = p /\ pc[p] = "wtest"
      /\ pc' \in [Task -> Points] /\ pc'[p] = "wfull"
      /\ \A q \in Task : q # p => pc'[q] = pc[q]
      /\ kind = "serial"
      /\ UNCHANGED <<kind, mode, rq, sq, wq, lines, irq, thre, broken, cpu,
                     asleep, signal, alarm, job>>
  <2>1. /\ ~irq /\ cpu = p /\ pc[p] = "wtest" /\ Len(wq) = Cap
        /\ pc' = [pc EXCEPT ![p] = "wfull"]
    BY DEF WriteTest, At, Goto
  <2>2. kind = "serial"
    <3>1. \A q \in Task : pc[q] \notin Sending
      BY <2>1 DEF CpuOK, Held, Sending
    <3>2. wq # <<>>
      BY <2>1, Queue DEF Types
    <3> QED BY <3>1, <3>2 DEF SendOK, Types
  <2> QED BY <2>1, <2>2 DEF WriteTest, TaskTypes, Points, queues
<1>2. Types'
  BY <1>1 DEF Types, Allowed
<1>3. TaskTypes'
  BY <1>1 DEF TaskTypes
<1>4. TypeOK'
  BY <1>1 DEF TypeOK
<1>5. CpuOK'
  BY <1>1 DEF CpuOK
<1>6. ReadOK'
  BY <1>1 DEF ReadOK
<1>7. WriteOK'
  BY <1>1 DEF WriteOK
<1>8. QueryOK'
  BY <1>1 DEF QueryOK
<1>9. HoldOK'
  BY <1>1 DEF HoldOK
<1>10. SendOK'
  BY <1>1 DEF SendOK
<1>11. Sound'
  BY <1>1 DEF Sound
<1>12. SleepOK'
  BY <1>1 DEF SleepOK, CpuOK, Held, TypeOK
<1> QED BY <1>2, <1>3, <1>4, <1>5, <1>6, <1>7, <1>8, <1>9, <1>10, <1>11, <1>12

LEMMA WriteSleepKeeps ==
    ASSUME NoRaces, IInv, NEW p \in Task, WriteSleep(p)
    PROVE  IInv'
<1> USE TtyAssumption, NoneAssumption DEF IInv
<1>1. /\ ~irq /\ cpu = p /\ pc[p] = "wfull"
      /\ asleep' = asleep \cup {p} /\ cpu' = None
      /\ kind = "serial" /\ thre
      /\ UNCHANGED <<kind, mode, rq, sq, wq, lines, irq, thre, broken, pc,
                     signal, alarm, job>>
  <2>1. ~irq /\ cpu = p /\ pc[p] = "wfull" /\ Cap - Len(wq) < Low
    BY DEF WriteSleep, At
  <2>2. kind = "serial"
    BY <2>1 DEF WriteOK
  <2>3. thre
    <3>1. \A q \in Task : pc[q] \notin {"wput", "winc"}
      BY <2>1 DEF CpuOK, Held
    <3>2. wq # <<>>
      BY <2>1, Queue DEF Types
    <3> QED BY <2>2, <3>1, <3>2 DEF SendOK
  <2> QED BY <2>1, <2>2, <2>3 DEF WriteSleep, queues
<1>2. Types'
  BY <1>1 DEF Types, Allowed
<1>3. TaskTypes'
  BY <1>1 DEF TaskTypes
<1>4. TypeOK'
  BY <1>1 DEF TypeOK
<1>5. CpuOK'
  BY <1>1 DEF CpuOK, Held
<1>6. ReadOK'
  BY <1>1 DEF ReadOK
<1>7. WriteOK'
  BY <1>1 DEF WriteOK
<1>8. QueryOK'
  BY <1>1 DEF QueryOK
<1>9. HoldOK'
  BY <1>1 DEF HoldOK
<1>10. SendOK'
  BY <1>1 DEF SendOK
<1>11. Sound'
  BY <1>1 DEF Sound
<1>12. SleepOK'
  BY <1>1 DEF SleepOK
<1> QED BY <1>2, <1>3, <1>4, <1>5, <1>6, <1>7, <1>8, <1>9, <1>10, <1>11, <1>12

LEMMA WriteGoKeeps ==
    ASSUME NoRaces, IInv, NEW p \in Task, WriteGo(p)
    PROVE  IInv'
<1> USE TtyAssumption, NoneAssumption DEF IInv
<1>1. /\ ~irq /\ cpu = p /\ pc[p] \in {"wtest", "wfull"} /\ job[p].c # "query"
      /\ pc' \in [Task -> Points] /\ pc'[p] \in {"user", "wput"}
      /\ job' \in [Task -> Job] /\ cpu' \in {p, None}
      /\ pc'[p] = "user" => job'[p] = NoJob /\ cpu' = None
      /\ pc'[p] = "wput" => job'[p] = job[p] /\ cpu' = p
      /\ \A q \in Task : q # p => job'[q] = job[q] /\ pc'[q] = pc[q]
      /\ \A i \in 1 .. Len(wq) : wq[i] # "query"
      /\ UNCHANGED <<kind, mode, rq, sq, wq, lines, irq, thre, broken, asleep,
                     signal, alarm>>
  <2>1. ~irq /\ cpu = p /\ pc[p] \in {"wtest", "wfull"}
    BY DEF WriteGo, At
  <2>2. \A i \in 1 .. Len(wq) : wq[i] # "query"
    BY <2>1 DEF QueryOK, CpuOK, Held
  <2>3. job[p].c # "query"
    BY <2>1 DEF HoldOK
  <2>4. /\ pc' \in [Task -> Points] /\ pc'[p] \in {"user", "wput"}
        /\ \A q \in Task : q # p => pc'[q] = pc[q]
    BY DEF WriteGo, Goto, TaskTypes, Points
  <2>5. /\ job' \in [Task -> Job] /\ cpu' \in {p, None}
        /\ \A q \in Task : q # p => job'[q] = job[q]
        /\ pc'[p] = "user" => job'[p] = NoJob /\ cpu' = None
        /\ pc'[p] = "wput" => job'[p] = job[p] /\ cpu' = p
    BY <2>1, NoJobTyped DEF WriteGo, Goto, TaskTypes
  <2> QED BY <2>1, <2>2, <2>3, <2>4, <2>5 DEF WriteGo, queues
<1>2. Types'
  BY <1>1 DEF Types, Allowed
<1>3. TaskTypes'
  BY <1>1 DEF TaskTypes
<1>4. TypeOK'
  BY <1>1 DEF TypeOK
<1>5. CpuOK'
  BY <1>1 DEF CpuOK, Held
<1>6. ReadOK'
  BY <1>1 DEF ReadOK
<1>7. WriteOK'
  BY <1>1 DEF WriteOK, NoJob, None
<1>8. QueryOK'
  BY <1>1 DEF QueryOK
<1>9. HoldOK'
  BY <1>1 DEF HoldOK, NoJob, None
<1>10. SendOK'
  BY <1>1 DEF SendOK, Sending, CpuOK, Held, Types
<1>11. Sound'
  BY <1>1 DEF Sound
<1>12. SleepOK'
  BY <1>1 DEF SleepOK, CpuOK, Held, TypeOK
<1> QED BY <1>2, <1>3, <1>4, <1>5, <1>6, <1>7, <1>8, <1>9, <1>10, <1>11, <1>12

LEMMA WritePutKeeps ==
    ASSUME NoRaces, IInv, NEW p \in Task, WritePut(p)
    PROVE  IInv'
<1> USE TtyAssumption, NoneAssumption DEF IInv
<1>1. /\ ~irq /\ cpu = p /\ pc[p] = "wput" /\ Len(wq) < Cap
      /\ pc' \in [Task -> Points] /\ pc'[p] = "winc"
      /\ job' \in [Task -> Job]
      /\ job'[p].c \in {"a", "query"} /\ job'[p].n = job[p].n
      /\ job'[p].left = job[p].left
      /\ job'[p].c = "query" => kind = "console" /\ job[p].left = 1 /\ rq = <<>>
      /\ \A q \in Task : q # p => job'[q] = job[q] /\ pc'[q] = pc[q]
      /\ \A i \in 1 .. Len(wq) : wq[i] # "query"
      /\ UNCHANGED <<kind, mode, rq, sq, wq, lines, irq, thre, broken, cpu,
                     asleep, signal, alarm>>
  <2>1. /\ ~irq /\ cpu = p /\ pc[p] = "wput" /\ Len(wq) < Cap /\ job[p].left > 0
        /\ pc' = [pc EXCEPT ![p] = "winc"]
    BY DEF WritePut, At, Goto
  <2>2. \A i \in 1 .. Len(wq) : wq[i] # "query"
    BY <2>1 DEF QueryOK, CpuOK, Held
  <2>3. PICK c \in {"a", "query"} :
           /\ c = "query" => kind = "console" /\ job[p].left = 1 /\ rq = <<>>
           /\ job' = [job EXCEPT ![p] = [@ EXCEPT !.c = c]]
    BY DEF WritePut, NoRaces
  <2>4. job[p] \in Job /\ c \in Chars \cup {"query", None}
    BY DEF TaskTypes, Chars
  <2>5. [job[p] EXCEPT !.c = c] \in Job
    BY <2>4, JobChanges
  <2>6. /\ job' \in [Task -> Job] /\ job'[p] = [job[p] EXCEPT !.c = c]
        /\ \A q \in Task : q # p => job'[q] = job[q]
    BY <2>3, <2>5 DEF TaskTypes
  <2>7. job'[p].c = c /\ job'[p].n = job[p].n /\ job'[p].left = job[p].left
    BY <2>4, <2>6 DEF Job
  <2> QED BY <2>1, <2>2, <2>3, <2>6, <2>7 DEF WritePut, TaskTypes, Points,
          queues
<1>2. Types'
  BY <1>1 DEF Types, Allowed
<1>3. TaskTypes'
  BY <1>1 DEF TaskTypes
<1>4. TypeOK'
  BY <1>1 DEF TypeOK
<1>5. CpuOK'
  BY <1>1 DEF CpuOK
<1>6. ReadOK'
  BY <1>1 DEF ReadOK
<1>7. WriteOK'
  BY <1>1 DEF WriteOK, None
<1>8. QueryOK'
  BY <1>1 DEF QueryOK
<1>9. HoldOK'
  BY <1>1 DEF HoldOK
<1>10. SendOK'
  BY <1>1 DEF SendOK, Sending, CpuOK, Held, Types
<1>11. Sound'
  BY <1>1 DEF Sound
<1>12. SleepOK'
  BY <1>1 DEF SleepOK, CpuOK, Held, TypeOK
<1> QED BY <1>2, <1>3, <1>4, <1>5, <1>6, <1>7, <1>8, <1>9, <1>10, <1>11, <1>12

LEMMA WriteIncKeeps ==
    ASSUME NoRaces, IInv, NEW p \in Task, WriteInc(p)
    PROVE  IInv'
<1> USE TtyAssumption, NoneAssumption DEF IInv
<1>1. /\ ~irq /\ cpu = p /\ pc[p] = "winc"
      /\ pc' \in [Task -> Points] /\ pc'[p] = "wput"
      /\ job' \in [Task -> Job]
      /\ job'[p].c = None /\ job'[p].n = job[p].n
      /\ job'[p].left = job[p].left - 1
      /\ \A q \in Task : q # p => job'[q] = job[q] /\ pc'[q] = pc[q]
      /\ \A i \in 1 .. Len(wq) : wq[i] # "query"
      /\ wq' \in Seq(Chars \cup {"query"}) /\ wq' # <<>>
      /\ Len(wq') = Len(wq) + 1 /\ Len(wq) < Cap
      /\ \A i \in 1 .. Len(wq') :
            wq'[i] = "query" => i = Len(wq') /\ job[p].c = "query"
      /\ ~broken'
      /\ UNCHANGED <<kind, mode, rq, sq, lines, irq, thre, cpu, asleep, signal,
                     alarm>>
  <2>1. /\ ~irq /\ cpu = p /\ pc[p] = "winc" /\ Len(wq) < Cap /\ job[p].c # None
        /\ pc' = [pc EXCEPT ![p] = "wput"]
    BY DEF WriteInc, At, Goto, WriteOK
  <2>2. \A i \in 1 .. Len(wq) : wq[i] # "query"
    BY <2>1 DEF QueryOK, CpuOK, Held
  <2>3. job[p] \in Job /\ job[p].c \in Chars \cup {"query"} /\ job[p].left - 1 \in Int
    BY <2>1 DEF TaskTypes, Job
  <2>4. wq \in Seq(Chars \cup {"query"}) /\ wq' = Append(wq, job[p].c)
    BY <2>1 DEF Types, WriteInc
  <2>5. /\ wq' \in Seq(Chars \cup {"query"}) /\ wq' # <<>>
        /\ Len(wq') = Len(wq) + 1
        /\ \A i \in 1 .. Len(wq) : wq'[i] = wq[i]
        /\ wq'[Len(wq) + 1] = job[p].c /\ Len(wq) \in Nat
    BY <2>3, <2>4, Queue
  <2>6. \A i \in 1 .. Len(wq') : wq'[i] = "query" => i = Len(wq') /\ job[p].c = "query"
    BY <2>2, <2>5
  <2>7. ~broken'
    <3>1. ~broken /\ Len(wq) # Cap /\ broken' = (broken \/ Len(wq) = Cap)
      BY <2>1, <2>5 DEF WriteInc, Sound
    <3> QED BY <3>1, Zenon
  <2>8. /\ job' \in [Task -> Job]
        /\ job'[p].c = None /\ job'[p].n = job[p].n
        /\ job'[p].left = job[p].left - 1
        /\ \A q \in Task : q # p => job'[q] = job[q]
    <3> DEFINE l == job[p].left - 1
    <3>1. /\ job' = [job EXCEPT ![p] = [@ EXCEPT !.left = l, !.c = None]]
          /\ None \in Chars \cup {"query", None} /\ l \in Int
      BY <2>3 DEF WriteInc
    <3> HIDE DEF l
    <3>2. [job[p] EXCEPT !.left = l, !.c = None] \in Job
      BY <2>3, <3>1, JobChanges
    <3>3. /\ job' \in [Task -> Job] /\ job'[p] = [job[p] EXCEPT !.left = l, !.c = None]
          /\ \A q \in Task : q # p => job'[q] = job[q]
      BY <3>1, <3>2 DEF TaskTypes
    <3>4. job'[p].c = None /\ job'[p].n = job[p].n /\ job'[p].left = l
      BY <2>3, <3>3 DEF Job
    <3> QED BY <3>3, <3>4 DEF l
  <2> QED BY <2>1, <2>2, <2>5, <2>6, <2>7, <2>8 DEF WriteInc, TaskTypes,
          Points, queues
<1>2. Types'
  BY <1>1 DEF Types, Allowed
<1>3. TaskTypes'
  BY <1>1 DEF TaskTypes
<1>4. TypeOK'
  BY <1>1 DEF TypeOK
<1>5. CpuOK'
  BY <1>1 DEF CpuOK
<1>6. ReadOK'
  BY <1>1 DEF ReadOK
<1>7. WriteOK'
  BY <1>1 DEF WriteOK, None, CpuOK, Held
<1>8. QueryOK'
  BY <1>1 DEF QueryOK, HoldOK, None
<1>9. HoldOK'
  BY <1>1 DEF HoldOK, None
<1>10. SendOK'
  BY <1>1 DEF SendOK, Sending, CpuOK, Held, Types
<1>11. Sound'
  BY <1>1 DEF Sound
<1>12. SleepOK'
  BY <1>1 DEF SleepOK, CpuOK, Held, TypeOK
<1> QED BY <1>2, <1>3, <1>4, <1>5, <1>6, <1>7, <1>8, <1>9, <1>10, <1>11, <1>12

LEMMA WriteOutKeeps ==
    ASSUME NoRaces, IInv, NEW p \in Task, WriteOut(p)
    PROVE  IInv'
<1> USE TtyAssumption, NoneAssumption DEF IInv
<1>1. /\ ~irq /\ cpu = p /\ pc[p] = "wput" /\ job[p].c # "query"
      /\ pc' \in [Task -> Points] /\ pc'[p] = "cnext"
      /\ job' \in [Task -> Job] /\ thre' \in BOOLEAN
      /\ job'[p].c = job[p].c
      /\ kind = "console" => job'[p].n = Len(wq) /\ thre' = thre
      /\ kind = "serial" => job'[p] = job[p] /\ (thre' <=> (thre \/ wq # <<>>))
      /\ \A q \in Task : q # p => job'[q] = job[q] /\ pc'[q] = pc[q]
      /\ UNCHANGED <<kind, mode, rq, sq, wq, lines, irq, broken, cpu, asleep,
                     signal, alarm>>
  <2>1. /\ ~irq /\ cpu = p /\ pc[p] = "wput"
        /\ pc' = [pc EXCEPT ![p] = "cnext"]
    BY DEF WriteOut, At, Goto
  <2>2. job[p].c # "query" /\ job[p] \in Job
    BY <2>1 DEF HoldOK, TaskTypes
  <2>3. CASE kind = "console"
    <3>1. thre' = thre /\ job' = [job EXCEPT ![p] = [@ EXCEPT !.n = Len(wq)]]
      BY <2>3 DEF WriteOut
    <3>2. [job[p] EXCEPT !.n = Len(wq)] \in Job
      <4>1. Len(wq) \in Int
        BY Queue DEF Types
      <4> QED BY <2>2, <4>1, JobChanges
    <3>3. /\ job' \in [Task -> Job] /\ job'[p] = [job[p] EXCEPT !.n = Len(wq)]
          /\ \A q \in Task : q # p => job'[q] = job[q]
      BY <3>1, <3>2 DEF TaskTypes
    <3>4. job'[p].c = job[p].c /\ job'[p].n = Len(wq)
      BY <2>2, <3>3 DEF Job
    <3> QED BY <2>1, <2>2, <2>3, <3>1, <3>3, <3>4 DEF WriteOut, TaskTypes,
            Types, Points, queues
  <2>4. CASE kind = "serial"
    <3>1. job' = job /\ thre' = (thre \/ wq # <<>>)
      BY <2>4 DEF WriteOut
    <3>2. thre' \in BOOLEAN /\ (thre' <=> (thre \/ wq # <<>>))
      BY <3>1, Zenon DEF Types
    <3> QED BY <2>1, <2>2, <2>4, <3>1, <3>2 DEF WriteOut, TaskTypes, Points,
            queues
  <2> QED BY <2>3, <2>4 DEF Types
<1>2. Types'
  BY <1>1 DEF Types, Allowed
<1>3. TaskTypes'
  BY <1>1 DEF TaskTypes
<1>4. TypeOK'
  BY <1>1 DEF TypeOK
<1>5. CpuOK'
  BY <1>1 DEF CpuOK
<1>6. ReadOK'
  BY <1>1 DEF ReadOK
<1>7. WriteOK'
  BY <1>1, SMTT(20) DEF WriteOK, None, CpuOK, Held, Types
<1>8. QueryOK'
  BY <1>1 DEF QueryOK
<1>9. HoldOK'
  BY <1>1 DEF HoldOK
<1>10. SendOK'
  BY <1>1 DEF SendOK, Sending, CpuOK, Held, Types
<1>11. Sound'
  BY <1>1 DEF Sound
<1>12. SleepOK'
  BY <1>1 DEF SleepOK, CpuOK, Held, TypeOK
<1> QED BY <1>2, <1>3, <1>4, <1>5, <1>6, <1>7, <1>8, <1>9, <1>10, <1>11, <1>12

LEMMA ConGetKeeps ==
    ASSUME NoRaces, IInv, NEW p \in Task, ConGet(p)
    PROVE  IInv'
<1> USE TtyAssumption, NoneAssumption DEF IInv
<1>1. /\ ~irq /\ cpu = p /\ pc[p] = "cnext" /\ kind = "console"
      /\ pc' \in [Task -> Points] /\ pc'[p] = "cinc"
      /\ job' \in [Task -> Job]
      /\ wq # <<>> /\ job'[p].c = Head(wq) /\ Head(wq) = wq[1]
      /\ Len(wq) \in Nat \ {0}
      /\ Len(wq) = job'[p].n + 1 /\ ~broken'
      /\ \A q \in Task : q # p => job'[q] = job[q] /\ pc'[q] = pc[q]
      /\ UNCHANGED <<kind, mode, rq, sq, wq, lines, irq, thre, cpu, asleep,
                     signal, alarm>>
  <2>1. /\ ~irq /\ cpu = p /\ pc[p] = "cnext" /\ job[p].n > 0
        /\ pc' = [pc EXCEPT ![p] = "cinc"]
    BY DEF ConGet, At, Goto
  <2>2. kind = "console" /\ job[p].n = Len(wq)
    BY <2>1 DEF WriteOK, Types
  <2>3. wq \in Seq(Chars \cup {"query"}) /\ wq # <<>>
    BY <2>1, <2>2, Queue DEF Types
  <2>4. /\ Head(wq) = wq[1] /\ Len(wq) \in Nat \ {0}
        /\ Head(wq) \in Chars \cup {"query", None}
    BY <2>3, Queue
  <2>5. job[p] \in Job /\ job[p].n - 1 \in Int
    BY DEF TaskTypes, Job
  <2>6. /\ job' \in [Task -> Job] /\ job'[p].c = Head(wq) /\ job'[p].n = job[p].n - 1
        /\ \A q \in Task : q # p => job'[q] = job[q]
    <3> DEFINE m == job[p].n - 1
               c == Head(wq)
    <3>1. job' = [job EXCEPT ![p] = [@ EXCEPT !.c = c, !.n = m]]
      BY <2>3 DEF ConGet
    <3>2. c \in Chars \cup {"query", None} /\ m \in Int
      BY <2>4, <2>5
    <3> HIDE DEF c, m
    <3>3. [job[p] EXCEPT !.c = c, !.n = m] \in Job
      BY <2>5, <3>2, JobChanges
    <3>4. /\ job' \in [Task -> Job] /\ job'[p] = [job[p] EXCEPT !.c = c, !.n = m]
          /\ \A q \in Task : q # p => job'[q] = job[q]
      BY <3>1, <3>3 DEF TaskTypes
    <3>5. job'[p].c = c /\ job'[p].n = m
      BY <2>5, <3>4 DEF Job
    <3> QED BY <3>4, <3>5 DEF c, m
  <2>7. ~broken'
    <3>1. ~broken /\ broken' = (broken \/ wq = <<>>)
      BY DEF ConGet, Sound
    <3> QED BY <2>3, <3>1, Zenon
  <2>8. Len(wq) = job'[p].n + 1
    BY <2>2, <2>4, <2>6
  <2> QED BY <2>1, <2>2, <2>3, <2>4, <2>6, <2>7, <2>8 DEF ConGet, TaskTypes,
          Points, queues
<1>2. Types'
  BY <1>1 DEF Types, Allowed
<1>3. TaskTypes'
  BY <1>1 DEF TaskTypes
<1>4. TypeOK'
  BY <1>1 DEF TypeOK
<1>5. CpuOK'
  BY <1>1 DEF CpuOK
<1>6. ReadOK'
  BY <1>1 DEF ReadOK
<1>7. WriteOK'
  BY <1>1 DEF WriteOK, None, CpuOK, Held
<1>8. QueryOK'
  BY <1>1 DEF QueryOK
<1>9. HoldOK'
  BY <1>1 DEF HoldOK, QueryOK
<1>10. SendOK'
  BY <1>1 DEF SendOK, Sending, CpuOK, Held, Types
<1>11. Sound'
  BY <1>1 DEF Sound
<1>12. SleepOK'
  BY <1>1 DEF SleepOK, CpuOK, Held, TypeOK
<1> QED BY <1>2, <1>3, <1>4, <1>5, <1>6, <1>7, <1>8, <1>9, <1>10, <1>11, <1>12

LEMMA ConIncKeeps ==
    ASSUME NoRaces, IInv, NEW p \in Task, ConInc(p)
    PROVE  IInv'
<1> USE TtyAssumption, NoneAssumption DEF IInv
<1>1. /\ ~irq /\ cpu = p /\ pc[p] = "cinc" /\ kind = "console"
      /\ pc' \in [Task -> Points] /\ pc'[p] = "cnext"
      /\ job' \in [Task -> Job]
      /\ wq' \in Seq(Chars \cup {"query"}) /\ Len(wq') = Len(wq) - 1
      /\ Len(wq) \in Nat \ {0}
      /\ \A i \in 1 .. Len(wq') :
            wq'[i] = "query" => i = Len(wq') /\ ~irq' /\ rq' = <<>>
      /\ job'[p].c = None /\ job'[p].n = Len(wq')
      /\ irq' =>
            wq' = <<>> /\ Len(wq') = 0 /\ ToSet(rq') \cap {"erase", "kill"} = {}
      /\ ~irq' => rq' = rq
      /\ irq' \in BOOLEAN /\ rq' \in Seq(Chars) /\ ~broken'
      /\ Len(rq') <= Cap /\ Len(wq') <= Cap
      /\ \A q \in Task : q # p => job'[q] = job[q] /\ pc'[q] = pc[q]
      /\ UNCHANGED <<kind, mode, sq, lines, thre, cpu, asleep, signal, alarm>>
  <2>1. /\ ~irq /\ cpu = p /\ pc[p] = "cinc"
        /\ pc' = [pc EXCEPT ![p] = "cnext"]
    BY DEF ConInc, At, Goto
  <2>2. kind = "console" /\ Len(wq) = job[p].n + 1 /\ job[p].c = Head(wq)
    BY <2>1 DEF WriteOK
  <2>3. wq \in Seq(Chars \cup {"query"}) /\ rq \in Seq(Chars) /\ job[p] \in Job
    BY DEF Types, TaskTypes
  <2>4. /\ Len(wq) \in Nat \ {0} /\ wq # <<>> /\ Head(wq) = wq[1]
    <3>1. Len(wq) \in Nat /\ (wq = <<>> <=> Len(wq) = 0)
      BY <2>3, Queue
    <3>2. wq # <<>>
      BY <2>1 DEF WriteOK
    <3> QED BY <2>3, <3>1, <3>2, Queue
  <2>5. /\ wq' = Tail(wq) /\ wq' \in Seq(Chars \cup {"query"})
        /\ Len(wq') = Len(wq) - 1
        /\ \A i \in 1 .. Len(wq') : wq'[i] = wq[i + 1] /\ i \in Nat
    <3>1. wq' = Tail(wq)
      BY <2>4 DEF ConInc
    <3>2. /\ Tail(wq) \in Seq(Chars \cup {"query"})
          /\ Len(Tail(wq)) = Len(wq) - 1
          /\ \A i \in 1 .. Len(wq) - 1 : Tail(wq)[i] = wq[i + 1]
      BY <2>3, <2>4, Queue
    <3> QED BY <3>1, <3>2
  <2>6. /\ job' \in [Task -> Job] /\ job'[p].c = None /\ job'[p].n = job[p].n
        /\ job'[p].left = job[p].left
        /\ \A q \in Task : q # p => job'[q] = job[q]
    <3>1. job' = [job EXCEPT ![p] = [@ EXCEPT !.c = None]]
      BY DEF ConInc
    <3>2. [job[p] EXCEPT !.c = None] \in Job
      BY <2>3, JobChanges
    <3>3. /\ job' \in [Task -> Job] /\ job'[p] = [job[p] EXCEPT !.c = None]
          /\ \A q \in Task : q # p => job'[q] = job[q]
      BY <3>1, <3>2 DEF TaskTypes
    <3>4. job'[p].c = None /\ job'[p].n = job[p].n /\ job'[p].left = job[p].left
      BY <2>3, <3>3 DEF Job
    <3> QED BY <3>3, <3>4
  <2>7. Len(rq) <= Cap /\ Len(wq') <= Cap
    BY <2>4, <2>5, TtyAssumption DEF Sound
  <2>8. job'[p].n = Len(wq')
    BY <2>2, <2>3, <2>5, <2>6 DEF Job
  <2>9. \A i \in 1 .. Len(wq') : wq'[i] = "query" => i = Len(wq') /\ rq = <<>>
    <3> SUFFICES ASSUME NEW i \in 1 .. Len(wq'), wq'[i] = "query"
                 PROVE  i = Len(wq') /\ rq = <<>>
      OBVIOUS
    <3>1. i + 1 \in 1 .. Len(wq) /\ wq[i + 1] = "query"
      BY <2>4, <2>5
    <3>2. i + 1 = Len(wq) /\ rq = <<>>
      BY <3>1 DEF QueryOK
    <3>3. i = Len(wq')
      <4> DEFINE l == Len(wq)
                 m == Len(wq')
      <4>1. l \in Nat /\ m = l - 1 /\ i + 1 = l /\ i \in 1 .. m
        BY <2>4, <2>5, <3>2
      <4> HIDE DEF l, m
      <4>2. i = m
        BY <4>1
      <4> QED BY <4>2 DEF m
    <3> QED BY <3>2, <3>3, Zenon
  <2>10. CASE job[p].c # "query"
    <3>1. ~irq' /\ rq' = rq
      BY <2>1, <2>10 DEF ConInc
    <3>2. ~broken'
      <4>1. ~broken /\ broken' = (broken \/ wq = <<>>)
        BY <2>10 DEF ConInc, Sound
      <4> QED BY <2>4, <4>1, Zenon
    <3>3. irq' = FALSE
      BY <2>1, <2>10, Zenon DEF ConInc, Types
    <3> QED BY <2>1, <2>2, <2>3, <2>4, <2>5, <2>6, <2>7, <2>8, <2>9, <3>1,
        <3>2, <3>3
        DEF ConInc, TaskTypes, Points, queues
  <2>11. CASE job[p].c = "query"
    <3>1. Len(wq) = 1 /\ rq = <<>>
      BY <2>2, <2>4, <2>11 DEF QueryOK
    <3>2. wq' = <<>> /\ Len(wq') = 0
      BY <2>5, <3>1, Queue
    <3>3. irq' = TRUE /\ rq' = Append(<<>>, "a") /\ "a" \in Chars
      <4>1. Len(<<>>) < Cap
        BY TtyAssumption
      <4> QED BY <2>11, <3>1, <4>1 DEF ConInc, Chars
    <3>4. rq' \in Seq(Chars) /\ ToSet(rq') = {"a"} /\ Len(rq') = 1
      <4>1. ASSUME NEW e \in Seq(Chars)
            PROVE  /\ Append(e, "a") \in Seq(Chars)
                   /\ Len(Append(e, "a")) = Len(e) + 1
                   /\ ToSet(Append(e, "a")) = ToSet(e) \cup {"a"}
        <5>1. "a" \in Chars
          BY DEF Chars
        <5> QED BY <5>1, Queue
      <4>2. <<>> \in Seq(Chars) /\ ToSet(<<>>) = {} /\ Len(<<>>) = 0
        BY DEF ToSet
      <4>3. /\ Append(<<>>, "a") \in Seq(Chars)
            /\ Len(Append(<<>>, "a")) = Len(<<>>) + 1
            /\ ToSet(Append(<<>>, "a")) = ToSet(<<>>) \cup {"a"}
        BY <4>1, <4>2, Zenon
      <4>4. rq' \in Seq(Chars) /\ ToSet(rq') = {} \cup {"a"} /\ Len(rq') = Len(<<>>) + 1
        BY <3>3, <4>2, <4>3, Zenon
      <4>5. Len(rq') = 0 + 1
        BY <4>2, <4>4, Zenon
      <4> QED BY <4>4, <4>5
    <3>5. ~broken'
      <4>1. /\ ~broken /\ broken' = (broken \/ wq = <<>> \/ Len(rq) = Cap)
            /\ Len(rq) # Cap
        BY <2>11, <3>1, TtyAssumption DEF ConInc, Sound
      <4> QED BY <2>4, <4>1, Zenon
    <3> QED BY <2>1, <2>2, <2>3, <2>4, <2>5, <2>6, <2>7, <2>8, <2>9, <3>2,
        <3>3, <3>4, <3>5, TtyAssumption
        DEF ConInc, TaskTypes, Points, queues
  <2> QED BY <2>10, <2>11
<1>2. Types'
  BY <1>1 DEF Types, Allowed
<1>3. TaskTypes'
  BY <1>1 DEF TaskTypes
<1>4. TypeOK'
  BY <1>1 DEF TypeOK
<1>5. CpuOK'
  BY <1>1 DEF CpuOK
<1>6. ReadOK'
  BY <1>1 DEF ReadOK, CpuOK, Held
<1>7. WriteOK'
  BY <1>1 DEF WriteOK, None, CpuOK, Held
<1>8. QueryOK'
  BY <1>1 DEF QueryOK
<1>9. HoldOK'
  BY <1>1 DEF HoldOK, QueryOK, CpuOK, Held, None
<1>10. SendOK'
  BY <1>1 DEF SendOK, Sending, CpuOK, Held, Types
<1>11. Sound'
  BY <1>1 DEF Sound
<1>12. SleepOK'
  BY <1>1 DEF SleepOK, CpuOK, Held, TypeOK
<1> QED BY <1>2, <1>3, <1>4, <1>5, <1>6, <1>7, <1>8, <1>9, <1>10, <1>11, <1>12

LEMMA WriteNextKeeps ==
    ASSUME NoRaces, IInv, NEW p \in Task, WriteNext(p)
    PROVE  IInv'
<1> USE TtyAssumption, NoneAssumption DEF IInv
<1>1. /\ ~irq /\ cpu = p /\ pc[p] = "cnext" /\ job[p].n = 0
      /\ pc' \in [Task -> Points] /\ pc'[p] \in {"user", "wtest"}
      /\ job' \in [Task -> Job] /\ cpu' = None
      /\ job'[p] \in {job[p], NoJob}
      /\ kind = "console" => wq = <<>> /\ Len(wq) = 0
      /\ \A q \in Task : q # p => job'[q] = job[q] /\ pc'[q] = pc[q]
      /\ UNCHANGED <<kind, mode, rq, sq, wq, lines, irq, thre, broken, asleep,
                     signal, alarm>>
  <2>1. ~irq /\ cpu = p /\ pc[p] = "cnext" /\ job[p].n = 0
    BY DEF WriteNext, At
  <2>2. kind = "console" => wq = <<>> /\ Len(wq) = 0
    BY <2>1, Queue DEF WriteOK, Types
  <2>3. /\ job' \in [Task -> Job] /\ job'[p] \in {job[p], NoJob}
        /\ \A q \in Task : q # p => job'[q] = job[q]
    BY NoJobTyped DEF WriteNext, TaskTypes
  <2>4. /\ pc' \in [Task -> Points] /\ pc'[p] \in {"user", "wtest"}
        /\ \A q \in Task : q # p => pc'[q] = pc[q]
    BY DEF WriteNext, Goto, TaskTypes, Points
  <2> QED BY <2>1, <2>2, <2>3, <2>4 DEF WriteNext, queues
<1>2. Types'
  BY <1>1 DEF Types, Allowed
<1>3. TaskTypes'
  BY <1>1 DEF TaskTypes
<1>4. TypeOK'
  BY <1>1 DEF TypeOK
<1>5. CpuOK'
  BY <1>1 DEF CpuOK, Held
<1>6. ReadOK'
  BY <1>1 DEF ReadOK
<1>7. WriteOK'
  BY <1>1 DEF WriteOK, NoJob
<1>8. QueryOK'
  BY <1>1 DEF QueryOK
<1>9. HoldOK'
  BY <1>1 DEF HoldOK, NoJob, None
<1>10. SendOK'
  BY <1>1 DEF SendOK
<1>11. Sound'
  BY <1>1 DEF Sound
<1>12. SleepOK'
  BY <1>1 DEF SleepOK, CpuOK, Held, TypeOK
<1> QED BY <1>2, <1>3, <1>4, <1>5, <1>6, <1>7, <1>8, <1>9, <1>10, <1>11, <1>12

(* ... the transmitter ... *)
LEMMA TransmitKeeps ==
    ASSUME NoRaces, IInv, Transmit
    PROVE  IInv'
<1> USE TtyAssumption, NoneAssumption DEF IInv
<1>1. /\ ~irq /\ kind = "serial"
      /\ wq' \in Seq(Chars \cup {"query"}) /\ Len(wq') \in Nat
      /\ Len(wq') <= Len(wq)
      /\ thre' \in BOOLEAN /\ (wq' # <<>> => thre')
      /\ \A i \in 1 .. Len(wq) : wq[i] # "query"
      /\ \A i \in 1 .. Len(wq') : wq'[i] # "query"
      /\ asleep' \subseteq asleep
      /\ \A p \in asleep' : pc[p] = "wfull" => thre'
      /\ UNCHANGED <<kind, mode, rq, sq, lines, irq, broken, pc, cpu, signal,
                     alarm, job>>
  <2>1. /\ ~irq /\ kind = "serial" /\ thre
    BY DEF Transmit, SendOK
  <2>2. wq \in Seq(Chars \cup {"query"}) /\ \A i \in 1 .. Len(wq) : wq[i] # "query"
    BY <2>1 DEF Types, QueryOK
  <2>3. Len(wq) \in Nat /\ (wq = <<>> <=> Len(wq) = 0)
    BY <2>2, Queue
  <2>4. /\ wq' \in Seq(Chars \cup {"query"}) /\ Len(wq') \in Nat
        /\ Len(wq') <= Len(wq)
        /\ wq' # <<>> => Len(wq) > 1
        /\ \A i \in 1 .. Len(wq') : wq'[i] # "query"
    <3>1. CASE wq = <<>>
      BY <2>2, <2>3, <3>1 DEF Transmit
    <3>2. CASE wq # <<>>
      <4>1. wq' = Tail(wq)
        BY <3>2 DEF Transmit
      <4>2. /\ Tail(wq) \in Seq(Chars \cup {"query"})
            /\ Len(Tail(wq)) = Len(wq) - 1
            /\ \A i \in 1 .. Len(wq) - 1 : Tail(wq)[i] = wq[i + 1]
        BY <2>2, <3>2, Queue
      <4>3. wq' = <<>> <=> Len(wq') = 0
        BY <4>1, <4>2, Queue
      <4>4. Len(wq') = Len(wq) - 1 /\ \A i \in 1 .. Len(wq') : wq'[i] = wq[i + 1]
        BY <4>1, <4>2
      <4> HIDE DEF IInv
      <4>5. \A i \in 1 .. Len(wq') : wq'[i] # "query"
        BY <2>2, <2>3, <4>4
      <4> QED BY <2>3, <3>2, <4>1, <4>2, <4>3, <4>4, <4>5
    <3> QED BY <3>1, <3>2
  <2>5. thre' = (Len(wq) > 1)
    BY DEF Transmit
  <2>6. asleep' \subseteq asleep /\ \A p \in asleep' : pc[p] = "wfull" => thre'
    <3>1. CASE Len(wq) > 1
      BY <2>5, <3>1 DEF Transmit
    <3>2. CASE ~(Len(wq) > 1)
      <4>1. Len(wq) <= Startup \/ Len(wq) = 1
        <5>1. Startup \in Nat
          BY TtyAssumption
        <5>2. Len(wq) = 0 \/ Len(wq) = 1
          <6> DEFINE l == Len(wq)
          <6>1. l \in Nat /\ ~(l > 1)
            BY <2>3, <3>2
          <6> HIDE DEF l
          <6>2. l = 0 \/ l = 1
            BY <6>1
          <6> QED BY <6>2 DEF l
        <5> QED BY <5>1, <5>2
      <4>2. asleep' = asleep \ Writers
        BY <4>1 DEF Transmit
      <4> QED BY <4>2 DEF Writers, Readers, TypeOK
    <3> QED BY <3>1, <3>2
  <2>7. thre' \in BOOLEAN /\ (wq' # <<>> => thre')
    <3>1. CASE Len(wq) > 1
      BY <2>5, <3>1
    <3>2. CASE ~(Len(wq) > 1)
      BY <2>4, <2>5, <3>2
    <3> QED BY <3>1, <3>2
  <2> QED BY <2>1, <2>2, <2>4, <2>6, <2>7 DEF Transmit, queues
<1>2. Types'
  BY <1>1 DEF Types, Allowed
<1>3. TaskTypes'
  BY <1>1 DEF TaskTypes
<1>4. TypeOK'
  BY <1>1 DEF TypeOK
<1>5. CpuOK'
  BY <1>1 DEF CpuOK
<1>6. ReadOK'
  BY <1>1 DEF ReadOK
<1>7. WriteOK'
  BY <1>1 DEF WriteOK
<1>8. QueryOK'
  BY <1>1 DEF QueryOK
<1>9. HoldOK'
  BY <1>1 DEF HoldOK
<1>10. SendOK'
  BY <1>1 DEF SendOK
<1>11. Sound'
  BY <1>1 DEF Sound
<1>12. SleepOK'
  BY <1>1 DEF SleepOK
<1> QED BY <1>2, <1>3, <1>4, <1>5, <1>6, <1>7, <1>8, <1>9, <1>10, <1>11, <1>12

(* ... ioctl, and the beginning of a call ... *)
LEMMA SetTermiosKeeps ==
    ASSUME NoRaces, IInv, NEW p \in Task, SetTermios(p)
    PROVE  IInv'
<1> USE TtyAssumption, NoneAssumption DEF IInv
<1>1. /\ ~irq /\ cpu = None
      /\ \A q \in Task : pc[q] \in {"user", "rtest", "wtest", "wfull"}
      /\ mode' \in Modes /\ (kind = "console" \/ ~mode'.echo)
      /\ rq' \in {rq, <<>>}
      /\ <<>> \in Seq(Chars) /\ Len(<<>>) = 0 /\ Len(rq') <= Cap
      /\ \A i \in 1 .. Len(wq) : wq[i] # "query"
      /\ UNCHANGED <<kind, sq, wq, lines, irq, thre, broken, pc, cpu, asleep,
                     signal, alarm, job>>
  <2>1. ~irq /\ cpu = None
    BY DEF SetTermios, User
  <2>2. \A q \in Task : pc[q] \in {"user", "rtest", "wtest", "wfull"}
    BY <2>1 DEF CpuOK, Held, TaskTypes, Points
  <2>3. \A i \in 1 .. Len(wq) : wq[i] # "query"
    BY <2>2 DEF QueryOK
  <2>4. mode' \in Modes /\ (kind = "console" \/ ~mode'.echo)
    BY DEF SetTermios, Allowed, NoRaces
  <2>5. rq' \in {rq, <<>>} /\ <<>> \in Seq(Chars) /\ Len(<<>>) = 0
    BY DEF SetTermios
  <2>6. Len(rq') <= Cap
    BY <2>5, TtyAssumption DEF Sound
  <2> QED BY <2>1, <2>2, <2>3, <2>4, <2>5, <2>6 DEF SetTermios, queues
<1>2. Types'
  BY <1>1 DEF Types, Allowed
<1>3. TaskTypes'
  BY <1>1 DEF TaskTypes
<1>4. TypeOK'
  BY <1>1 DEF TypeOK
<1>5. CpuOK'
  BY <1>1 DEF CpuOK
<1>6. ReadOK'
  BY <1>1 DEF ReadOK
<1>7. WriteOK'
  BY <1>1 DEF WriteOK
<1>8. QueryOK'
  BY <1>1 DEF QueryOK
<1>9. HoldOK'
  BY <1>1 DEF HoldOK
<1>10. SendOK'
  BY <1>1 DEF SendOK
<1>11. Sound'
  BY <1>1 DEF Sound
<1>12. SleepOK'
  BY <1>1 DEF SleepOK
<1> QED BY <1>2, <1>3, <1>4, <1>5, <1>6, <1>7, <1>8, <1>9, <1>10, <1>11, <1>12

LEMMA FlushKeeps ==
    ASSUME NoRaces, IInv, NEW p \in Task, Flush(p)
    PROVE  IInv'
<1> USE TtyAssumption, NoneAssumption DEF IInv
<1>1. /\ ~irq /\ cpu = None
      /\ \A q \in Task : pc[q] \in {"user", "rtest", "wtest", "wfull"}
      /\ rq' \in {rq, <<>>} /\ wq' \in {wq, <<>>}
      /\ <<>> \in Seq(Chars) /\ <<>> \in Seq(Chars \cup {"query"})
      /\ Len(<<>>) = 0
      /\ Len(rq') <= Cap /\ Len(wq') <= Cap
      /\ \A i \in 1 .. Len(wq') : wq'[i] # "query"
      /\ UNCHANGED <<kind, mode, sq, lines, irq, thre, broken, pc, cpu, asleep,
                     signal, alarm, job>>
  <2>1. ~irq /\ cpu = None
    BY DEF Flush, User
  <2>2. \A q \in Task : pc[q] \in {"user", "rtest", "wtest", "wfull"}
    BY <2>1 DEF CpuOK, Held, TaskTypes, Points
  <2>3. \A i \in 1 .. Len(wq) : wq[i] # "query"
    BY <2>2 DEF QueryOK
  <2>4. /\ rq' \in {rq, <<>>} /\ wq' \in {wq, <<>>} /\ Len(<<>>) = 0
        /\ <<>> \in Seq(Chars) /\ <<>> \in Seq(Chars \cup {"query"})
    BY DEF Flush
  <2>5. Len(rq') <= Cap /\ Len(wq') <= Cap
    BY <2>4, TtyAssumption DEF Sound
  <2>6. \A i \in 1 .. Len(wq') : wq'[i] # "query"
    BY <2>3, <2>4
  <2> QED BY <2>1, <2>2, <2>4, <2>5, <2>6 DEF Flush, queues
<1>2. Types'
  BY <1>1 DEF Types, Allowed
<1>3. TaskTypes'
  BY <1>1 DEF TaskTypes
<1>4. TypeOK'
  BY <1>1 DEF TypeOK
<1>5. CpuOK'
  BY <1>1 DEF CpuOK
<1>6. ReadOK'
  BY <1>1 DEF ReadOK
<1>7. WriteOK'
  BY <1>1 DEF WriteOK
<1>8. QueryOK'
  BY <1>1 DEF QueryOK
<1>9. HoldOK'
  BY <1>1 DEF HoldOK
<1>10. SendOK'
  BY <1>1 DEF SendOK
<1>11. Sound'
  BY <1>1 DEF Sound
<1>12. SleepOK'
  BY <1>1 DEF SleepOK
<1> QED BY <1>2, <1>3, <1>4, <1>5, <1>6, <1>7, <1>8, <1>9, <1>10, <1>11, <1>12

LEMMA StartReadKeeps ==
    ASSUME NoRaces, IInv, NEW p \in Task, NEW n \in 1 .. MaxNr, StartRead(p, n)
    PROVE  IInv'
<1> USE TtyAssumption, NoneAssumption DEF IInv
<1>1. /\ ~irq /\ cpu = None /\ pc[p] = "user"
      /\ pc' \in [Task -> Points] /\ pc'[p] = "rtest"
      /\ job' \in [Task -> Job] /\ cpu' = p
      /\ job'[p].c = None /\ job'[p].n = 0
      /\ alarm' \in [Task -> {None, "own", "read"}]
      /\ \A q \in Task : q # p => job'[q] = job[q] /\ pc'[q] = pc[q]
      /\ UNCHANGED <<kind, mode, rq, sq, wq, lines, irq, thre, broken, asleep,
                     signal>>
  <2>1. /\ ~irq /\ cpu = None /\ pc[p] = "user" /\ cpu' = p
        /\ pc' = [pc EXCEPT ![p] = "rtest"]
    BY DEF StartRead, User, Goto
  <2> DEFINE only == mode.timed /\ mode.min = 0
             min  == IF only THEN 1 ELSE mode.min
             m    == IF min > n THEN n ELSE min
             r(f) == [NoJob EXCEPT !.left = n, !.flag = f, !.min = m,
                                   !.timed = mode.timed, !.old = alarm[p]]
  <2>2. PICK flag \in BOOLEAN :
           /\ job' = [job EXCEPT ![p] = r(flag)]
           /\ alarm' = IF flag THEN [alarm EXCEPT ![p] = "read"] ELSE alarm
    BY DEF StartRead, Later
  <2>3. mode \in Mode /\ alarm[p] \in {None, "own", "read"} /\ n \in Nat
    BY DEF Types, TypeOK
  <2>4. m \in Nat /\ mode.timed \in BOOLEAN
    BY <2>3 DEF Mode
  <2> HIDE DEF m
  <2>5. r(flag) \in Job /\ r(flag).c = None /\ r(flag).n = 0
    <3>1. NoJob \in Job /\ NoJob.c = None /\ NoJob.n = 0
      BY NoJobTyped DEF NoJob
    <3>2. mode.timed \in BOOLEAN /\ flag \in BOOLEAN /\ n \in Int
      BY <2>3, <2>4
    <3> QED BY <2>3, <2>4, <3>1, <3>2 DEF Job
  <2> HIDE DEF r
  <2>6. /\ job' \in [Task -> Job] /\ job'[p].c = None /\ job'[p].n = 0
        /\ \A q \in Task : q # p => job'[q] = job[q]
    BY <2>2, <2>5 DEF TaskTypes
  <2>7. alarm' \in [Task -> {None, "own", "read"}]
    BY <2>2 DEF TypeOK
  <2> QED BY <2>1, <2>6, <2>7 DEF StartRead, TaskTypes, Points, queues
<1>2. Types'
  BY <1>1 DEF Types, Allowed
<1>3. TaskTypes'
  BY <1>1 DEF TaskTypes
<1>4. TypeOK'
  BY <1>1 DEF TypeOK
<1>5. CpuOK'
  BY <1>1 DEF CpuOK
<1>6. ReadOK'
  BY <1>1 DEF ReadOK
<1>7. WriteOK'
  BY <1>1 DEF WriteOK
<1>8. QueryOK'
  BY <1>1 DEF QueryOK, CpuOK, Held
<1>9. HoldOK'
  BY <1>1 DEF HoldOK, None
<1>10. SendOK'
  BY <1>1 DEF SendOK, Sending, CpuOK, Held, Types
<1>11. Sound'
  BY <1>1 DEF Sound
<1>12. SleepOK'
  BY <1>1 DEF SleepOK, CpuOK, Held, TypeOK
<1> QED BY <1>2, <1>3, <1>4, <1>5, <1>6, <1>7, <1>8, <1>9, <1>10, <1>11, <1>12

LEMMA StartWriteKeeps ==
    ASSUME NoRaces, IInv, NEW p \in Task, NEW n \in 1 .. MaxNr, StartWrite(p, n)
    PROVE  IInv'
<1> USE TtyAssumption, NoneAssumption DEF IInv
<1>1. /\ ~irq /\ cpu = None /\ pc[p] = "user"
      /\ pc' \in [Task -> Points] /\ pc'[p] = "wtest"
      /\ job' \in [Task -> Job] /\ cpu' = p
      /\ job'[p].c = None /\ job'[p].n = 0
      /\ \A q \in Task : q # p => job'[q] = job[q] /\ pc'[q] = pc[q]
      /\ UNCHANGED <<kind, mode, rq, sq, wq, lines, irq, thre, broken, asleep,
                     signal, alarm>>
  <2>1. /\ ~irq /\ cpu = None /\ pc[p] = "user" /\ cpu' = p
        /\ pc' = [pc EXCEPT ![p] = "wtest"]
        /\ job' = [job EXCEPT ![p] = [NoJob EXCEPT !.left = n]]
    BY DEF StartWrite, User, Goto
  <2> DEFINE r == [NoJob EXCEPT !.left = n]
  <2>2. r \in Job /\ r.c = None /\ r.n = 0
    <3>1. NoJob \in Job /\ NoJob.c = None /\ NoJob.n = 0 /\ n \in Int
      BY NoJobTyped DEF NoJob
    <3> QED BY <3>1 DEF Job
  <2> HIDE DEF r
  <2>3. job' = [job EXCEPT ![p] = r]
    BY <2>1 DEF r
  <2>4. /\ job' \in [Task -> Job] /\ job'[p].c = None /\ job'[p].n = 0
        /\ \A q \in Task : q # p => job'[q] = job[q]
    BY <2>2, <2>3 DEF TaskTypes
  <2> QED BY <2>1, <2>4 DEF StartWrite, TaskTypes, Points, queues
<1>2. Types'
  BY <1>1 DEF Types, Allowed
<1>3. TaskTypes'
  BY <1>1 DEF TaskTypes
<1>4. TypeOK'
  BY <1>1 DEF TypeOK
<1>5. CpuOK'
  BY <1>1 DEF CpuOK
<1>6. ReadOK'
  BY <1>1 DEF ReadOK
<1>7. WriteOK'
  BY <1>1 DEF WriteOK
<1>8. QueryOK'
  BY <1>1 DEF QueryOK, CpuOK, Held
<1>9. HoldOK'
  BY <1>1 DEF HoldOK, None
<1>10. SendOK'
  BY <1>1 DEF SendOK, Sending, CpuOK, Held, Types
<1>11. Sound'
  BY <1>1 DEF Sound
<1>12. SleepOK'
  BY <1>1 DEF SleepOK, CpuOK, Held, TypeOK
<1> QED BY <1>2, <1>3, <1>4, <1>5, <1>6, <1>7, <1>8, <1>9, <1>10, <1>11, <1>12

(* ... signals and alarms ... *)
LEMMA DeliverKeeps ==
    ASSUME NoRaces, IInv, NEW p \in Task, Deliver(p)
    PROVE  IInv'
<1> USE TtyAssumption, NoneAssumption DEF IInv
<1>2. Types'
  BY DEF Deliver, User, queues, Types, Allowed
<1>3. TaskTypes'
  BY DEF Deliver, User, queues, TaskTypes
<1>4. TypeOK'
  BY DEF Deliver, User, queues, TypeOK
<1>5. CpuOK'
  BY DEF Deliver, User, queues, CpuOK
<1>6. ReadOK'
  BY DEF Deliver, User, queues, ReadOK
<1>7. WriteOK'
  BY DEF Deliver, User, queues, WriteOK
<1>8. QueryOK'
  BY DEF Deliver, User, queues, QueryOK
<1>9. HoldOK'
  BY DEF Deliver, User, queues, HoldOK
<1>10. SendOK'
  BY DEF Deliver, User, queues, SendOK
<1>11. Sound'
  BY DEF Deliver, User, queues, Sound
<1>12. SleepOK'
  BY DEF Deliver, User, queues, SleepOK
<1> QED BY <1>2, <1>3, <1>4, <1>5, <1>6, <1>7, <1>8, <1>9, <1>10, <1>11, <1>12

LEMMA AlarmRingsKeeps ==
    ASSUME NoRaces, IInv, NEW p \in Task, AlarmRings(p)
    PROVE  IInv'
<1> USE TtyAssumption, NoneAssumption DEF IInv
<1>2. Types'
  BY DEF AlarmRings, queues, Types, Allowed
<1>3. TaskTypes'
  BY DEF AlarmRings, queues, TaskTypes
<1>4. TypeOK'
  BY DEF AlarmRings, queues, TypeOK
<1>5. CpuOK'
  BY DEF AlarmRings, queues, CpuOK
<1>6. ReadOK'
  BY DEF AlarmRings, queues, ReadOK
<1>7. WriteOK'
  BY DEF AlarmRings, queues, WriteOK
<1>8. QueryOK'
  BY DEF AlarmRings, queues, QueryOK
<1>9. HoldOK'
  BY DEF AlarmRings, queues, HoldOK
<1>10. SendOK'
  BY DEF AlarmRings, queues, SendOK
<1>11. Sound'
  BY DEF AlarmRings, queues, Sound
<1>12. SleepOK'
  BY DEF AlarmRings, queues, SleepOK
<1> QED BY <1>2, <1>3, <1>4, <1>5, <1>6, <1>7, <1>8, <1>9, <1>10, <1>11, <1>12

(* ... and a turn of the loop of copy_to_cooked. *)
LEMMA CookKeeps ==
    ASSUME NoRaces, IInv, Cook
    PROVE  IInv'
<1> USE TtyAssumption, NoneAssumption DEF IInv
<1>1. /\ irq /\ irq'
      /\ rq' \in Seq(Chars) /\ Len(rq') <= Cap /\ ToSet(rq') \subseteq ToSet(rq)
      /\ sq' \in Seq(Chars)
      /\ Len(sq') <= Cap /\ lines' = NEnds(sq') /\ lines' \in 0 .. Cap /\ ~broken'
      /\ ToSet(rq) \cap {"erase", "kill"} = {} /\ sq # <<>> =>
            sq' # <<>> /\ Head(sq') = Head(sq)
      /\ wq' = wq \/ (kind = "console" /\ mode.echo /\ wq' = <<>>)
      /\ <<>> \in Seq(Chars \cup {"query"}) /\ Len(<<>>) = 0
      /\ \A i \in 1 .. Len(wq) : wq[i] # "query"
      /\ \A p \in Task : job[p].c # "query"
      /\ signal' \in [Task -> SUBSET {"int", "alrm"}]
      /\ \A p \in Task : signal'[p] = {} => signal[p] = {}
      /\ UNCHANGED <<kind, mode, irq, thre, pc, cpu, asleep, alarm, job>>
  <2>1. /\ irq /\ rq \in Seq(Chars) /\ sq \in Seq(Chars) /\ rq # <<>>
        /\ Len(sq) < Cap
        /\ rq' = Tail(rq) /\ irq' = irq
        /\ UNCHANGED <<kind, mode, thre, pc, cpu, asleep, alarm, job>>
    <3>1. irq /\ thre' = thre
      BY DEF Cook, Echo, NoRaces, Types, Allowed
    <3> QED BY <3>1 DEF Cook, Types
  <2> DEFINE c == Head(rq)
  <2>2. /\ rq' \in Seq(Chars)
        /\ Len(rq') <= Cap /\ ToSet(rq') \subseteq ToSet(rq)
        /\ c \in Chars /\ c \in ToSet(rq)
    <3>1. /\ rq' \in Seq(Chars) /\ Len(rq') = Len(rq) - 1
          /\ ToSet(rq') \subseteq ToSet(rq)
          /\ Len(rq) \in Nat /\ (rq = <<>> <=> Len(rq) = 0) /\ c = rq[1]
          /\ ToSet(rq) = {rq[i] : i \in 1 .. Len(rq)}
          /\ \A i \in 1 .. Len(rq) : rq[i] \in Chars
      BY <2>1, Queue
    <3>2. 1 \in 1 .. Len(rq) /\ Len(rq') <= Cap
      BY <2>1, <3>1, TtyAssumption DEF Sound
    <3> QED BY <3>1, <3>2
  <2>3. /\ \A i \in 1 .. Len(wq) : wq[i] # "query"
        /\ \A p \in Task : job[p].c # "query"
    BY <2>1 DEF QueryOK, HoldOK
  <2>4. ASSUME NEW n, Echo(n)
        PROVE  /\ wq' = wq \/ (kind = "console" /\ mode.echo /\ wq' = <<>>)
               /\ ~broken'
    <3>1. kind = "console" \/ ~mode.echo
      BY DEF Types, Allowed, NoRaces
    <3>2. ~broken /\ \A p \in Task : pc[p] = "winc" => ~mode.echo
      BY <2>1 DEF Sound, WriteOK
    <3>3. CASE ~mode.echo \/ n = 0
      BY <2>4, <3>2, <3>3 DEF Echo
    <3>4. CASE ~(~mode.echo \/ n = 0)
      <4>1. kind = "console" /\ mode.echo
        BY <3>1, <3>4
      <4>2. /\ wq' = <<>>
            /\ broken' = (broken \/ \E p \in Task : pc[p] = "winc")
        BY <2>4, <3>4, <4>1 DEF Echo
      <4>3. ~broken'
        BY <3>2, <4>1, <4>2, Zenon
      <4> QED BY <4>1, <4>2, <4>3
    <3> QED BY <3>3, <3>4
  <2>5. /\ Len(sq) \in Nat /\ (sq = <<>> <=> Len(sq) = 0)
        /\ lines = NEnds(sq) /\ ~broken
        /\ \A i \in 1 .. Len(sq) : sq[i] \in Chars
    BY <2>1, Queue DEF Sound
  <2> DEFINE Input == /\ sq' \in Seq(Chars) /\ Len(sq') <= Cap /\ lines' = NEnds(sq')
                      /\ c \in {"erase", "kill"}
                           \/ (sq # <<>> => sq' # <<>> /\ Head(sq') = Head(sq))
             Output == /\ ~broken'
                       /\ wq' = wq \/ (kind = "console" /\ mode.echo /\ wq' = <<>>)
             Asks == /\ signal' \in [Task -> SUBSET {"int", "alrm"}]
                     /\ \A p \in Task : signal'[p] = {} => signal[p] = {}
  <2>6. ASSUME c = "kill" /\ mode.canon PROVE Input /\ Output /\ Asks
    <3>1. /\ sq' = SubSeq(sq, 1, Tail0) /\ lines' = lines /\ signal' = signal
          /\ Echo(Len(sq) - Tail0)
      BY <2>6 DEF Cook
    <3>2. Tail0 \in 0 .. Len(sq) /\ \A i \in Tail0 + 1 .. Len(sq) : sq[i] \notin Ends
      BY <2>1, LineStart
    <3>3. /\ SubSeq(sq, 1, Tail0) \in Seq(Chars)
          /\ Len(SubSeq(sq, 1, Tail0)) = Tail0
          /\ NEnds(SubSeq(sq, 1, Tail0)) = NEnds(sq)
      BY <2>1, <3>2, EndsPrefix
    <3>4. Input
      BY <2>1, <2>5, <2>6, <3>1, <3>2, <3>3, TtyAssumption
    <3>5. Output
      BY <2>4, <3>1
    <3>6. Asks
      BY <3>1 DEF TypeOK
    <3> QED BY <3>4, <3>5, <3>6
  <2>7. ASSUME c = "erase" /\ mode.canon /\ Len(sq) > Tail0
        PROVE  Input /\ Output /\ Asks
    <3>1. sq' = Front(sq) /\ lines' = lines /\ signal' = signal /\ Echo(1)
      BY <2>7 DEF Cook
    <3>2. Tail0 \in 0 .. Len(sq) /\ \A i \in Tail0 + 1 .. Len(sq) : sq[i] \notin Ends
      BY <2>1, LineStart
    <3> DEFINE k == Len(sq) - 1
    <3>3. k \in 0 .. Len(sq) /\ \A i \in k + 1 .. Len(sq) : sq[i] \notin Ends
      <4>1. k \in Nat /\ k >= Tail0
        BY <2>5, <2>7, <3>2
      <4>2. \A i \in k + 1 .. Len(sq) : i \in Tail0 + 1 .. Len(sq)
        BY <2>5, <3>2, <4>1
      <4> QED BY <2>5, <3>2, <4>1, <4>2
    <3>4. sq' = SubSeq(sq, 1, k)
      BY <3>1 DEF Front
    <3> HIDE DEF k
    <3>5. /\ SubSeq(sq, 1, k) \in Seq(Chars) /\ Len(SubSeq(sq, 1, k)) = k
          /\ NEnds(SubSeq(sq, 1, k)) = NEnds(sq)
      BY <2>1, <3>3, EndsPrefix
    <3>6. Input
      BY <2>1, <2>5, <2>7, <3>1, <3>3, <3>4, <3>5, TtyAssumption
    <3>7. Output
      BY <2>4, <3>1
    <3>8. Asks
      BY <3>1 DEF TypeOK
    <3> QED BY <3>6, <3>7, <3>8
  <2>8. ASSUME c = "erase" /\ mode.canon /\ ~(Len(sq) > Tail0)
        PROVE  Input /\ Output /\ Asks
    <3>1. UNCHANGED <<sq, wq, broken, lines, signal>>
      BY <2>8 DEF Cook
    <3> QED BY <2>1, <2>5, <2>8, <3>1, TtyAssumption DEF TypeOK, Sound
  <2>9. ASSUME c = "intr" /\ mode.isig PROVE Input /\ Output /\ Asks
    <3>1. /\ UNCHANGED <<sq, wq, broken, lines>>
          /\ signal' = [p \in Task |-> signal[p] \cup IF p \in Group THEN {"int"} ELSE {}]
      BY <2>9 DEF Cook
    <3>2. Asks
      BY <3>1 DEF TypeOK
    <3> QED BY <2>1, <2>5, <3>1, <3>2, TtyAssumption DEF Sound
  <2>10. ASSUME ~(c = "kill" /\ mode.canon), ~(c = "erase" /\ mode.canon),
                ~(c = "intr" /\ mode.isig)
         PROVE  Input /\ Output /\ Asks
    <3>1. /\ sq' = Append(sq, c) /\ Echo(1) /\ signal' = signal
          /\ lines' = lines + (IF c \in Ends THEN 1 ELSE 0)
      BY <2>10 DEF Cook
    <3> HIDE DEF c
    <3>2. /\ Append(sq, c) \in Seq(Chars) /\ Append(sq, c) # <<>>
          /\ Len(Append(sq, c)) = Len(sq) + 1
          /\ sq # <<>> => Head(Append(sq, c)) = Head(sq)
      BY <2>1, <2>2, Queue
    <3>3. NEnds(Append(sq, c)) = NEnds(sq) + (IF c \in Ends THEN 1 ELSE 0)
      BY <2>1, <2>2, EndsAppend
    <3>4. Input
      BY <2>1, <2>5, <3>1, <3>2, <3>3, TtyAssumption
    <3>5. Output
      BY <2>4, <3>1
    <3>6. Asks
      BY <3>1 DEF TypeOK
    <3> QED BY <3>4, <3>5, <3>6
  <2>11. Input /\ Output /\ Asks
    <3> HIDE DEF Input, Output, Asks, c
    <3> QED BY <2>6, <2>7, <2>8, <2>9, <2>10, Zenon
  <2>12. <<>> \in Seq(Chars \cup {"query"}) /\ Len(<<>>) = 0
    OBVIOUS
  <2>13. lines' \in 0 .. Cap
    <3>1. lines' \in 0 .. Len(sq') /\ Len(sq') <= Cap /\ Len(sq') \in Nat
      BY <2>11, EndsFinite, LenProperties
    <3> QED BY <3>1, TtyAssumption
  <2>14. ToSet(rq) \cap {"erase", "kill"} = {} /\ sq # <<>> =>
            sq' # <<>> /\ Head(sq') = Head(sq)
    BY <2>2, <2>11
  <2> HIDE DEF c
  <2> QED BY <2>1, <2>2, <2>3, <2>11, <2>12, <2>13, <2>14
<1>2. Types'
  BY <1>1 DEF Types, Allowed
<1>3. TaskTypes'
  BY <1>1 DEF TaskTypes
<1>4. TypeOK'
  BY <1>1, SMTT(20) DEF TypeOK
<1>5. CpuOK'
  BY <1>1 DEF CpuOK
<1>6. ReadOK'
  BY <1>1 DEF ReadOK
<1>7. WriteOK'
  BY <1>1 DEF WriteOK
<1>8. QueryOK'
  BY <1>1 DEF QueryOK
<1>9. HoldOK'
  BY <1>1 DEF HoldOK
<1>10. SendOK'
  BY <1>1 DEF SendOK
<1>11. Sound'
  BY <1>1, SMTT(20) DEF Sound
<1>12. SleepOK'
  BY <1>1 DEF SleepOK, CpuOK, Held, TypeOK
<1> QED BY <1>2, <1>3, <1>4, <1>5, <1>6, <1>7, <1>8, <1>9, <1>10, <1>11, <1>12

(* The invariant holds at the start and is kept by every step. *)
LEMMA IInvInit ==
    ASSUME Init
    PROVE  IInv
<1> USE TtyAssumption, NoneAssumption
<1>1. /\ rq = <<>> /\ sq = <<>> /\ wq = <<>> /\ lines = 0 /\ irq = FALSE
      /\ thre = FALSE
      /\ ~broken /\ cpu = None /\ asleep = {}
      /\ pc = [p \in Task |-> "user"] /\ job = [p \in Task |-> NoJob]
  BY DEF Init
<1>2. /\ Len(<<>>) = 0 /\ <<>> \in Seq(Chars)
      /\ <<>> \in Seq(Chars \cup {"query"})
      /\ NEnds(<<>>) = 0
  <2>1. <<>> \in Seq(Chars) /\ Len(<<>>) = 0 /\ <<>> \in Seq(Chars \cup {"query"})
    OBVIOUS
  <2>2. NEnds(<<>>) \in 0 .. Len(<<>>)
    BY <2>1, EndsFinite, Zenon
  <2> HIDE DEF NEnds
  <2> QED BY <2>1, <2>2
<1>3. Types
  BY <1>1, <1>2 DEF Init, Types
<1>4. TaskTypes /\ \A p \in Task : pc[p] = "user" /\ job[p] = NoJob
  BY <1>1, NoJobTyped DEF TaskTypes, Points
<1>5. TypeOK
  BY <1>1, <1>2 DEF Init, TypeOK
<1>6. CpuOK /\ ReadOK /\ WriteOK
  BY <1>1, <1>4 DEF CpuOK, ReadOK, WriteOK, Held, NoJob
<1>7. QueryOK /\ HoldOK /\ SendOK
  BY <1>1, <1>2, <1>4 DEF QueryOK, HoldOK, SendOK, Sending, NoJob, None
<1>8. Sound /\ SleepOK
  BY <1>1, <1>2 DEF Sound, SleepOK
<1> QED BY <1>3, <1>4, <1>5, <1>6, <1>7, <1>8 DEF IInv

LEMMA IInvInductive ==
    ASSUME NoRaces, IInv, [Next]_vars
    PROVE  IInv'
<1>1. CASE UNCHANGED vars
  BY <1>1 DEF vars, queues, IInv, Types, Allowed, TaskTypes, TypeOK, CpuOK,
        ReadOK,
              WriteOK, QueryOK, HoldOK, SendOK, Sound, SleepOK
<1>2. CASE Next
  <2>1. ASSUME NEW c \in Typed, Key(c) \/ ReadChar(c) PROVE IInv'
    BY <2>1, ArrivesKeeps DEF Key, ReadChar
  <2>2. CASE Cook \/ Cooked \/ Transmit
    BY <2>2, CookKeeps, CookedKeeps, TransmitKeeps
  <2>3. ASSUME NEW p \in Task, Dispatch(p) \/ Step(p) PROVE IInv'
    <3>1. CASE Dispatch(p)
      BY <3>1, DispatchKeeps
    <3>2. CASE \/ ReadLeave(p) \/ ReadTest(p) \/ ReadGet(p) \/ ReadInc(p)
               \/ ReadMore(p) \/ ReadEnd(p)
      BY <3>2, ReadLeaveKeeps, ReadTestKeeps, ReadGetKeeps, ReadIncKeeps,
         ReadMoreKeeps, ReadEndKeeps
    <3>3. CASE \/ WriteTest(p) \/ WriteSleep(p) \/ WriteGo(p) \/ WritePut(p)
               \/ WriteInc(p) \/ WriteOut(p) \/ ConGet(p) \/ ConInc(p) \/ WriteNext(p)
      BY <3>3, WriteTestKeeps, WriteSleepKeeps, WriteGoKeeps, WritePutKeeps,
         WriteIncKeeps, WriteOutKeeps, ConGetKeeps, ConIncKeeps, WriteNextKeeps
    <3> QED BY <2>3, <3>1, <3>2, <3>3 DEF Step
  <2>4. ASSUME NEW p \in Task, NEW n \in 1 .. MaxNr, StartRead(p, n) \/ StartWrite(p, n)
        PROVE  IInv'
    BY <2>4, StartReadKeeps, StartWriteKeeps
  <2>5. ASSUME NEW p \in Task,
               SetTermios(p) \/ Flush(p) \/ Deliver(p) \/ AlarmRings(p)
        PROVE  IInv'
    BY <2>5, SetTermiosKeeps, FlushKeeps, DeliverKeeps, AlarmRingsKeeps
  <2> QED BY <1>2, <2>1, <2>2, <2>3, <2>4, <2>5 DEF Next
<1> QED BY <1>1, <1>2

LEMMA Inductive == ASSUME NoRaces PROVE Spec => []IInv
<1>1. Init => IInv
  BY IInvInit
<1>2. IInv /\ [Next]_vars => IInv'
  BY IInvInductive
<1> QED BY <1>1, <1>2, PTL DEF Spec

(* QueuesSound: no queue ever holds what nobody wrote, and secondary.data  *)
(* is the number of ends of line in secondary (PUTCH, GETCH, INC and DEC   *)
(* of tty_io.c, copy_to_cooked, con_write, rs_write and TCFLSH), whatever  *)
(* the sizes of the queues, the modes and the tasks, when an interrupt     *)
(* finds none of the moments that Quiet names.                             *)
THEOREM QueuesAreSound == ASSUME NoRaces PROVE Spec => []QueuesSound
<1>1. IInv => QueuesSound
  <2> SUFFICES ASSUME IInv PROVE QueuesSound
    OBVIOUS
  <2>1. TypeOK /\ ~broken /\ lines = NEnds(sq)
    BY DEF IInv, Sound
  <2> QED BY <2>1, Zenon DEF QueuesSound, NEnds, EndsOf
<1> QED BY <1>1, Inductive, PTL

(* SleepersServed: the wake_up of copy_to_cooked and of rs_io.s come when  *)
(* they must: nobody sleeps in sleep_if_empty with characters there to be  *)
(* read, or in sleep_if_full with the transmitter idle.                    *)
THEOREM NobodySleepsForNothing == ASSUME NoRaces PROVE Spec => []SleepersServed
<1>1. IInv => SleepersServed
  <2> SUFFICES ASSUME IInv, ~irq, NEW p \in asleep, signal[p] = {}
               PROVE  IF p \in Readers THEN sq = <<>> ELSE kind = "serial" /\ thre
    BY DEF SleepersServed
  <2>1. p \in Task /\ pc[p] \in {"rtest", "wfull"}
    BY DEF IInv, TypeOK, CpuOK
  <2>2. /\ pc[p] = "rtest" => sq = <<>>
        /\ pc[p] = "wfull" => kind = "serial" /\ thre
    BY DEF IInv, SleepOK
  <2>3. CASE pc[p] = "rtest"
    BY <2>1, <2>2, <2>3 DEF Readers
  <2>4. CASE pc[p] = "wfull"
    BY <2>1, <2>2, <2>4 DEF Readers
  <2> QED BY <2>1, <2>3, <2>4
<1> QED BY <1>1, Inductive, PTL

(* The alarm of a read: it is set by a read that remembers that it is, in  *)
(* a mode that is not canonical.                                           *)
AlarmInv ==
    \A p \in Task :
        /\ job[p].old # "read"
        /\ alarm[p] = "read" => job[p].flag /\ p \in Readers
        /\ job[p].flag => ~mode.canon

(* No canonical mode has a time limit and no least count, nor is one set   *)
(* under a read that has set the alarm:                                    *)
(* an end of file would end that read with its alarm still set.            *)
NoEofRace ==
    /\ "eof" \notin Races
    /\ \A m \in Modes : m.canon => ~(m.timed /\ m.min = 0)

(* No step loses the alarm of a process. *)
LEMMA AlarmInductive ==
    ASSUME NoEofRace, IInv, IInv', AlarmInv, [Next]_vars
    PROVE  AlarmInv'
<1> USE TtyAssumption, NoneAssumption
<1>1. /\ mode \in Mode /\ mode \in Modes
      /\ job \in [Task -> Job] /\ pc \in [Task -> Points]
      /\ alarm \in [Task -> {None, "own", "read"}]
      /\ cpu # None => pc[cpu] # "user"
  BY DEF IInv, Types, TaskTypes, TypeOK, CpuOK
<1> DEFINE Same(p) == /\ alarm' = alarm /\ mode' = mode
                      /\ job'[p].old = job[p].old /\ job'[p].flag = job[p].flag
                      /\ \A q \in Task :
                            q # p => job'[q] = job[q] /\ pc'[q] = pc[q]
                      /\ p \in Readers => p \in Readers'
<1>2. ASSUME NEW p \in Task, Same(p) PROVE AlarmInv'
  BY <1>1, <1>2 DEF AlarmInv, Readers
<1>3. ASSUME UNCHANGED <<alarm, mode, job, pc>> PROVE AlarmInv'
  BY <1>3 DEF AlarmInv, Readers
<1>4. ASSUME NEW p \in Task, Finish(p), At(p, "rtest") \/ At(p, "rend"), UNCHANGED mode
      PROVE  AlarmInv'
  <2>1. /\ pc' = [pc EXCEPT ![p] = "user"] /\ job' = [job EXCEPT ![p] = NoJob]
        /\ alarm' = [alarm EXCEPT ![p] = job[p].old]
    BY <1>4 DEF Finish, Goto
  <2>2. NoJob.old = None /\ NoJob.flag = FALSE
    BY DEF NoJob
  <2> QED BY <1>1, <1>4, <2>1, <2>2 DEF AlarmInv, Readers, None
<1>5. ASSUME NEW p \in Task, p \notin Readers, UNCHANGED <<alarm, mode>>,
             job' = [job EXCEPT ![p] = NoJob],
             \A q \in Task : q # p => pc'[q] = pc[q]
      PROVE  AlarmInv'
  <2>1. NoJob.old = None /\ NoJob.flag = FALSE
    BY DEF NoJob
  <2> QED BY <1>1, <1>5, <2>1 DEF AlarmInv, Readers, None
<1>6. CASE UNCHANGED vars
  BY <1>3, <1>6 DEF vars
<1>7. ASSUME NEW c \in Typed, Key(c) \/ ReadChar(c) PROVE AlarmInv'
  BY <1>3, <1>7 DEF Key, ReadChar, Arrives
<1>8. CASE Cook \/ Cooked \/ Transmit
  BY <1>3, <1>8 DEF Cook, Cooked, Transmit
<1>9. ASSUME NEW p \in Task, Dispatch(p) \/ Deliver(p) \/ WriteSleep(p) \/ Flush(p)
      PROVE  AlarmInv'
  BY <1>3, <1>9 DEF Dispatch, Deliver, WriteSleep, Flush
<1>10. ASSUME NEW p \in Task, ReadLeave(p) PROVE AlarmInv'
  BY <1>4, <1>10 DEF ReadLeave
<1>11. ASSUME NEW p \in Task,
              \/ ReadTest(p) \/ ReadGet(p) \/ ReadMore(p) \/ WriteTest(p) \/ WritePut(p)
              \/ WriteInc(p) \/ WriteOut(p) \/ ConGet(p) \/ ConInc(p)
       PROVE  AlarmInv'
  <2>1. CASE ReadTest(p) \/ ReadMore(p) \/ WriteTest(p)
    BY <1>1, <1>2, <2>1 DEF ReadTest, ReadMore, WriteTest, At, Goto, Readers
  <2>2. CASE ReadGet(p)
    <3>1. PICK c : job' = [job EXCEPT ![p].c = c]
      BY <2>2 DEF ReadGet
    <3>2. job'[p].old = job[p].old /\ job'[p].flag = job[p].flag
      BY <1>1, <3>1 DEF Job
    <3>3. \A q \in Task : q # p => job'[q] = job[q]
      BY <3>1
    <3>4. /\ UNCHANGED <<alarm, mode>> /\ (p \in Readers => p \in Readers')
          /\ \A q \in Task : q # p => pc'[q] = pc[q]
      BY <1>1, <2>2 DEF ReadGet, At, Goto, Readers
    <3> QED BY <1>2, <3>2, <3>3, <3>4
  <2>3. CASE WritePut(p)
    <3>1. PICK c : job' = [job EXCEPT ![p].c = c]
      BY <2>3 DEF WritePut
    <3>2. job'[p].old = job[p].old /\ job'[p].flag = job[p].flag
      BY <1>1, <3>1 DEF Job
    <3>3. \A q \in Task : q # p => job'[q] = job[q]
      BY <3>1
    <3>4. /\ UNCHANGED <<alarm, mode>> /\ (p \in Readers => p \in Readers')
          /\ \A q \in Task : q # p => pc'[q] = pc[q]
      BY <1>1, <2>3 DEF WritePut, At, Goto, Readers
    <3> QED BY <1>2, <3>2, <3>3, <3>4
  <2>4. CASE WriteInc(p)
    <3>1. /\ job'[p].old = job[p].old /\ job'[p].flag = job[p].flag
          /\ \A q \in Task : q # p => job'[q] = job[q]
      BY <1>1, <2>4 DEF WriteInc, Job
    <3>2. /\ UNCHANGED <<alarm, mode>> /\ (p \in Readers => p \in Readers')
          /\ \A q \in Task : q # p => pc'[q] = pc[q]
      BY <1>1, <2>4 DEF WriteInc, At, Goto, Readers
    <3> QED BY <1>2, <3>1, <3>2
  <2>5. CASE WriteOut(p)
    <3>1. /\ job'[p].old = job[p].old /\ job'[p].flag = job[p].flag
          /\ \A q \in Task : q # p => job'[q] = job[q]
      BY <1>1, <2>5 DEF WriteOut, Job
    <3>2. /\ UNCHANGED <<alarm, mode>> /\ (p \in Readers => p \in Readers')
          /\ \A q \in Task : q # p => pc'[q] = pc[q]
      BY <1>1, <2>5 DEF WriteOut, At, Goto, Readers
    <3> QED BY <1>2, <3>1, <3>2
  <2>6. CASE ConGet(p)
    <3>1. /\ job'[p].old = job[p].old /\ job'[p].flag = job[p].flag
          /\ \A q \in Task : q # p => job'[q] = job[q]
      BY <1>1, <2>6 DEF ConGet, Job
    <3>2. /\ UNCHANGED <<alarm, mode>> /\ (p \in Readers => p \in Readers')
          /\ \A q \in Task : q # p => pc'[q] = pc[q]
      BY <1>1, <2>6 DEF ConGet, At, Goto, Readers
    <3> QED BY <1>2, <3>1, <3>2
  <2>7. CASE ConInc(p)
    <3>1. /\ job'[p].old = job[p].old /\ job'[p].flag = job[p].flag
          /\ \A q \in Task : q # p => job'[q] = job[q]
      BY <1>1, <2>7 DEF ConInc, Job
    <3>2. /\ UNCHANGED <<alarm, mode>> /\ (p \in Readers => p \in Readers')
          /\ \A q \in Task : q # p => pc'[q] = pc[q]
      BY <1>1, <2>7 DEF ConInc, At, Goto, Readers
    <3> QED BY <1>2, <3>1, <3>2
  <2> QED BY <1>11, <2>1, <2>2, <2>3, <2>4, <2>5, <2>6, <2>7
<1>12. ASSUME NEW p \in Task, ReadInc(p) PROVE AlarmInv'
  <2>1. At(p, "rinc") /\ UNCHANGED <<mode, alarm>>
    BY <1>12 DEF ReadInc
  <2>2. CASE mode.canon /\ job' = [job EXCEPT ![p] = NoJob] /\ Goto(p, "user")
    <3>1. ~job[p].flag /\ alarm[p] # "read"
      BY <2>2 DEF AlarmInv
    <3>2. NoJob.old = None /\ NoJob.flag = FALSE
      BY DEF NoJob
    <3> QED BY <1>1, <2>1, <2>2, <3>1, <3>2 DEF AlarmInv, Readers, Goto, None
  <2>3. CASE /\ job' = [job EXCEPT ![p].left = @ - 1, ![p].got = @ + 1, ![p].c = None]
             /\ Goto(p, IF job[p].left = 1 THEN "rend" ELSE "rmore")
    BY <1>1, <1>2, <2>1, <2>3 DEF At, Goto, Readers, Job
  <2> QED BY <1>12, <2>2, <2>3 DEF ReadInc
<1>13. ASSUME NEW p \in Task, ReadEnd(p) PROVE AlarmInv'
  <2>1. CASE Finish(p)
    BY <1>4, <1>13, <2>1 DEF ReadEnd
  <2>2. ASSUME NEW flag \in BOOLEAN, ~mode.canon, At(p, "rend"), UNCHANGED mode,
               ~job[p].timed => flag = job[p].flag,
               Goto(p, "rtest"), job' = [job EXCEPT ![p].flag = flag],
               alarm' = IF ~job[p].timed THEN alarm
                        ELSE [alarm EXCEPT ![p] = IF flag THEN "read" ELSE job[p].old]
        PROVE  AlarmInv'
    <3>1. /\ job'[p].flag = flag /\ job'[p].old = job[p].old
          /\ \A q \in Task : q # p => job'[q] = job[q] /\ pc'[q] = pc[q]
          /\ p \in Readers'
      BY <1>1, <2>2 DEF Goto, Readers, Job
    <3> QED BY <1>1, <2>2, <3>1 DEF AlarmInv, Readers
  <2>3. \/ Finish(p)
        \/ \E flag \in BOOLEAN :
              /\ ~mode.canon /\ (~job[p].timed => flag = job[p].flag)
              /\ Goto(p, "rtest") /\ job' = [job EXCEPT ![p].flag = flag]
              /\ alarm' = IF ~job[p].timed THEN alarm
                          ELSE [alarm EXCEPT ![p] = IF flag THEN "read" ELSE job[p].old]
    BY <1>1, <1>13 DEF ReadEnd, Later, Job
  <2>4. At(p, "rend") /\ UNCHANGED mode
    BY <1>13 DEF ReadEnd
  <2> QED BY <2>1, <2>2, <2>3, <2>4
<1>14. ASSUME NEW p \in Task, WriteGo(p) \/ WriteNext(p) PROVE AlarmInv'
  <2>1. p \notin Readers /\ p \notin Readers' /\ UNCHANGED <<alarm, mode>>
    BY <1>1, <1>14 DEF WriteGo, WriteNext, At, Goto, Readers
  <2>2. \A q \in Task : q # p => pc'[q] = pc[q]
    BY <1>1, <1>14 DEF WriteGo, WriteNext, Goto
  <2>3. job' = job \/ job' = [job EXCEPT ![p] = NoJob]
    BY <1>14 DEF WriteGo, WriteNext
  <2> QED BY <1>2, <1>5, <2>1, <2>2, <2>3
<1>15. ASSUME NEW p \in Task, NEW n \in 1 .. MaxNr, StartRead(p, n) PROVE AlarmInv'
  <2> DEFINE only == mode.timed /\ mode.min = 0
             min  == IF only THEN 1 ELSE mode.min
             m    == IF min > n THEN n ELSE min
             r(f) == [NoJob EXCEPT !.left = n, !.flag = f, !.min = m,
                                   !.timed = mode.timed, !.old = alarm[p]]
  <2>1. PICK flag \in BOOLEAN :
           /\ flag => mode.timed /\ mode.min = 0
           /\ job' = [job EXCEPT ![p] = r(flag)]
           /\ alarm' = IF flag THEN [alarm EXCEPT ![p] = "read"] ELSE alarm
    BY <1>15 DEF StartRead, Later
  <2>2. r(flag).old = alarm[p] /\ r(flag).flag = flag
    BY DEF NoJob
  <2> HIDE DEF r
  <2>3. pc[p] = "user" /\ pc' = [pc EXCEPT ![p] = "rtest"] /\ mode' = mode
    BY <1>15 DEF StartRead, User, Goto
  <2>4. flag => ~mode.canon
    BY <1>1, <2>1 DEF NoEofRace
  <2>5. alarm[p] # "read"
    BY <2>3 DEF AlarmInv, Readers
  <2> QED BY <1>1, <2>1, <2>2, <2>3, <2>4, <2>5 DEF AlarmInv, Readers
<1>16. ASSUME NEW p \in Task, NEW n \in 1 .. MaxNr, StartWrite(p, n) PROVE AlarmInv'
  <2>1. /\ pc[p] = "user" /\ pc' = [pc EXCEPT ![p] = "wtest"]
        /\ UNCHANGED <<mode, alarm>>
        /\ job' = [job EXCEPT ![p] = [NoJob EXCEPT !.left = n]]
    BY <1>16 DEF StartWrite, User, Goto
  <2>2. [NoJob EXCEPT !.left = n].old = None /\ [NoJob EXCEPT !.left = n].flag = FALSE
    BY DEF NoJob
  <2> QED BY <1>1, <2>1, <2>2 DEF AlarmInv, Readers, None
<1>17. ASSUME NEW p \in Task, SetTermios(p) PROVE AlarmInv'
  <2>1. (\A q \in Task : job[q].flag => ~mode'.canon) /\ UNCHANGED <<alarm, job,
                                                                     pc>>
    BY <1>17 DEF SetTermios, NoEofRace
  <2> QED BY <2>1 DEF AlarmInv, Readers
<1>18. ASSUME NEW p \in Task, AlarmRings(p) PROVE AlarmInv'
  <2>1. alarm' = [alarm EXCEPT ![p] = None] /\ UNCHANGED <<mode, job, pc>>
    BY <1>18 DEF AlarmRings
  <2> QED BY <1>1, <2>1 DEF AlarmInv, Readers, None
<1> HIDE DEF Same
<1> QED BY <1>6, <1>7, <1>8, <1>9, <1>10, <1>11, <1>12, <1>13, <1>14, <1>15,
    <1>16,
           <1>17, <1>18 DEF Next, Step

(* AlarmKept: whatever ends it, a read gives the process the alarm it had  *)
(* (the oldalarm of tty_read), for any number of tasks and any modes.      *)
THEOREM ReadsGiveTheAlarmBack ==
    ASSUME NoRaces, NoEofRace PROVE Spec => []AlarmKept
<1>1. Init => AlarmInv
  BY DEF Init, AlarmInv, NoJob, None
<1>2. IInv /\ IInv' /\ AlarmInv /\ [Next]_vars => AlarmInv'
  BY AlarmInductive
<1>3. AlarmInv => AlarmKept
  BY DEF AlarmInv, AlarmKept
<1> QED BY <1>1, <1>2, <1>3, Inductive, PTL DEF Spec

-----------------------------------------------------------------------------
(* The console.  A screen s is sound if the cursor's address is that of    *)
(* its line and column and the window lies in video memory.                *)
Char == {Blank, Mark}
Row == 0 .. Lines - 1
Col == 0 .. Cols - 1
Screens == [x : 0 .. Cols, y : Row, pos : Nat, origin : Nat, end : Nat,
            mem : [Addr -> Char]]
SoundScreen(s) ==
    /\ s \in Screens
    /\ s.pos = s.origin + s.y * Cols + s.x
    /\ s.end = s.origin + Lines * Cols /\ s.end <= MemLines * Cols

Region(t, b) == t \in Nat /\ b \in Nat /\ t < b /\ b <= Lines

LEMMA Sizes ==
    /\ Cols \in Nat \ {0} /\ Lines \in Nat \ {0} /\ MemLines \in Nat \ {0}
    /\ TabStop \in Nat \ {0} /\ NPar \in Nat \ {0} /\ Width \in Nat \ {0}
    /\ Seven \in Nat /\ Eight \in Nat /\ MaxMarks \in Nat /\ MaxFirst \in Nat
    /\ MemLines > Lines /\ TabStop <= Cols /\ NPar >= 2
    /\ Cards \subseteq BOOLEAN /\ Digits \subseteq 0 .. 9
    /\ Width > 2 * (Cols + Lines)
BY ConsoleAssumption

LEMMA Times0 ==
    ASSUME NEW r \in Int, NEW q \in Int
    PROVE  /\ r * Cols \in Int
           /\ (r + 1) * Cols = r * Cols + Cols
           /\ (r - 1) * Cols = r * Cols - Cols
           /\ r < q => r * Cols + Cols <= q * Cols
           /\ r <= q => r * Cols <= q * Cols
           /\ r >= 0 => r * Cols >= 0
<1> PICK k \in Nat : k = Cols /\ k > 0
  BY Sizes
<1>1. /\ r * k \in Int /\ (r + 1) * k = r * k + k /\ (r - 1) * k = r * k - k
  OBVIOUS
<1>2. ASSUME r < q PROVE r * k + k <= q * k
  <2>1. (q - (r + 1)) * k >= 0
    BY <1>2
  <2>2. (q - (r + 1)) * k = q * k - (r * k + k)
    OBVIOUS
  <2>3. q * k \in Int
    OBVIOUS
  <2> QED BY <1>1, <2>1, <2>2, <2>3
<1>3. r <= q => r * k <= q * k
  BY <1>2
<1>4. r >= 0 => r * k >= 0
  OBVIOUS
<1> QED BY <1>1, <1>2, <1>3, <1>4

LEMMA Remainder ==
    ASSUME NEW a \in Int, NEW w \in Nat \ {0}
    PROVE  a % w \in 0 .. w - 1
OBVIOUS

(* Cells of the window. *)
LEMMA Window ==
    ASSUME NEW s, SoundScreen(s), NEW r \in 0 .. Lines, NEW c \in 0 .. Cols
    PROVE  /\ s.origin + r * Cols + c \in Nat
           /\ r < Lines => s.origin + r * Cols + c <= s.end
           /\ r < Lines /\ c < Cols => s.origin + r * Cols + c \in Addr
<1>1. r * Cols \in Nat /\ Lines * Cols \in Int /\ MemLines * Cols \in Int
  BY Times0, Sizes
<1>2. r < Lines => r * Cols + Cols <= Lines * Cols
  BY Times0, Sizes
<1>3. s.origin \in Nat /\ s.end = s.origin + Lines * Cols /\ s.end <= MemLines * Cols
  BY DEF SoundScreen, Screens
<1>4. PICK a, l, m : a = r * Cols /\ l = Lines * Cols /\ m = MemLines * Cols
  OBVIOUS
<1>5. a \in Nat /\ l \in Int /\ m \in Int /\ (r < Lines => a + Cols <= l)
  BY <1>1, <1>2, <1>4
<1>6. PICK o : o = s.origin
  OBVIOUS
<1>7. o + a + c \in Nat /\ (r < Lines => o + a + c <= o + l)
  BY <1>3, <1>5, <1>6, Sizes
<1>8. ASSUME r < Lines, c < Cols PROVE o + a + c \in 0 .. m - 1
  BY <1>3, <1>4, <1>5, <1>6, <1>8, Sizes
<1> QED BY <1>3, <1>4, <1>6, <1>7, <1>8 DEF Addr

CellAt(o, r, c) == o + r * Cols + c

(* Rows of the window as ranges of addresses. *)
LEMMA InRows ==
    ASSUME NEW o \in Int, NEW p \in Int, NEW q \in Int, NEW r \in Int, NEW c \in Col,
           NEW f, f = o + p * Cols, NEW n, n = (q - p) * Cols
    PROVE  CellAt(o, r, c) \in f .. f + n - 1 <=> p <= r /\ r < q
<1>1. PICK P, Q, R : P = p * Cols /\ Q = q * Cols /\ R = r * Cols
  OBVIOUS
<1>2. P \in Int /\ Q \in Int /\ R \in Int
  BY <1>1, Times0
<1>3. n = Q - P
  BY <1>1, Sizes
<1>4. /\ r < p => R + Cols <= P
      /\ p <= r => P <= R
      /\ r < q => R + Cols <= Q
      /\ q <= r => Q <= R
  BY <1>1, Times0
<1>5. o + R + c \in o + P .. o + P + n - 1 <=> p <= r /\ r < q
  BY <1>2, <1>3, <1>4, Sizes DEF Col
<1> QED BY <1>1, <1>5 DEF CellAt

LEMMA CopiedOK ==
    ASSUME NEW m \in [Addr -> Char], NEW to \in Int, NEW from \in Int, NEW n \in Int,
           \A a \in Addr : a \in to .. to + n - 1 => from + (a - to) \in Addr
    PROVE  /\ Copied(m, to, from, n) \in [Addr -> Char]
           /\ \A a \in Addr : Copied(m, to, from, n)[a] =
                 IF a \in to .. to + n - 1 THEN m[from + (a - to)] ELSE m[a]
BY DEF Copied

LEMMA ErasedOK ==
    ASSUME NEW m \in [Addr -> Char], NEW from, NEW n
    PROVE  /\ Erased(m, from, n) \in [Addr -> Char]
           /\ \A a \in Addr : Erased(m, from, n)[a] =
                 IF a \in from .. from + n - 1 THEN Blank ELSE m[a]
BY DEF Erased, Char

(* What is seen in memory m of a window at o; what a window on s shows.    *)
Shown(m, o) == [r \in Row |-> [c \in Col |-> m[CellAt(o, r, c)]]]
View(s) == Shown(s.mem, s.origin)
Views == [Row -> [Col -> Char]]
NoCells == [c \in Col |-> Blank]
Moved(v, t, b, n) ==
    [r \in Row |-> IF r < t \/ r >= b THEN v[r]
                   ELSE IF t <= r + n /\ r + n < b THEN v[r + n] ELSE NoCells]

LEMMA ViewType ==
    ASSUME NEW s, SoundScreen(s)
    PROVE  View(s) \in Views /\ \A r \in Row, c \in Col : CellAt(s.origin, r, c) \in Addr
<1>1. \A r \in Row, c \in Col : CellAt(s.origin, r, c) \in Addr
  BY Window, Sizes DEF CellAt, Row, Col
<1> QED BY <1>1 DEF View, Shown, Views, SoundScreen, Screens

(* What s and what r, made from it, have in common. *)
SameCursor(s, r) == r.x = s.x /\ r.y = s.y

LEMMA SoundFacts ==
    ASSUME NEW s, SoundScreen(s)
    PROVE  /\ s.x \in 0 .. Cols /\ s.y \in Row /\ s.pos \in Nat /\ s.origin \in Nat
           /\ s.end \in Nat /\ s.mem \in [Addr -> Char]
           /\ s.pos = s.origin + s.y * Cols + s.x
           /\ s.end = s.origin + Lines * Cols /\ s.end <= MemLines * Cols
           /\ s = [s EXCEPT !.mem = s.mem]
BY DEF SoundScreen, Screens

LEMMA SoundMem ==
    ASSUME NEW s, SoundScreen(s), NEW m \in [Addr -> Char]
    PROVE  /\ SoundScreen([s EXCEPT !.mem = m])
           /\ SameCursor(s, [s EXCEPT !.mem = m])
           /\ View([s EXCEPT !.mem = m]) = Shown(m, s.origin)
BY DEF SoundScreen, Screens, SameCursor, View

LEMMA ViewIs ==
    ASSUME NEW m \in [Addr -> Char], NEW o \in Nat, NEW v \in Views,
           \A r \in Row, c \in Col : m[CellAt(o, r, c)] = v[r][c]
    PROVE  Shown(m, o) = v
<1>1. \A r \in Row : v[r] = [c \in Col |-> v[r][c]]
  BY DEF Views
<1>2. v = [r \in Row |-> [c \in Col |-> v[r][c]]]
  BY <1>1 DEF Views
<1> QED BY <1>2 DEF Shown

LEMMA MovedType ==
    ASSUME NEW v \in Views, NEW t \in Int, NEW b \in Int, NEW n \in Int, b <= Lines, t >= 0
    PROVE  Moved(v, t, b, n) \in Views
BY Sizes DEF Moved, Views, Row, NoCells, Char

LEMMA RegionUpOK ==
    ASSUME NEW s, SoundScreen(s), NEW t, NEW b, Region(t, b)
    PROVE  LET u == RegionUp(s, t, b)
           IN  SoundScreen(u) /\ SameCursor(s, u) /\ View(u) = Moved(View(s), t, b, 1)
<1>0. PICK o, to, from, last, n :
         /\ o = s.origin /\ to = o + t * Cols /\ from = o + (t + 1) * Cols
         /\ last = o + (b - 1) * Cols /\ n = ((b - t) - 1) * Cols
  OBVIOUS
<1>1. PICK m, e : m = Copied(s.mem, to, from, n) /\ e = Erased(m, last, Cols)
  OBVIOUS
<1>2. /\ o \in Nat /\ s.mem \in [Addr -> Char] /\ t \in Int /\ b \in Int
      /\ to \in Int /\ last \in Int /\ n \in Int /\ from = to + Cols /\ from \in Int
      /\ last = to + n
  <2>1. t * Cols \in Int /\ (b - 1) * Cols \in Int /\ (t + 1) * Cols = t * Cols + Cols
    BY Times0, Sizes DEF Region
  <2>2. n = (b - 1) * Cols - t * Cols
    BY <1>0, Sizes DEF Region
  <2> QED BY <1>0, <2>1, <2>2, SoundFacts, Sizes DEF Region
<1>3. \A r \in Row, c \in Col : CellAt(o, r, c) \in Addr
  BY <1>0, ViewType
<1>4. ASSUME NEW r \in Row, NEW c \in Col
      PROVE  CellAt(o, r, c) \in to .. to + n - 1 <=> t <= r /\ r < b - 1
  <2>1. n = ((b - 1) - t) * Cols
    BY <1>0, <1>2
  <2>2. o \in Int /\ t \in Int /\ b - 1 \in Int /\ r \in Int /\ to = o + t * Cols
    BY <1>0, <1>2 DEF Row
  <2>3. CellAt(o, r, c) \in to .. to + n - 1 <=> t <= r /\ r < b - 1
    BY ONLY <2>1, <2>2, c \in Col, InRows
  <2> QED BY <2>3
<1>5. ASSUME NEW r \in Row, NEW c \in Col
      PROVE  CellAt(o, r, c) \in last .. last + Cols - 1 <=> r = b - 1
  <2>1. Cols = (b - (b - 1)) * Cols
    BY <1>2, Sizes
  <2>2. CellAt(o, r, c) \in last .. last + Cols - 1 <=> b - 1 <= r /\ r < b
    <3>1. PICK p \in Int : p = b - 1
      BY <1>2
    <3>2. o \in Int /\ b \in Int /\ r \in Int /\ last = o + p * Cols
      BY <1>0, <1>2, <3>1 DEF Row
    <3>3. Cols = (b - p) * Cols
      BY <2>1, <3>1
    <3>4. CellAt(o, r, c) \in last .. last + Cols - 1 <=> p <= r /\ r < b
      BY ONLY <3>2, <3>3, p \in Int, c \in Col, InRows
    <3> QED BY <3>1, <3>4
  <2> QED BY <1>2, <2>2 DEF Row
<1>6. ASSUME NEW a \in Addr, a \in to .. to + n - 1
      PROVE  from + (a - to) = a + Cols /\ a + Cols \in Addr
  <2>1. last + Cols <= o + Lines * Cols
    <3>1. (b - 1) * Cols + Cols <= Lines * Cols
      BY <1>2, Times0, Sizes DEF Region
    <3> QED BY <1>0, <1>2, <3>1, Sizes
  <2>2. o + Lines * Cols <= MemLines * Cols
    BY <1>0, SoundFacts
  <2>3. Lines * Cols \in Int /\ MemLines * Cols \in Int
    BY Times0, Sizes
  <2> QED BY <1>2, <1>6, <2>1, <2>2, <2>3, Sizes DEF Addr
<1>7. /\ m \in [Addr -> Char]
      /\ \A a \in Addr : m[a] = IF a \in to .. to + n - 1 THEN s.mem[a + Cols] ELSE s.mem[a]
  BY <1>1, <1>2, <1>6, CopiedOK
<1>8. /\ e \in [Addr -> Char]
      /\ \A a \in Addr : e[a] = IF a \in last .. last + Cols - 1 THEN Blank ELSE m[a]
  BY <1>1, <1>7, ErasedOK
<1>9. RegionUp(s, t, b) = [s EXCEPT !.mem = e]
  BY <1>0, <1>1 DEF RegionUp
<1>10. PICK v : v = Moved(View(s), t, b, 1)
  OBVIOUS
<1>11. v \in Views
  BY <1>2, <1>10, ViewType, MovedType DEF Region
<1>12. ASSUME NEW r \in Row, NEW c \in Col PROVE e[CellAt(o, r, c)] = v[r][c]
  <2>1. View(s)[r][c] = s.mem[CellAt(o, r, c)]
    BY <1>0 DEF View, Shown
  <2>2. CASE r < t \/ r >= b
    <3>1. v[r] = View(s)[r]
      BY <1>2, <1>10, <2>2 DEF Moved, Row
    <3>2. ~(t <= r /\ r < b - 1) /\ r # b - 1
      BY <1>2, <2>2 DEF Row, Region
    <3> QED BY <1>3, <1>4, <1>5, <1>7, <1>8, <2>1, <3>1, <3>2
  <2>3. CASE t <= r /\ r < b - 1
    <3>1. r + 1 \in Row /\ CellAt(o, r, c) + Cols = CellAt(o, r + 1, c)
      <4>1. r \in Int /\ (r + 1) * Cols = r * Cols + Cols /\ r * Cols \in Int
        BY Times0, Sizes DEF Row
      <4> QED BY <1>2, <2>3, <4>1, Sizes DEF CellAt, Row, Region, Col
    <3>2. View(s)[r + 1][c] = s.mem[CellAt(o, r + 1, c)]
      BY <1>0, <3>1 DEF View, Shown
    <3>3. v[r] = View(s)[r + 1]
      BY <1>2, <1>10, <2>3 DEF Moved, Row
    <3>4. e[CellAt(o, r, c)] = s.mem[CellAt(o, r, c) + Cols]
      BY <1>2, <1>3, <1>4, <1>5, <1>7, <1>8, <2>3 DEF Row
    <3> QED BY <3>1, <3>2, <3>3, <3>4
  <2>4. CASE r = b - 1
    <3>1. v[r] = NoCells
      BY <1>2, <1>10, <2>4 DEF Moved, Row, Region
    <3> QED BY <1>3, <1>5, <1>8, <2>4, <3>1 DEF NoCells
  <2> QED BY <1>2, <2>2, <2>3, <2>4 DEF Row
<1>13. Shown(e, o) = v
  BY <1>2, <1>8, <1>11, <1>12, ViewIs
<1> QED BY <1>0, <1>8, <1>9, <1>10, <1>13, SoundMem

LEMMA ScrDownOK ==
    ASSUME NEW s, SoundScreen(s), NEW t, NEW b, Region(t, b)
    PROVE  LET u == ScrDown(s, t, b)
           IN  SoundScreen(u) /\ SameCursor(s, u) /\ View(u) = Moved(View(s), t, b, -1)
<1>0. PICK o, to, from, n :
         /\ o = s.origin /\ from = o + t * Cols /\ to = o + (t + 1) * Cols
         /\ n = ((b - t) - 1) * Cols
  OBVIOUS
<1>1. PICK m, e : m = Copied(s.mem, to, from, n) /\ e = Erased(m, from, Cols)
  OBVIOUS
<1>2. /\ o \in Nat /\ s.mem \in [Addr -> Char] /\ t \in Int /\ b \in Int
      /\ to \in Int /\ n \in Int /\ to = from + Cols /\ from \in Nat
      /\ t \in Nat /\ t < b /\ b <= Lines
  <2>1. t * Cols \in Nat /\ (b - 1) * Cols \in Int /\ (t + 1) * Cols = t * Cols + Cols
    BY Times0, Sizes DEF Region
  <2>2. n = (b - 1) * Cols - t * Cols
    BY <1>0, Sizes DEF Region
  <2>3. t \in Int /\ b \in Int /\ t \in Nat /\ t < b /\ b <= Lines
    BY DEF Region
  <2> QED BY <1>0, <2>1, <2>2, <2>3, SoundFacts, Sizes
<1>3. \A r \in Row, c \in Col : CellAt(o, r, c) \in Addr
  BY <1>0, ViewType
<1>4. ASSUME NEW r \in Row, NEW c \in Col
      PROVE  CellAt(o, r, c) \in to .. to + n - 1 <=> t < r /\ r < b
  <2>1. PICK p \in Int : p = t + 1
    BY <1>2
  <2>2. n = (b - p) * Cols
    <3>1. b - p = (b - t) - 1
      BY <1>2, <2>1
    <3> QED BY <1>0, <3>1
  <2>3. o \in Int /\ b \in Int /\ r \in Int /\ to = o + p * Cols
    BY <1>0, <1>2, <2>1 DEF Row
  <2>4. CellAt(o, r, c) \in to .. to + n - 1 <=> p <= r /\ r < b
    BY ONLY <2>2, <2>3, p \in Int, c \in Col, InRows
  <2> QED BY <1>2, <2>1, <2>3, <2>4
<1>5. ASSUME NEW r \in Row, NEW c \in Col
      PROVE  CellAt(o, r, c) \in from .. from + Cols - 1 <=> r = t
  <2>1. PICK q \in Int : q = t + 1
    BY <1>2
  <2>2. Cols = (q - t) * Cols
    BY <1>2, <2>1, Sizes
  <2>3. o \in Int /\ t \in Int /\ r \in Int /\ from = o + t * Cols
    BY <1>0, <1>2 DEF Row
  <2>4. CellAt(o, r, c) \in from .. from + Cols - 1 <=> t <= r /\ r < q
    BY ONLY <2>2, <2>3, q \in Int, c \in Col, InRows
  <2> QED BY <2>1, <2>3, <2>4
<1>6. ASSUME NEW a \in Addr, a \in to .. to + n - 1
      PROVE  from + (a - to) = a - Cols /\ a - Cols \in Addr
  <2>1. PICK M \in Int : M = MemLines * Cols
    BY Times0, Sizes
  <2>2. a \in 0 .. M - 1 /\ a >= to
    BY <1>2, <1>6, <2>1 DEF Addr
  <2>3. from + (a - to) = a - Cols /\ a - Cols \in 0 .. M - 1
    BY <1>2, <2>1, <2>2, Sizes
  <2> QED BY <2>1, <2>3 DEF Addr
<1>7. /\ m \in [Addr -> Char]
      /\ \A a \in Addr : m[a] = IF a \in to .. to + n - 1 THEN s.mem[a - Cols] ELSE s.mem[a]
  BY <1>1, <1>2, <1>6, CopiedOK
<1>8. /\ e \in [Addr -> Char]
      /\ \A a \in Addr : e[a] = IF a \in from .. from + Cols - 1 THEN Blank ELSE m[a]
  BY <1>1, <1>7, ErasedOK
<1>9. ScrDown(s, t, b) = [s EXCEPT !.mem = e]
  BY <1>0, <1>1 DEF ScrDown
<1>10. PICK v : v = Moved(View(s), t, b, -1)
  OBVIOUS
<1>11. v \in Views
  BY <1>2, <1>10, ViewType, MovedType
<1>12. ASSUME NEW r \in Row, NEW c \in Col PROVE e[CellAt(o, r, c)] = v[r][c]
  <2>1. View(s)[r][c] = s.mem[CellAt(o, r, c)]
    BY <1>0 DEF View, Shown
  <2>2. CASE r < t \/ r >= b
    <3>1. v[r] = View(s)[r]
      BY <1>2, <1>10, <2>2 DEF Moved, Row
    <3>2. ~(t < r /\ r < b) /\ r # t
      BY <1>2, <2>2 DEF Row
    <3> QED BY <1>3, <1>4, <1>5, <1>7, <1>8, <2>1, <3>1, <3>2
  <2>3. CASE t < r /\ r < b
    <3>1. r - 1 \in Row /\ CellAt(o, r, c) - Cols = CellAt(o, r - 1, c)
      <4>1. r \in Int /\ (r - 1) * Cols = r * Cols - Cols /\ r * Cols \in Int
        BY Times0, Sizes DEF Row
      <4> QED BY <1>2, <2>3, <4>1, Sizes DEF CellAt, Row, Col
    <3>2. View(s)[r - 1][c] = s.mem[CellAt(o, r - 1, c)]
      BY <1>0, <3>1 DEF View, Shown
    <3>3. v[r] = View(s)[r - 1]
      <4>1. r + -1 = r - 1 /\ r \in Int
        BY DEF Row
      <4> QED BY <1>2, <1>10, <2>3, <4>1 DEF Moved
    <3>4. e[CellAt(o, r, c)] = s.mem[CellAt(o, r, c) - Cols]
      <4>1. r # t
        BY <1>2, <2>3 DEF Row
      <4> QED BY <1>3, <1>4, <1>5, <1>7, <1>8, <2>3, <4>1
    <3> QED BY <3>1, <3>2, <3>3, <3>4
  <2>4. CASE r = t
    <3>1. v[r] = NoCells
      BY <1>2, <1>10, <2>4 DEF Moved, Row
    <3> QED BY <1>3, <1>5, <1>8, <2>4, <3>1 DEF NoCells
  <2> QED BY <1>2, <2>2, <2>3, <2>4 DEF Row
<1>13. Shown(e, o) = v
  BY <1>2, <1>8, <1>11, <1>12, ViewIs
<1> QED BY <1>0, <1>8, <1>9, <1>10, <1>13, SoundMem

(* The window moves: the lines that stay are where they are in memory, or  *)
(* have all been copied to its start.                                      *)
LEMMA WindowDownOK ==
    ASSUME NEW s, SoundScreen(s)
    PROVE  LET u == WindowDown(s)
           IN  SoundScreen(u) /\ SameCursor(s, u) /\ View(u) = Moved(View(s), 0, Lines, 1)
<1>0. PICK o, new, n :
         /\ o = s.origin /\ new = o + Cols /\ n = (Lines - 1) * Cols
  OBVIOUS
<1>1. /\ o \in Nat /\ s.mem \in [Addr -> Char] /\ new \in Nat /\ n \in Nat
      /\ s.end = o + n + Cols /\ s.end \in Nat /\ s.end <= MemLines * Cols
      /\ MemLines * Cols \in Nat /\ Lines * Cols = n + Cols /\ s.y * Cols \in Nat
      /\ s.pos = o + s.y * Cols + s.x /\ s.x \in Nat
      /\ MemLines * Cols >= Lines * Cols
  <2>1. n \in Nat /\ Lines * Cols = n + Cols /\ MemLines * Cols \in Nat
        /\ MemLines * Cols >= Lines * Cols
    BY <1>0, Times0, Sizes
  <2>2. s.y * Cols \in Nat
    BY Times0, Sizes, SoundFacts DEF Row
  <2> QED BY <1>0, <2>1, <2>2, SoundFacts, Sizes
<1>2. PICK v : v = Moved(View(s), 0, Lines, 1)
  OBVIOUS
<1>3. v \in Views
  BY <1>2, ViewType, MovedType, Sizes
<1>4. \A r \in Row, c \in Col : CellAt(o, r, c) \in Addr
  BY <1>0, ViewType
<1>5. ASSUME NEW r \in Row, NEW c \in Col
      PROVE  /\ r < Lines - 1 => v[r][c] = s.mem[CellAt(new, r, c)] /\ CellAt(new, r, c) \in Addr
             /\ r = Lines - 1 => v[r][c] = Blank
  <2>1. CASE r < Lines - 1
    <3>1. r + 1 \in Row /\ CellAt(o, r + 1, c) = CellAt(new, r, c)
      <4>1. r \in Int /\ (r + 1) * Cols = r * Cols + Cols /\ r * Cols \in Int
        BY Times0, Sizes DEF Row
      <4> QED BY <1>0, <1>1, <2>1, <4>1, Sizes DEF CellAt, Row, Col
    <3>2. View(s)[r + 1][c] = s.mem[CellAt(o, r + 1, c)]
      BY <1>0, <3>1 DEF View, Shown
    <3>3. v[r] = View(s)[r + 1]
      BY <1>2, <2>1, Sizes DEF Moved, Row
    <3> QED BY <1>4, <2>1, <3>1, <3>2, <3>3, Sizes DEF Row
  <2>2. CASE r = Lines - 1
    <3>1. v[r] = NoCells
      BY <1>2, <2>2, Sizes DEF Moved, Row
    <3> QED BY <2>2, <3>1 DEF NoCells
  <2> QED BY <2>1, <2>2
<1>6. ASSUME NEW r \in Row, NEW c \in Col, NEW w \in Nat
      PROVE  /\ CellAt(w, r, c) \in w .. w + n - 1 <=> r < Lines - 1
             /\ CellAt(w, r, c) \in w + n .. w + n + Cols - 1 <=> r = Lines - 1
  <2>1. PICK p \in Int, z \in Int, wn \in Int : p = Lines - 1 /\ z = 0 /\ wn = w + n
    BY <1>1, Sizes
  <2>2. w \in Int /\ r \in Int /\ Lines \in Int
        /\ w = w + z * Cols /\ wn = w + p * Cols
        /\ n = (p - z) * Cols /\ Cols = (Lines - p) * Cols
    BY <1>0, <1>1, <2>1, Sizes DEF Row
  <2>3. CellAt(w, r, c) \in w .. w + n - 1 <=> z <= r /\ r < p
    <3>1. PICK f : f = w
      OBVIOUS
    <3>2. f = w + z * Cols
      BY <2>2, <3>1
    <3>3. CellAt(w, r, c) \in f .. f + n - 1 <=> z <= r /\ r < p
      BY ONLY <2>2, <3>2, p \in Int, z \in Int, c \in Col, InRows
    <3> QED BY <3>1, <3>3
  <2>4. CellAt(w, r, c) \in wn .. wn + Cols - 1 <=> p <= r /\ r < Lines
    BY ONLY <2>2, p \in Int, wn \in Int, c \in Col, InRows
  <2> QED BY <2>1, <2>3, <2>4, Sizes DEF Row
<1>7. CASE s.end + Cols > MemLines * Cols
  <2>1. PICK m, e : m = Copied(s.mem, 0, new, n) /\ e = Erased(m, n, Cols)
    OBVIOUS
  <2>2. ASSUME NEW a \in Addr, a \in 0 .. n - 1
        PROVE  new + (a - 0) = new + a /\ new + a \in Addr
    <3>1. PICK M \in Int : M = MemLines * Cols
      BY <1>1
    <3>2. a \in Nat /\ a < n /\ new + n <= M
      BY <1>0, <1>1, <2>2, <3>1, Sizes DEF Addr
    <3>3. new + (a - 0) = new + a /\ new + a \in 0 .. M - 1
      BY ONLY <1>1, <3>1, <3>2
    <3> QED BY <3>1, <3>3 DEF Addr
  <2>3. /\ m \in [Addr -> Char]
        /\ \A a \in Addr : m[a] = IF a \in 0 .. n - 1 THEN s.mem[new + a] ELSE s.mem[a]
    <3>0. PICK z \in Int : z = 0
      OBVIOUS
    <3>1. \A a \in Addr : a \in z .. z + n - 1 => new + (a - z) \in Addr
      BY <1>1, <2>2, <3>0
    <3>2. new \in Int /\ n \in Int /\ m = Copied(s.mem, z, new, n)
      BY <1>1, <2>1, <3>0
    <3>3. /\ m \in [Addr -> Char]
          /\ \A a \in Addr : m[a] = IF a \in z .. z + n - 1 THEN s.mem[new + (a - z)] ELSE s.mem[a]
      BY <1>1, <3>1, <3>2, CopiedOK
    <3> QED BY <1>1, <2>2, <3>0, <3>3
  <2>4. /\ e \in [Addr -> Char]
        /\ \A a \in Addr : e[a] = IF a \in n .. n + Cols - 1 THEN Blank ELSE m[a]
    BY <2>1, <2>3, ErasedOK
  <2>5. WindowDown(s) = [s EXCEPT !.mem = e, !.end = (s.end + Cols) - new,
                                  !.pos = (s.pos + Cols) - new, !.origin = 0]
    BY <1>0, <1>7, <2>1 DEF WindowDown
  <2>6. ASSUME NEW r \in Row, NEW c \in Col PROVE e[CellAt(0, r, c)] = v[r][c]
    <3>1. CellAt(0, r, c) \in Addr
      <4>1. CellAt(0, r, c) \in 0 .. n + Cols - 1
        BY <1>1, <1>6, Sizes DEF Row, CellAt
      <4> QED BY <1>1, <4>1, Sizes DEF Addr
    <3>2. new + CellAt(0, r, c) = CellAt(new, r, c)
      <4>1. r * Cols \in Int
        BY Times0 DEF Row
      <4> QED BY <1>1, <4>1 DEF CellAt, Col
    <3>3. /\ CellAt(0, r, c) \in 0 .. n - 1 <=> r < Lines - 1
          /\ CellAt(0, r, c) \in n .. n + Cols - 1 <=> r = Lines - 1
      BY <1>1, <1>6
    <3> QED BY <1>5, <2>3, <2>4, <3>1, <3>2, <3>3, Sizes DEF Row
  <2>7. PICK u : u = WindowDown(s)
    OBVIOUS
  <2>8. /\ u.x = s.x /\ u.y = s.y /\ u.pos = (s.pos + Cols) - new /\ u.origin = 0
        /\ u.end = (s.end + Cols) - new /\ u.mem = e
        /\ DOMAIN u = DOMAIN s
    BY <2>5, <2>7 DEF SoundScreen, Screens
  <2>9. u.pos = s.y * Cols + s.x /\ u.end = n + Cols /\ u.pos \in Nat /\ u.end \in Nat
    BY <1>0, <1>1, <2>8, Sizes
  <2>10. u \in Screens
    <3>1. u = [s EXCEPT !.mem = e, !.end = u.end, !.pos = u.pos, !.origin = u.origin]
      BY <2>5, <2>7, <2>8
    <3>2. u.origin \in Nat
      BY <2>8
    <3> HIDE <2>5, <2>7, <2>8
    <3> QED BY <2>4, <2>9, <3>1, <3>2 DEF SoundScreen, Screens
  <2>11. SoundScreen(u)
    BY <1>1, <2>8, <2>9, <2>10 DEF SoundScreen
  <2>12. View(u) = v
    BY <1>3, <2>4, <2>6, <2>8, ViewIs DEF View
  <2> QED BY <1>2, <2>7, <2>8, <2>11, <2>12 DEF SameCursor
<1>8. CASE ~(s.end + Cols > MemLines * Cols)
  <2>1. PICK e : e = Erased(s.mem, s.end, Cols)
    OBVIOUS
  <2>2. /\ e \in [Addr -> Char]
        /\ \A a \in Addr : e[a] = IF a \in s.end .. s.end + Cols - 1 THEN Blank ELSE s.mem[a]
    BY <1>1, <2>1, ErasedOK
  <2>3. WindowDown(s) = [s EXCEPT !.mem = e, !.end = s.end + Cols, !.pos = s.pos + Cols,
                                  !.origin = new]
    <3>1. (s.end + Cols) - Cols = s.end
      BY <1>1, Sizes
    <3> QED BY <1>0, <1>8, <2>1, <3>1 DEF WindowDown
  <2>4. s.end = new + n
    BY <1>0, <1>1, Sizes
  <2>5. ASSUME NEW r \in Row, NEW c \in Col PROVE e[CellAt(new, r, c)] = v[r][c]
    <3>1. /\ CellAt(new, r, c) \in new .. new + n - 1 <=> r < Lines - 1
          /\ CellAt(new, r, c) \in new + n .. new + n + Cols - 1 <=> r = Lines - 1
      BY <1>1, <1>6
    <3>2. CellAt(new, r, c) \in Addr
      BY <1>1, <1>8, <2>4, <3>1, Sizes DEF Addr, Row
    <3> QED BY <1>5, <2>2, <2>4, <3>1, <3>2, Sizes DEF Row
  <2>6. PICK u : u = WindowDown(s)
    OBVIOUS
  <2>7. /\ u.x = s.x /\ u.y = s.y /\ u.pos = s.pos + Cols /\ u.origin = new
        /\ u.end = s.end + Cols /\ u.mem = e
    BY <2>3, <2>6 DEF SoundScreen, Screens
  <2>8. u.pos = new + s.y * Cols + s.x /\ u.end = new + Lines * Cols
        /\ u.pos \in Nat /\ u.end \in Nat /\ u.end <= MemLines * Cols
    BY <1>0, <1>1, <1>8, <2>7, Sizes
  <2>9. u \in Screens
    BY <1>1, <2>2, <2>3, <2>6, <2>7, <2>8 DEF SoundScreen, Screens
  <2>10. SoundScreen(u)
    BY <2>7, <2>8, <2>9 DEF SoundScreen
  <2>11. View(u) = v
    BY <1>1, <1>3, <2>2, <2>5, <2>7, ViewIs DEF View
  <2> QED BY <1>2, <2>6, <2>7, <2>10, <2>11 DEF SameCursor
<1> QED BY <1>7, <1>8

(* A property of 0 that each number up to n hands on to the next. *)
LEMMA UpTo ==
    ASSUME NEW n \in Nat, NEW T, 0 \in T, \A i \in 0 .. n - 1 : i \in T => i + 1 \in T
    PROVE  \A i \in 0 .. n : i \in T
<1> SUFFICES ASSUME ~(\A i \in 0 .. n : i \in T) PROVE FALSE
  OBVIOUS
<1> DEFINE Out == {i \in 0 .. n : i \notin T}
           Below == OpToRel(<, Nat)
<1>1. Out \subseteq Nat /\ Out # {}
  OBVIOUS
<1>2. \A i, j \in Nat : j < i => <<j, i>> \in Below
  BY Zenon DEF OpToRel
<1>3. IsWellFoundedOn(Below, Nat)
  BY NatLessThanWellFounded, Zenon
<1> HIDE DEF Below
<1>4. PICK i \in Out : \A j \in Out : ~(<<j, i>> \in Below)
  <2> HIDE DEF Out
  <2> QED BY <1>1, <1>3, WFMin, Zenon
<1>5. i # 0 /\ i \in Nat /\ i <= n
  BY <1>4
<1>6. i - 1 \in Out
  BY <1>4, <1>5
<1>7. i - 1 \in Nat /\ i - 1 < i
  BY <1>5
<1> QED BY <1>2, <1>4, <1>5, <1>6, <1>7

(* SoundScreen screens, each made by G from the one before. *)
Sounds == {s \in Screens : SoundScreen(s)}
Chain(f, n, G, s) == f \in [0 .. n -> Sounds] /\ f[0] = s /\ \A i \in 1 .. n : f[i] = G[f[i - 1]]

LEMMA Repeated ==
    ASSUME NEW n \in Nat, NEW G \in [Sounds -> Sounds], NEW s \in Sounds
    PROVE  \E f : Chain(f, n, G, s)
<1> DEFINE Good(k) == {f \in [0 .. k -> Sounds] : Chain(f, k, G, s)}
           T == {k \in Nat : Good(k) # {}}
<1>1. 0 \in T
  <2>1. [i \in 0 .. 0 |-> s] \in Good(0)
    BY DEF Chain
  <2> QED BY <2>1
<1>2. ASSUME NEW k \in 0 .. n - 1, k \in T PROVE k + 1 \in T
  <2>1. PICK f \in Good(k) : TRUE
    BY <1>2
  <2> USE DEF Chain
  <2>2. PICK g : g = [i \in 0 .. k + 1 |-> IF i = k + 1 THEN G[f[k]] ELSE f[i]]
    OBVIOUS
  <2>3. g \in [0 .. k + 1 -> Sounds]
    BY <2>1, <2>2
  <2>4. g[0] = s
    BY <2>1, <2>2
  <2>5. ASSUME NEW i \in 1 .. k + 1 PROVE g[i] = G[g[i - 1]]
    BY <2>1, <2>2
  <2>6. g \in Good(k + 1)
    BY <2>3, <2>4, <2>5
  <2> QED BY <2>6
<1> HIDE DEF T
<1>3. n \in T
  BY <1>1, <1>2, UpTo
<1> QED BY <1>3 DEF T

(* The end of a chain is determined. *)
LEMMA ChainEnd ==
    ASSUME NEW n \in Nat, NEW G \in [Sounds -> Sounds], NEW s, NEW f, Chain(f, n, G, s),
           NEW g, g[0] = s, \A i \in 1 .. n : g[i - 1] \in Sounds => g[i] = G[g[i - 1]]
    PROVE  g[n] = f[n]
<1>1. PICK T : T = {i \in 0 .. n : g[i] = f[i]}
  OBVIOUS
<1>2. 0 \in T
  BY <1>1 DEF Chain
<1>3. ASSUME NEW i \in 0 .. n - 1, i \in T PROVE i + 1 \in T
  <2>1. i + 1 \in 1 .. n /\ i \in 0 .. n /\ (i + 1) - 1 = i
    OBVIOUS
  <2> QED BY <1>1, <1>3, <2>1 DEF Chain
<1>4. n \in T
  BY <1>2, <1>3, UpTo
<1> QED BY <1>1, <1>4

(* What the repetitions compute: the end of a chain. *)
IsInsertChar(G) == G \in [Sounds -> Sounds] /\ \A r \in Sounds : G[r] = InsertChar(r)

LEMMA RepeatInsertChar ==
    ASSUME NEW s \in Sounds, NEW n \in Nat, NEW G, IsInsertChar(G)
    PROVE  \E f : Chain(f, n, G, s) /\ Times(n, InsertChar, s) = f[n]
<1>1. PICK f : Chain(f, n, G, s)
  BY Repeated DEF IsInsertChar
<1>2. \A i \in 0 .. n : i # 0 => i - 1 \in 0 .. n /\ i \in 1 .. n
  OBVIOUS
<1>3. f = [i \in 0 .. n |-> IF i = 0 THEN s ELSE InsertChar(f[i - 1])]
  BY <1>1, <1>2 DEF Chain, IsInsertChar
<1>4. PICK g : g = CHOOSE h : h = [i \in 0 .. n |-> IF i = 0 THEN s ELSE InsertChar(h[i - 1])]
  OBVIOUS
<1>5. g = [i \in 0 .. n |-> IF i = 0 THEN s ELSE InsertChar(g[i - 1])]
  BY <1>3, <1>4
<1>6. Times(n, InsertChar, s) = g[n]
  BY <1>4 DEF Times
<1>7. g[0] = s /\ \A i \in 1 .. n : g[i - 1] \in Sounds => g[i] = G[g[i - 1]]
  BY <1>5 DEF IsInsertChar
<1>8. G \in [Sounds -> Sounds]
  BY DEF IsInsertChar
<1>9. g[n] = f[n]
  BY ONLY n \in Nat, <1>1, <1>7, <1>8, ChainEnd
<1> QED BY <1>1, <1>6, <1>9

IsDeleteChar(G) == G \in [Sounds -> Sounds] /\ \A r \in Sounds : G[r] = DeleteChar(r)

LEMMA RepeatDeleteChar ==
    ASSUME NEW s \in Sounds, NEW n \in Nat, NEW G, IsDeleteChar(G)
    PROVE  \E f : Chain(f, n, G, s) /\ Times(n, DeleteChar, s) = f[n]
<1>1. PICK f : Chain(f, n, G, s)
  BY Repeated DEF IsDeleteChar
<1>2. \A i \in 0 .. n : i # 0 => i - 1 \in 0 .. n /\ i \in 1 .. n
  OBVIOUS
<1>3. f = [i \in 0 .. n |-> IF i = 0 THEN s ELSE DeleteChar(f[i - 1])]
  BY <1>1, <1>2 DEF Chain, IsDeleteChar
<1>4. PICK g : g = CHOOSE h : h = [i \in 0 .. n |-> IF i = 0 THEN s ELSE DeleteChar(h[i - 1])]
  OBVIOUS
<1>5. g = [i \in 0 .. n |-> IF i = 0 THEN s ELSE DeleteChar(g[i - 1])]
  BY <1>3, <1>4
<1>6. Times(n, DeleteChar, s) = g[n]
  BY <1>4 DEF Times
<1>7. g[0] = s /\ \A i \in 1 .. n : g[i - 1] \in Sounds => g[i] = G[g[i - 1]]
  BY <1>5 DEF IsDeleteChar
<1>8. G \in [Sounds -> Sounds]
  BY DEF IsDeleteChar
<1>9. g[n] = f[n]
  BY ONLY n \in Nat, <1>1, <1>7, <1>8, ChainEnd
<1> QED BY <1>1, <1>6, <1>9

IsInsertLine(G) == G \in [Sounds -> Sounds] /\ \A r \in Sounds : G[r] = InsertLine(r)

LEMMA RepeatInsertLine ==
    ASSUME NEW s \in Sounds, NEW n \in Nat, NEW G, IsInsertLine(G)
    PROVE  \E f : Chain(f, n, G, s) /\ Times(n, InsertLine, s) = f[n]
<1>1. PICK f : Chain(f, n, G, s)
  BY Repeated DEF IsInsertLine
<1>2. \A i \in 0 .. n : i # 0 => i - 1 \in 0 .. n /\ i \in 1 .. n
  OBVIOUS
<1>3. f = [i \in 0 .. n |-> IF i = 0 THEN s ELSE InsertLine(f[i - 1])]
  BY <1>1, <1>2 DEF Chain, IsInsertLine
<1>4. PICK g : g = CHOOSE h : h = [i \in 0 .. n |-> IF i = 0 THEN s ELSE InsertLine(h[i - 1])]
  OBVIOUS
<1>5. g = [i \in 0 .. n |-> IF i = 0 THEN s ELSE InsertLine(g[i - 1])]
  BY <1>3, <1>4
<1>6. Times(n, InsertLine, s) = g[n]
  BY <1>4 DEF Times
<1>7. g[0] = s /\ \A i \in 1 .. n : g[i - 1] \in Sounds => g[i] = G[g[i - 1]]
  BY <1>5 DEF IsInsertLine
<1>8. G \in [Sounds -> Sounds]
  BY DEF IsInsertLine
<1>9. g[n] = f[n]
  BY ONLY n \in Nat, <1>1, <1>7, <1>8, ChainEnd
<1> QED BY <1>1, <1>6, <1>9

IsDeleteLine(G) == G \in [Sounds -> Sounds] /\ \A r \in Sounds : G[r] = DeleteLine(r)

LEMMA RepeatDeleteLine ==
    ASSUME NEW s \in Sounds, NEW n \in Nat, NEW G, IsDeleteLine(G)
    PROVE  \E f : Chain(f, n, G, s) /\ Times(n, DeleteLine, s) = f[n]
<1>1. PICK f : Chain(f, n, G, s)
  BY Repeated DEF IsDeleteLine
<1>2. \A i \in 0 .. n : i # 0 => i - 1 \in 0 .. n /\ i \in 1 .. n
  OBVIOUS
<1>3. f = [i \in 0 .. n |-> IF i = 0 THEN s ELSE DeleteLine(f[i - 1])]
  BY <1>1, <1>2 DEF Chain, IsDeleteLine
<1>4. PICK g : g = CHOOSE h : h = [i \in 0 .. n |-> IF i = 0 THEN s ELSE DeleteLine(h[i - 1])]
  OBVIOUS
<1>5. g = [i \in 0 .. n |-> IF i = 0 THEN s ELSE DeleteLine(g[i - 1])]
  BY <1>3, <1>4
<1>6. Times(n, DeleteLine, s) = g[n]
  BY <1>4 DEF Times
<1>7. g[0] = s /\ \A i \in 1 .. n : g[i - 1] \in Sounds => g[i] = G[g[i - 1]]
  BY <1>5 DEF IsDeleteLine
<1>8. G \in [Sounds -> Sounds]
  BY DEF IsDeleteLine
<1>9. g[n] = f[n]
  BY ONLY n \in Nat, <1>1, <1>7, <1>8, ChainEnd
<1> QED BY <1>1, <1>6, <1>9

(* A line from column x on, moved n columns to the left. *)
Shifted(v, y, x, n) ==
    [v EXCEPT ![y] = [c \in Col |-> IF c < x THEN v[y][c]
                                    ELSE IF x <= c + n /\ c + n < Cols
                                    THEN v[y][c + n] ELSE Blank]]

LEMMA SameViews ==
    ASSUME NEW v \in Views, NEW w \in Views, \A r \in Row, c \in Col : v[r][c] = w[r][c]
    PROVE  v = w
<1>1. \A r \in Row : v[r] = w[r]
  BY DEF Views
<1> QED BY <1>1 DEF Views

SameWay(j, i) == (j >= 0 /\ i >= 0) \/ (j <= 0 /\ i <= 0)

LEMMA NotMoved ==
    ASSUME NEW v \in Views, NEW t \in Int, NEW b \in Int
    PROVE  Moved(v, t, b, 0) = v
<1>1. ASSUME NEW r \in Row PROVE Moved(v, t, b, 0)[r] = v[r]
  <2>1. r \in Int /\ r + 0 = r
    BY DEF Row
  <2> QED BY <2>1 DEF Moved
<1> QED BY <1>1 DEF Moved, Views

LEMMA MovedTwice ==
    ASSUME NEW v \in Views, NEW t \in Nat, NEW b \in Nat, b <= Lines,
           NEW j \in Int, NEW i \in Int, SameWay(j, i), NEW n, n = j + i
    PROVE  Moved(Moved(v, t, b, j), t, b, i) = Moved(v, t, b, n)
<1>1. ASSUME NEW r \in Row
      PROVE  Moved(Moved(v, t, b, j), t, b, i)[r] = Moved(v, t, b, n)[r]
  BY Sizes DEF Moved, Row, SameWay
<1> QED BY <1>1 DEF Moved

LEMMA ShiftedType ==
    ASSUME NEW v \in Views, NEW y \in Row, NEW x \in 0 .. Cols, NEW n \in Int
    PROVE  Shifted(v, y, x, n) \in Views
<1>1. [c \in Col |-> IF c < x THEN v[y][c]
                     ELSE IF x <= c + n /\ c + n < Cols THEN v[y][c + n] ELSE Blank]
         \in [Col -> Char]
  BY Sizes DEF Views, Col, Char
<1> QED BY <1>1 DEF Shifted, Views

LEMMA NotShifted ==
    ASSUME NEW v \in Views, NEW y \in Row, NEW x \in Int
    PROVE  Shifted(v, y, x, 0) = v
<1>1. v[y] = [c \in Col |-> v[y][c]]
  BY DEF Views
<1>2. ASSUME NEW c \in Col
      PROVE  (IF c < x THEN v[y][c] ELSE IF x <= c + 0 /\ c + 0 < Cols THEN v[y][c + 0] ELSE Blank)
                = v[y][c]
  <2>1. c \in Int /\ c + 0 = c /\ c < Cols /\ (c < x \/ x <= c)
    BY Sizes DEF Col
  <2>2. CASE c < x
    BY <2>2
  <2>3. CASE ~(c < x)
    BY <2>1, <2>3
  <2> QED BY <2>2, <2>3
<1> QED BY <1>1, <1>2 DEF Shifted, Views

LEMMA ShiftedTwice ==
    ASSUME NEW v \in Views, NEW y \in Row, NEW x \in 0 .. Cols,
           NEW j \in Int, NEW i \in Int, SameWay(j, i), NEW n, n = j + i
    PROVE  Shifted(Shifted(v, y, x, j), y, x, i) = Shifted(v, y, x, n)
<1>1. PICK w : w = Shifted(v, y, x, j)
  OBVIOUS
<1>2. w \in Views
  BY <1>1, ShiftedType
<1>3. \A c \in Col : w[y][c] = IF c < x THEN v[y][c]
                   ELSE IF x <= c + j /\ c + j < Cols THEN v[y][c + j] ELSE Blank
  BY <1>1 DEF Shifted, Views
<1>4. \A r \in Row : r # y => w[r] = v[r]
  BY <1>1 DEF Shifted, Views
<1>5. ASSUME NEW r \in Row, NEW c \in Col
      PROVE  Shifted(w, y, x, i)[r][c] = Shifted(v, y, x, n)[r][c]
  <2>1. CASE r # y
    BY <1>2, <1>4, <2>1 DEF Shifted, Views
  <2>2. CASE r = y
    <3>1. Shifted(w, y, x, i)[y][c] = IF c < x THEN w[y][c]
                   ELSE IF x <= c + i /\ c + i < Cols THEN w[y][c + i] ELSE Blank
      BY <1>2 DEF Shifted, Views
    <3>2. Shifted(v, y, x, n)[y][c] = IF c < x THEN v[y][c]
                   ELSE IF x <= c + n /\ c + n < Cols THEN v[y][c + n]
                        ELSE Blank
      BY DEF Shifted, Views
    <3>3. (c + i) + j = c + n
      BY DEF Col
    <3>4. CASE c >= x /\ x <= c + i /\ c + i < Cols
      <4>1. c + i \in Col /\ ~(c < x) /\ ~(c + i < x)
        BY <3>4, Sizes DEF Col
      <4> QED BY <1>3, <2>2, <3>1, <3>2, <3>3, <3>4, <4>1
    <3>5. CASE c >= x /\ ~(x <= c + i /\ c + i < Cols)
      <4>1. ~(c < x) /\ ~(x <= c + n /\ c + n < Cols)
        BY <3>5, Sizes DEF Col, SameWay
      <4> QED BY <2>2, <3>1, <3>2, <3>5, <4>1
    <3>6. CASE c < x
      BY <1>3, <2>2, <3>1, <3>2, <3>6
    <3> QED BY <3>4, <3>5, <3>6 DEF Col
  <2> QED BY <2>1, <2>2
<1>6. Shifted(w, y, x, i) \in Views /\ Shifted(v, y, x, n) \in Views
  BY <1>2, ShiftedType
<1>7. Shifted(w, y, x, i) = Shifted(v, y, x, n)
  BY <1>5, <1>6, SameViews
<1> QED BY <1>1, <1>7

-----------------------------------------------------------------------------
(* What the functions of console.c do to the cursor and to what is seen.   *)
ScrUpDone(s, u, t, b) ==
    SoundScreen(u) /\ SameCursor(s, u) /\ View(u) = Moved(View(s), t, b, 1)

LEMMA ScrUpOK ==
    ASSUME NEW s, SoundScreen(s), NEW t, NEW b, Region(t, b)
    PROVE  ScrUpDone(s, ScrUp(s, t, b), t, b)
BY RegionUpOK, WindowDownOK DEF ScrUp, ScrUpDone

(* The cursor goes to another place of the window. *)
CursorAt(s, u, x, y) == SoundScreen(u) /\ u.x = x /\ u.y = y /\ View(u) = View(s)

LEMMA MoveOK ==
    ASSUME NEW s, SoundScreen(s), NEW x \in 0 .. Cols, NEW y \in Row,
           NEW u, u = [s EXCEPT !.x = x, !.y = y, !.pos = s.origin + y * Cols + x]
    PROVE  CursorAt(s, u, x, y)
<1>1. s.origin + y * Cols + x \in Nat
  <2>1. y * Cols \in Nat
    BY Times0, Sizes DEF Row
  <2> QED BY <2>1, SoundFacts
<1> QED BY <1>1 DEF SoundScreen, Screens, View, CursorAt

LEMMA RowFacts ==
    ASSUME NEW s, SoundScreen(s)
    PROVE  /\ s.y \in Int /\ s.y * Cols \in Nat
           /\ (s.y + 1) * Cols = s.y * Cols + Cols /\ (s.y - 1) * Cols = s.y * Cols - Cols
<1>1. PICK y \in Row : y = s.y
  BY SoundFacts
<1>2. y \in Int /\ y >= 0
  BY DEF Row
<1>3. y * Cols \in Int /\ y * Cols >= 0 /\ (y + 1) * Cols = y * Cols + Cols
      /\ (y - 1) * Cols = y * Cols - Cols
  BY <1>2, Times0
<1> QED BY <1>1, <1>2, <1>3

LfDone(s, u) ==
    /\ SoundScreen(u) /\ u.x = s.x
    /\ \/ s.y + 1 < bottom /\ u.y = s.y + 1 /\ View(u) = View(s)
       \/ s.y + 1 >= bottom /\ u.y = s.y /\ View(u) = Moved(View(s), top, bottom, 1)

LEMMA LfOK ==
    ASSUME NEW s, SoundScreen(s), Region(top, bottom)
    PROVE  LfDone(s, Lf(s))
<1>1. CASE s.y + 1 < bottom
  <2>1. s.y + 1 \in Row /\ (s.y + 1) * Cols = s.y * Cols + Cols /\ s.y * Cols \in Int
    <3>1. s.y + 1 \in Row
      BY <1>1, SoundFacts, Sizes DEF Row, Region
    <3> QED BY <3>1, RowFacts
  <2>2. s.pos + Cols = s.origin + (s.y + 1) * Cols + s.x
    BY <2>1, SoundFacts, Sizes
  <2>3. Lf(s) = [s EXCEPT !.x = s.x, !.y = s.y + 1, !.pos = s.pos + Cols]
    BY <1>1 DEF Lf, SoundScreen, Screens
  <2>4. CursorAt(s, Lf(s), s.x, s.y + 1)
    BY <2>1, <2>2, <2>3, SoundFacts, MoveOK
  <2> QED BY <1>1, <2>4 DEF CursorAt, LfDone
<1>2. CASE ~(s.y + 1 < bottom)
  <2>1. ScrUpDone(s, Lf(s), top, bottom) /\ s.y + 1 >= bottom
    BY <1>2, ScrUpOK, SoundFacts DEF Lf, Region, Row
  <2> QED BY <2>1 DEF ScrUpDone, SameCursor, LfDone
<1> QED BY <1>1, <1>2

RiDone(s, u) ==
    /\ SoundScreen(u) /\ u.x = s.x
    /\ \/ View(u) = View(s)
       \/ View(u) = Moved(View(s), top, bottom, -1)

LEMMA RiOK ==
    ASSUME NEW s, SoundScreen(s), Region(top, bottom)
    PROVE  RiDone(s, Ri(s))
<1>1. CASE s.y > top
  <2>1. s.y - 1 \in Row /\ (s.y - 1) * Cols = s.y * Cols - Cols /\ s.y * Cols \in Int
    <3>1. s.y - 1 \in Row
      BY <1>1, SoundFacts, Sizes DEF Row, Region
    <3> QED BY <3>1, RowFacts
  <2>2. s.pos - Cols = s.origin + (s.y - 1) * Cols + s.x
    BY <2>1, SoundFacts, Sizes
  <2>3. Ri(s) = [s EXCEPT !.x = s.x, !.y = s.y - 1, !.pos = s.pos - Cols]
    BY <1>1 DEF Ri, SoundScreen, Screens
  <2>4. CursorAt(s, Ri(s), s.x, s.y - 1)
    BY <2>1, <2>2, <2>3, SoundFacts, MoveOK
  <2> QED BY <2>4 DEF CursorAt, RiDone
<1>2. CASE ~(s.y > top)
  BY <1>2, ScrDownOK DEF Ri, SameCursor, RiDone
<1> QED BY <1>1, <1>2

LEMMA CrOK ==
    ASSUME NEW s, SoundScreen(s)
    PROVE  CursorAt(s, Cr(s), 0, s.y)
<1>1. s.pos - s.x = s.origin + s.y * Cols + 0
  <2>1. s.y * Cols \in Int
    BY Times0, SoundFacts DEF Row
  <2> QED BY <2>1, SoundFacts
<1>2. Cr(s) = [s EXCEPT !.x = 0, !.y = s.y, !.pos = s.pos - s.x]
  BY DEF Cr, SoundScreen, Screens
<1>3. 0 \in 0 .. Cols /\ s.y \in Row
  BY SoundFacts, Sizes
<1> QED BY <1>1, <1>2, <1>3, MoveOK

LEMMA GotoOK ==
    ASSUME NEW s, SoundScreen(s), NEW x \in Int, NEW y \in Int
    PROVE  SoundScreen(GotoXY(s, x, y)) /\ View(GotoXY(s, x, y)) = View(s)
<1>1. PICK i, j : i = x % Width /\ j = y % Width
  OBVIOUS
<1>2. i \in Nat /\ j \in Nat
  BY <1>1, Remainder, Sizes
<1>3. CASE i > Cols \/ j >= Lines
  BY <1>1, <1>3 DEF GotoXY
<1>4. CASE ~(i > Cols \/ j >= Lines)
  <2>1. i \in 0 .. Cols /\ j \in Row
    BY <1>2, <1>4, Sizes DEF Row
  <2>2. GotoXY(s, x, y) = [s EXCEPT !.x = i, !.y = j, !.pos = s.origin + j * Cols + i]
    BY <1>1, <1>4 DEF GotoXY
  <2>3. CursorAt(s, GotoXY(s, x, y), i, j)
    BY <2>1, <2>2, MoveOK
  <2> QED BY <2>3 DEF CursorAt
<1> QED BY <1>3, <1>4

LEMMA BackOK ==
    ASSUME NEW s, SoundScreen(s), s.x > 0,
           NEW u, u = [s EXCEPT !.x = s.x - 1, !.pos = s.pos - 1]
    PROVE  CursorAt(s, u, s.x - 1, s.y)
<1>1. s.pos - 1 = s.origin + s.y * Cols + (s.x - 1)
  <2>1. s.y * Cols \in Int
    BY Times0, SoundFacts DEF Row
  <2> QED BY <2>1, SoundFacts
<1>2. u = [s EXCEPT !.x = s.x - 1, !.y = s.y, !.pos = s.pos - 1]
  BY DEF SoundScreen, Screens
<1>3. s.x - 1 \in 0 .. Cols /\ s.y \in Row
  BY SoundFacts, Sizes
<1> QED BY <1>1, <1>2, <1>3, MoveOK

(* Columns beyond the last: x counts on, and the address with it. *)
LEMMA WrapOK ==
    ASSUME NEW s, SoundScreen(s), Region(top, bottom), NEW x \in 0 .. Cols,
           NEW t, t = [s EXCEPT !.x = x + Cols, !.pos = s.pos + ((x + Cols) - s.x)]
    PROVE  \E u : CursorAt(s, u, x, s.y) /\ LfDone(u, Wrap(t))
<1>1. PICK u : u = [s EXCEPT !.x = x, !.y = s.y, !.pos = s.origin + s.y * Cols + x]
  OBVIOUS
<1>2. CursorAt(s, u, x, s.y)
  BY <1>1, SoundFacts, MoveOK
<1>3. /\ (x + Cols) - Cols = x
      /\ (s.pos + ((x + Cols) - s.x)) - Cols = s.origin + s.y * Cols + x
  BY SoundFacts, RowFacts, Sizes
<1>4. [t EXCEPT !.x = t.x - Cols, !.pos = t.pos - Cols] = u
  BY <1>1, <1>3 DEF SoundScreen, Screens
<1>5. Wrap(t) = Lf(u)
  BY <1>4 DEF Wrap
<1> QED BY <1>2, <1>5, LfOK DEF CursorAt

LEMMA AtInjective ==
    ASSUME NEW o \in Int, NEW r \in Row, NEW c \in Col, NEW y \in Row, NEW x \in Col
    PROVE  CellAt(o, r, c) = CellAt(o, y, x) <=> r = y /\ c = x
<1>1. PICK q \in Int, f \in Int : q = y + 1 /\ f = o + y * Cols
  BY Times0 DEF Row
<1>2. y \in Int /\ r \in Int /\ Cols = (q - y) * Cols
  BY <1>1, Sizes DEF Row
<1>3. CellAt(o, r, c) \in f .. f + Cols - 1 <=> y <= r /\ r < q
  <2>1. f = o + y * Cols
    BY <1>1
  <2> QED BY ONLY <1>2, <2>1, o \in Int, c \in Col, q \in Int, InRows
<1>4. CellAt(o, y, x) = f + x /\ f + x \in f .. f + Cols - 1
  BY <1>1, Sizes DEF CellAt, Col
<1>5. r = y => CellAt(o, r, c) = f + c
  BY <1>1 DEF CellAt
<1> QED BY <1>1, <1>2, <1>3, <1>4, <1>5 DEF Col

CellSet(s, y, x, v) == [s.mem EXCEPT ![CellAt(s.origin, y, x)] = v]

LEMMA CellPut ==
    ASSUME NEW s, SoundScreen(s), NEW y \in Row, NEW x \in Col, NEW v \in Char,
           NEW m, m = CellSet(s, y, x, v)
    PROVE  /\ m \in [Addr -> Char]
           /\ Shown(m, s.origin) = [View(s) EXCEPT ![y][x] = v]
<1>1. m \in [Addr -> Char]
  BY SoundFacts DEF CellSet
<1>2. PICK w : w = [View(s) EXCEPT ![y][x] = v]
  OBVIOUS
<1>3. w \in Views
  BY <1>2, ViewType DEF Views
<1>4. ASSUME NEW r \in Row, NEW c \in Col PROVE m[CellAt(s.origin, r, c)] = w[r][c]
  <2>1. CellAt(s.origin, r, c) \in Addr /\ View(s)[r][c] = s.mem[CellAt(s.origin, r, c)]
    BY ViewType DEF View, Shown
  <2>2. CellAt(s.origin, r, c) = CellAt(s.origin, y, x) <=> r = y /\ c = x
    BY SoundFacts, AtInjective
  <2>3. w[r][c] = IF r = y /\ c = x THEN v ELSE View(s)[r][c]
    BY <1>2, ViewType DEF Views
  <2> QED BY <2>1, <2>2, <2>3, SoundFacts DEF CellSet
<1>5. PICK o \in Nat : o = s.origin
  BY SoundFacts
<1>6. \A r \in Row, c \in Col : m[CellAt(o, r, c)] = w[r][c]
  BY <1>4, <1>5
<1>7. Shown(m, o) = w
  BY ONLY <1>1, <1>3, <1>6, o \in Nat, ViewIs
<1> QED BY <1>1, <1>2, <1>5, <1>7

Put(s, v) == [s EXCEPT !.mem = [@ EXCEPT ![s.pos] = v], !.pos = @ + 1, !.x = @ + 1]

LEMMA PutOK ==
    ASSUME NEW s, SoundScreen(s), s.x < Cols, NEW v \in Char,
           NEW u, u = Put(s, v)
    PROVE  /\ SoundScreen(u) /\ u.y = s.y /\ u.x = s.x + 1
           /\ View(u) = [View(s) EXCEPT ![s.y][s.x] = v]
<1>1. PICK m : m = [s.mem EXCEPT ![CellAt(s.origin, s.y, s.x)] = v]
  OBVIOUS
<1>2. s.pos = CellAt(s.origin, s.y, s.x) /\ s.y \in Row /\ s.x \in Col
  BY SoundFacts, Sizes DEF CellAt, Col
<1>3. m \in [Addr -> Char] /\ Shown(m, s.origin) = [View(s) EXCEPT ![s.y][s.x] = v]
  <2>1. PICK y \in Row, x \in Col : y = s.y /\ x = s.x
    BY <1>2
  <2>2. m = CellSet(s, y, x, v)
    BY <1>1, <2>1 DEF CellSet
  <2>3. m \in [Addr -> Char] /\ Shown(m, s.origin) = [View(s) EXCEPT ![y][x] = v]
    BY <2>2, CellPut
  <2> QED BY <2>1, <2>3
<1>4. u = [s EXCEPT !.mem = m, !.pos = s.pos + 1, !.x = s.x + 1]
  BY <1>1, <1>2 DEF SoundScreen, Screens, Put
<1>5. s.pos + 1 = s.origin + s.y * Cols + (s.x + 1) /\ s.pos + 1 \in Nat
      /\ s.x + 1 \in 0 .. Cols
  <2>1. s.x \in Nat /\ s.x + 1 \in 0 .. Cols /\ s.origin \in Nat /\ s.pos \in Nat
    BY SoundFacts, Sizes
  <2>2. PICK k \in Nat : k = s.y * Cols
    BY RowFacts
  <2>3. s.pos = s.origin + k + s.x
    BY <2>2, SoundFacts
  <2>4. s.pos + 1 = s.origin + k + (s.x + 1)
    BY <2>1, <2>3
  <2> QED BY <2>1, <2>2, <2>4
<1>6. SoundScreen(u) /\ u.mem = m /\ u.origin = s.origin /\ u.y = s.y /\ u.x = s.x + 1
  BY <1>3, <1>4, <1>5 DEF SoundScreen, Screens
<1> QED BY <1>3, <1>6 DEF View

PrintDone(s, u, v, n) ==
    /\ SoundScreen(u) /\ n \in {0, 1}
    /\ n = 1 => s.x = Cols /\ s.y + 1 >= bottom
    /\ u.x = (s.x % Cols) + 1
    /\ View(u) = [Moved(View(s), top, bottom, n) EXCEPT ![u.y][u.x - 1] = v]

LEMMA PrintedOK ==
    ASSUME NEW s, SoundScreen(s), Region(top, bottom), NEW v \in Char
    PROVE  \E n : PrintDone(s, Printed(s, v), v, n)
<1>1. PICK w : w = IF s.x >= Cols THEN Wrap(s) ELSE s
  OBVIOUS
<1>2. PICK u : u = Printed(s, v)
  OBVIOUS
<1>3. u = Put(w, v)
  BY <1>1, <1>2 DEF Printed, Put
<1>4. ASSUME SoundScreen(w), w.x = s.x % Cols, NEW n \in {0, 1},
             n = 1 => s.x = Cols /\ s.y + 1 >= bottom,
             View(w) = Moved(View(s), top, bottom, n)
      PROVE  PrintDone(s, u, v, n)
  <2>1. w.x < Cols /\ w.x \in Int
    <3>1. s.x % Cols \in 0 .. Cols - 1
      BY Remainder, SoundFacts, Sizes
    <3> QED BY <1>4, <3>1, Sizes
  <2>2. SoundScreen(u) /\ u.y = w.y /\ u.x = w.x + 1 /\ View(u) = [View(w) EXCEPT ![w.y][w.x] = v]
    BY <1>3, <1>4, <2>1, PutOK
  <2>3. u.x - 1 = w.x
    BY <2>1, <2>2
  <2> QED BY <1>4, <2>2, <2>3 DEF PrintDone
<1>5. CASE s.x < Cols
  <2>1. s.x % Cols = s.x
    BY <1>5, SoundFacts, Sizes
  <2>2. View(s) = Moved(View(s), top, bottom, 0)
    BY ViewType, NotMoved DEF Region
  <2>3. w = s
    BY <1>1, <1>5, SoundFacts, Sizes
  <2>4. PrintDone(s, u, v, 0)
    BY <1>4, <2>1, <2>2, <2>3
  <2> QED BY <1>2, <2>4
<1>6. CASE s.x = Cols
  <2>0. Cols % Cols = 0
    BY Sizes
  <2>1. PICK x \in 0 .. Cols : x = 0
    BY Sizes
  <2>2. s = [s EXCEPT !.x = x + Cols, !.pos = s.pos + ((x + Cols) - s.x)]
    <3>1. x + Cols = s.x /\ s.pos + ((x + Cols) - s.x) = s.pos
      BY <1>6, <2>1, SoundFacts, Sizes
    <3> QED BY <3>1 DEF SoundScreen, Screens
  <2>3. PICK r : CursorAt(s, r, x, s.y) /\ LfDone(r, Wrap(s))
    BY <2>2, WrapOK
  <2>4. w = Wrap(s)
    BY <1>1, <1>6, Sizes
  <2>5. SoundScreen(w) /\ w.x = s.x % Cols
    BY <1>6, <2>0, <2>1, <2>3, <2>4 DEF CursorAt, LfDone
  <2>6. CASE View(w) = View(r)
    <3>1. View(w) = Moved(View(s), top, bottom, 0)
      BY <2>3, <2>6, ViewType, NotMoved DEF CursorAt, Region
    <3>2. PrintDone(s, u, v, 0)
      BY <1>4, <2>5, <3>1
    <3> QED BY <1>2, <3>2
  <2>7. CASE r.y + 1 >= bottom /\ View(w) = Moved(View(r), top, bottom, 1)
    <3>1. View(w) = Moved(View(s), top, bottom, 1) /\ s.y + 1 >= bottom
      BY <2>3, <2>7 DEF CursorAt
    <3>2. PrintDone(s, u, v, 1)
      BY <1>4, <1>6, <2>5, <3>1
    <3> QED BY <1>2, <3>2
  <2> QED BY <2>3, <2>4, <2>6, <2>7 DEF LfDone
<1>7. s.x < Cols \/ s.x = Cols
  BY SoundFacts, Sizes
<1> QED BY <1>5, <1>6, <1>7

TabDone(s, u) ==
    /\ SoundScreen(u)
    /\ \/ View(u) = View(s)
       \/ View(u) = Moved(View(s), top, bottom, 1)

LEMMA TabbedOK ==
    ASSUME NEW s, SoundScreen(s), Region(top, bottom)
    PROVE  TabDone(s, Tabbed(s))
<1>1. PICK n : n = TabStop - (s.x % TabStop)
  OBVIOUS
<1>2. n \in 1 .. TabStop
  <2>1. s.x % TabStop \in 0 .. TabStop - 1
    BY Remainder, SoundFacts, Sizes
  <2> QED BY <1>1, <2>1, Sizes
<1>3. PICK t : t = [s EXCEPT !.x = @ + n, !.pos = @ + n]
  OBVIOUS
<1>4. t.x = s.x + n
  BY <1>3 DEF SoundScreen, Screens
<1>5. CASE s.x + n > Cols
  <2>1. PICK x \in 0 .. Cols : x + Cols = s.x + n
    <3>1. (s.x + n) - Cols \in 0 .. Cols /\ ((s.x + n) - Cols) + Cols = s.x + n
      BY <1>2, <1>5, SoundFacts, Sizes
    <3> QED BY <3>1
  <2>2. s.pos + n = s.pos + ((x + Cols) - s.x)
    BY <1>2, <2>1, SoundFacts, Sizes
  <2>3. t = [s EXCEPT !.x = x + Cols, !.pos = s.pos + ((x + Cols) - s.x)]
    BY <1>3, <2>1, <2>2
  <2>4. PICK r : CursorAt(s, r, x, s.y) /\ LfDone(r, Wrap(t))
    BY <2>3, WrapOK
  <2>5. Tabbed(s) = Wrap(t)
    BY <1>1, <1>3, <1>4, <1>5 DEF Tabbed
  <2> QED BY <2>4, <2>5 DEF CursorAt, LfDone, TabDone
<1>6. CASE ~(s.x + n > Cols)
  <2>1. PICK x \in 0 .. Cols : x = s.x + n
    BY <1>2, <1>6, SoundFacts, Sizes
  <2>2. s.pos + n = s.origin + s.y * Cols + x
    BY <1>2, <2>1, SoundFacts, RowFacts, Sizes
  <2>3. t = [s EXCEPT !.x = x, !.y = s.y, !.pos = s.pos + n]
    BY <1>3, <2>1 DEF SoundScreen, Screens
  <2>4. CursorAt(s, t, x, s.y)
    BY <2>2, <2>3, SoundFacts, MoveOK
  <2>5. Tabbed(s) = t
    BY <1>1, <1>3, <1>4, <1>6 DEF Tabbed
  <2> QED BY <2>4, <2>5 DEF CursorAt, TabDone
<1> QED BY <1>5, <1>6

LEMMA InCols ==
    ASSUME NEW o \in Int, NEW y \in Row, NEW r \in Row, NEW c \in Col,
           NEW p \in 0 .. Cols, NEW q \in 0 .. Cols
    PROVE  CellAt(o, r, c) \in CellAt(o, y, p) .. CellAt(o, y, q) - 1 <=> r = y /\ p <= c /\ c < q
<1>1. PICK e \in Int, f \in Int : e = y + 1 /\ f = o + y * Cols
  BY Times0 DEF Row
<1>2. y \in Int /\ r \in Int /\ Cols = (e - y) * Cols
  BY <1>1, Sizes DEF Row
<1>3. CellAt(o, r, c) \in f .. f + Cols - 1 <=> y <= r /\ r < e
  <2>1. f = o + y * Cols
    BY <1>1
  <2> QED BY ONLY <1>2, <2>1, o \in Int, c \in Col, e \in Int, InRows
<1>4. CellAt(o, y, p) = f + p /\ CellAt(o, y, q) = f + q
  BY <1>1 DEF CellAt
<1>5. r = y => CellAt(o, r, c) = f + c
  BY <1>1 DEF CellAt
<1>6. CellAt(o, r, c) \in Int
  <2>1. r * Cols \in Int
    BY <1>2, Times0
  <2> QED BY <2>1 DEF CellAt, Col
<1> QED BY <1>1, <1>2, <1>3, <1>4, <1>5, <1>6, Sizes DEF Col

(* The cells from one place to another, in the order of reading, are blank. *)
Wiped(v, from, to) ==
    [r \in Row |-> [c \in Col |-> IF r * Cols + c \in from .. to - 1 THEN Blank ELSE v[r][c]]]

LEMMA WipedType ==
    ASSUME NEW v \in Views, NEW from, NEW to
    PROVE  Wiped(v, from, to) \in Views
BY DEF Wiped, Views, Char

Span(s, f, n, from, to) == from \in Int /\ to \in Int /\ f = s.origin + from /\ n = to - from

LEMMA BlankedOK ==
    ASSUME NEW s, SoundScreen(s), NEW f, NEW n, NEW from, NEW to, Span(s, f, n, from, to)
    PROVE  SoundScreen(Blanked(s, f, n)) /\ View(Blanked(s, f, n)) = Wiped(View(s), from, to)
<1>0. from \in Int /\ to \in Int /\ f = s.origin + from /\ n = to - from
  BY DEF Span
<1>1. PICK e : e = Erased(s.mem, f, n)
  OBVIOUS
<1>2. /\ e \in [Addr -> Char]
      /\ \A a \in Addr : e[a] = IF a \in f .. f + n - 1 THEN Blank ELSE s.mem[a]
  BY <1>1, ErasedOK, SoundFacts
<1>3. PICK o \in Nat : o = s.origin
  BY SoundFacts
<1>4. PICK w : w = Wiped(View(s), from, to)
  OBVIOUS
<1>5. w \in Views
  BY <1>4, ViewType, WipedType
<1>6. ASSUME NEW r \in Row, NEW c \in Col PROVE e[CellAt(o, r, c)] = w[r][c]
  <2>1. CellAt(o, r, c) \in Addr /\ View(s)[r][c] = s.mem[CellAt(o, r, c)]
    BY <1>3, ViewType DEF View, Shown
  <2>2. PICK k \in Int : k = r * Cols
    BY Times0 DEF Row
  <2>3. CellAt(o, r, c) = o + k + c
    BY <2>2 DEF CellAt
  <2>4. CellAt(o, r, c) \in f .. f + n - 1 <=> k + c \in from .. to - 1
    BY <1>0, <1>3, <2>3 DEF Col
  <2>5. w[r][c] = IF k + c \in from .. to - 1 THEN Blank ELSE View(s)[r][c]
    BY <1>4, <2>2 DEF Wiped
  <2> QED BY <1>2, <2>1, <2>4, <2>5
<1>7. Shown(e, o) = w
  BY ONLY <1>2, <1>5, <1>6, o \in Nat, ViewIs
<1>8. Blanked(s, f, n) = [s EXCEPT !.mem = e]
  BY <1>1 DEF Blanked
<1> QED BY <1>2, <1>3, <1>4, <1>7, <1>8, SoundMem

LEMMA DelOK ==
    ASSUME NEW s, SoundScreen(s), s.x > 0,
           NEW here, here = s.y * Cols + s.x
    PROVE  SoundScreen(Del(s)) /\ View(Del(s)) = Wiped(View(s), here - 1, here)
<1>1. PICK u : u = [s EXCEPT !.x = s.x - 1, !.pos = s.pos - 1]
  OBVIOUS
<1>2. CursorAt(s, u, s.x - 1, s.y)
  BY <1>1, BackOK
<1>3. here \in Int /\ s.pos = s.origin + here /\ s.x # 0
  BY SoundFacts, RowFacts
<1>4. u.mem = s.mem /\ u.origin = s.origin
  BY <1>1 DEF SoundScreen, Screens
<1>5. PICK f, n : f = s.pos - 1 /\ n = here - (here - 1)
  OBVIOUS
<1>6. n = 1 /\ f = s.origin + (here - 1) /\ here - 1 \in Int
  BY <1>3, <1>5, SoundFacts
<1>7. SoundScreen(Blanked(u, f, n)) /\ View(Blanked(u, f, n)) = Wiped(View(u), here - 1, here)
  <2>1. Span(u, f, n, here - 1, here) /\ SoundScreen(u)
    BY <1>2, <1>3, <1>4, <1>5, <1>6 DEF CursorAt, Span
  <2> QED BY <2>1, BlankedOK
<1>8. Erased(s.mem, f, n) = [s.mem EXCEPT ![s.pos - 1] = Blank]
  <2>1. PICK m \in [Addr -> Char] : m = s.mem
    BY SoundFacts
  <2>2. \A a \in Addr : a \in f .. f + n - 1 <=> a = f
    BY <1>5, <1>6, SoundFacts DEF Addr
  <2>3. Erased(m, f, n) = [m EXCEPT ![f] = Blank]
    BY <2>2 DEF Erased
  <2> QED BY <1>5, <2>1, <2>3
<1>9. Blanked(u, f, n) = Del(s)
  BY <1>1, <1>3, <1>4, <1>8 DEF Blanked, Del, SoundScreen, Screens
<1> QED BY <1>2, <1>7, <1>9 DEF CursorAt

ShiftDone(s, u, n) ==
    SoundScreen(u) /\ SameCursor(s, u) /\ View(u) = Shifted(View(s), s.y, s.x, n)

LEMMA NothingShifted ==
    ASSUME NEW s, SoundScreen(s), s.x >= Cols, NEW n \in Int
    PROVE  ShiftDone(s, s, n)
<1>1. PICK v \in Views, y \in Row : v = View(s) /\ y = s.y
  BY ViewType, SoundFacts
<1>2. [c \in Col |-> IF c < s.x THEN v[y][c]
                     ELSE IF s.x <= c + n /\ c + n < Cols THEN v[y][c + n] ELSE Blank] = v[y]
  <2>1. \A c \in Col : c < s.x
    BY SoundFacts, Sizes DEF Col
  <2>2. v[y] = [c \in Col |-> v[y][c]]
    BY <1>1 DEF Views
  <2> QED BY <2>1, <2>2
<1>3. Shifted(v, y, s.x, n) = v
  BY <1>1, <1>2 DEF Shifted, Views
<1> QED BY <1>1, <1>3 DEF ShiftDone, SameCursor

LEMMA InsertCharOK ==
    ASSUME NEW s, SoundScreen(s)
    PROVE  ShiftDone(s, InsertChar(s), -1)
<1>1. CASE s.x >= Cols
  BY <1>1, NothingShifted DEF InsertChar
<1>2. CASE s.x < Cols
  <2>0. PICK o \in Nat, x \in Col, y \in Row, pos \in Nat, mem \in [Addr -> Char], n \in Nat :
           /\ o = s.origin /\ x = s.x /\ y = s.y /\ pos = s.pos /\ mem = s.mem
           /\ n = (Cols - x) - 1 /\ pos = CellAt(o, y, x)
    BY <1>2, SoundFacts, Sizes DEF Col, CellAt
  <2>1. PICK m, e : m = Copied(mem, pos + 1, pos, n) /\ e = Erased(m, pos, 1)
    OBVIOUS
  <2>2. ASSUME NEW r \in Row, NEW c \in Col
        PROVE  /\ CellAt(o, r, c) \in pos + 1 .. (pos + 1) + n - 1 <=> r = y /\ x < c
               /\ CellAt(o, r, c) \in pos .. pos + 1 - 1 <=> r = y /\ c = x
    <3>1. PICK p \in 0 .. Cols, q \in 0 .. Cols : p = x + 1 /\ q = Cols
      BY Sizes DEF Col
    <3>2. CellAt(o, y, p) = pos + 1 /\ CellAt(o, y, q) = (pos + 1) + n
      <4>1. y * Cols \in Int
        BY Times0 DEF Row
      <4> QED BY <2>0, <3>1, <4>1 DEF CellAt, Col
    <3>3. /\ CellAt(o, r, c) \in CellAt(o, y, p) .. CellAt(o, y, q) - 1 <=> r = y /\ p <= c /\ c < q
          /\ CellAt(o, r, c) \in CellAt(o, y, x) .. CellAt(o, y, p) - 1 <=> r = y /\ x <= c /\ c < p
      BY InCols, Sizes DEF Col
    <3> QED BY <2>0, <3>1, <3>2, <3>3 DEF Col
  <2>3. ASSUME NEW a \in Addr, a \in pos + 1 .. (pos + 1) + n - 1
        PROVE  pos + (a - (pos + 1)) = a - 1 /\ a - 1 \in Addr
    <3>1. MemLines * Cols \in Int
      BY Times0, Sizes
    <3> QED BY <2>3, <3>1 DEF Addr
  <2>4. /\ m \in [Addr -> Char]
        /\ \A a \in Addr : m[a] = IF a \in pos + 1 .. (pos + 1) + n - 1 THEN mem[a - 1] ELSE mem[a]
    <3>1. PICK to \in Int : to = pos + 1
      OBVIOUS
    <3>2. \A a \in Addr : a \in to .. to + n - 1 => pos + (a - to) = a - 1 /\ pos + (a - to) \in Addr
      BY <2>3, <3>1
    <3>3. m = Copied(mem, to, pos, n) /\ pos \in Int /\ n \in Int
      BY <2>1, <3>1
    <3>4. /\ m \in [Addr -> Char]
          /\ \A a \in Addr : m[a] = IF a \in to .. to + n - 1 THEN mem[pos + (a - to)] ELSE mem[a]
      BY <3>2, <3>3, CopiedOK
    <3> QED BY <3>1, <3>2, <3>4
  <2>5. /\ e \in [Addr -> Char]
        /\ \A a \in Addr : e[a] = IF a \in pos .. pos + 1 - 1 THEN Blank ELSE m[a]
    BY <2>1, <2>4, ErasedOK
  <2>6. PICK v \in Views, w \in Views : v = View(s) /\ w = Shifted(v, y, x, -1)
    <3>1. x \in 0 .. Cols
      BY Sizes DEF Col
    <3> QED BY <3>1, ViewType, ShiftedType
  <2>7. ASSUME NEW r \in Row, NEW c \in Col PROVE e[CellAt(o, r, c)] = w[r][c]
    <3>1. /\ CellAt(o, r, c) \in Addr /\ v[r][c] = mem[CellAt(o, r, c)]
          /\ c > x => c - 1 \in Col /\ v[r][c - 1] = mem[CellAt(o, r, c - 1)]
      <4>1. \A j \in Col : CellAt(o, r, j) \in Addr /\ v[r][j] = mem[CellAt(o, r, j)]
        BY <2>0, <2>6, ViewType DEF View, Shown
      <4>2. c > x => c - 1 \in Col
        BY Sizes DEF Col
      <4> QED BY <4>1, <4>2
    <3>2. CellAt(o, r, c - 1) = CellAt(o, r, c) - 1
      <4>1. r * Cols \in Int
        BY Times0 DEF Row
      <4> QED BY <4>1 DEF CellAt, Col
    <3>3. w[r][c] = IF r # y THEN v[r][c] ELSE IF c < x THEN v[r][c]
                    ELSE IF x <= c + -1 /\ c + -1 < Cols THEN v[r][c + -1] ELSE Blank
      BY <2>6 DEF Shifted, Views
    <3>4. CASE r = y /\ x < c
      BY <2>2, <2>4, <2>5, <3>1, <3>2, <3>3, <3>4, Sizes DEF Col
    <3>5. CASE r = y /\ c = x
      <4>1. w[r][c] = Blank
        BY <3>3, <3>5 DEF Col
      <4> QED BY <2>2, <2>5, <3>1, <3>5, <4>1
    <3>6. CASE r # y \/ c < x
      <4>1. w[r][c] = v[r][c]
        BY <3>3, <3>6
      <4>2. ~(r = y /\ x < c) /\ ~(r = y /\ c = x)
        BY <3>6 DEF Col
      <4> QED BY <2>2, <2>4, <2>5, <3>1, <4>1, <4>2
    <3> QED BY <3>4, <3>5, <3>6 DEF Col
  <2>8. Shown(e, o) = w
    BY ONLY <2>5, <2>7, o \in Nat, w \in Views, ViewIs
  <2>9. InsertChar(s) = [s EXCEPT !.mem = e]
    BY <1>2, <2>0, <2>1, SoundFacts, Sizes DEF InsertChar
  <2> QED BY <2>0, <2>5, <2>6, <2>8, <2>9, SoundMem DEF ShiftDone
<1> QED BY <1>1, <1>2, SoundFacts, Sizes

LEMMA DeleteCharOK ==
    ASSUME NEW s, SoundScreen(s)
    PROVE  ShiftDone(s, DeleteChar(s), 1)
<1>1. CASE s.x >= Cols
  BY <1>1, NothingShifted DEF DeleteChar
<1>2. CASE s.x < Cols
  <2>0. PICK o \in Nat, x \in Col, y \in Row, pos \in Nat, mem \in [Addr -> Char], n \in Nat,
             last \in Nat :
           /\ o = s.origin /\ x = s.x /\ y = s.y /\ pos = s.pos /\ mem = s.mem
           /\ n = (Cols - x) - 1 /\ pos = CellAt(o, y, x) /\ last = pos + n
    BY <1>2, SoundFacts, Sizes DEF Col, CellAt
  <2>1. PICK m, e : m = Copied(mem, pos, pos + 1, n) /\ e = Erased(m, last, 1)
    OBVIOUS
  <2>2. ASSUME NEW r \in Row, NEW c \in Col
        PROVE  /\ CellAt(o, r, c) \in pos .. pos + n - 1 <=> r = y /\ x <= c /\ c < Cols - 1
               /\ CellAt(o, r, c) \in last .. last + 1 - 1 <=> r = y /\ c = Cols - 1
    <3>1. PICK p \in 0 .. Cols, q \in 0 .. Cols : p = Cols - 1 /\ q = Cols
      BY Sizes DEF Col
    <3>2. CellAt(o, y, p) = pos + n /\ CellAt(o, y, q) = last + 1 /\ x \in 0 .. Cols
      <4>1. y * Cols \in Int
        BY Times0 DEF Row
      <4> QED BY <2>0, <3>1, <4>1, Sizes DEF CellAt, Col
    <3>3. /\ CellAt(o, r, c) \in CellAt(o, y, x) .. CellAt(o, y, p) - 1 <=> r = y /\ x <= c /\ c < p
          /\ CellAt(o, r, c) \in CellAt(o, y, p) .. CellAt(o, y, q) - 1 <=> r = y /\ p <= c /\ c < q
      BY <3>2, InCols
    <3> QED BY <2>0, <3>1, <3>2, <3>3, Sizes DEF Col
  <2>3. ASSUME NEW a \in Addr, a \in pos .. pos + n - 1
        PROVE  (pos + 1) + (a - pos) = a + 1 /\ a + 1 \in Addr
    <3>1. CellAt(o, y, Cols - 1) \in Addr
      BY <2>0, ViewType, Sizes DEF Col
    <3>2. CellAt(o, y, Cols - 1) = pos + n
      <4>1. y * Cols \in Int
        BY Times0 DEF Row
      <4> QED BY <2>0, <4>1, Sizes DEF CellAt, Col
    <3>3. MemLines * Cols \in Int
      BY Times0, Sizes
    <3> QED BY <2>3, <3>1, <3>2, <3>3 DEF Addr
  <2>4. /\ m \in [Addr -> Char]
        /\ \A a \in Addr : m[a] = IF a \in pos .. pos + n - 1 THEN mem[a + 1] ELSE mem[a]
    <3>1. PICK from \in Int : from = pos + 1
      OBVIOUS
    <3>2. \A a \in Addr : a \in pos .. pos + n - 1
                            => from + (a - pos) = a + 1 /\ from + (a - pos) \in Addr
      BY <2>3, <3>1
    <3>3. m = Copied(mem, pos, from, n) /\ pos \in Int /\ n \in Int
      BY <2>1, <3>1
    <3>4. /\ m \in [Addr -> Char]
          /\ \A a \in Addr : m[a] = IF a \in pos .. pos + n - 1 THEN mem[from + (a - pos)] ELSE mem[a]
      BY <3>2, <3>3, CopiedOK
    <3> QED BY <3>2, <3>4
  <2>5. /\ e \in [Addr -> Char]
        /\ \A a \in Addr : e[a] = IF a \in last .. last + 1 - 1 THEN Blank ELSE m[a]
    BY <2>1, <2>4, ErasedOK
  <2>6. PICK v \in Views, w \in Views : v = View(s) /\ w = Shifted(v, y, x, 1)
    <3>1. x \in 0 .. Cols
      BY Sizes DEF Col
    <3> QED BY <3>1, ViewType, ShiftedType
  <2>7. ASSUME NEW r \in Row, NEW c \in Col PROVE e[CellAt(o, r, c)] = w[r][c]
    <3>1. /\ CellAt(o, r, c) \in Addr /\ v[r][c] = mem[CellAt(o, r, c)]
          /\ c < Cols - 1 => c + 1 \in Col /\ v[r][c + 1] = mem[CellAt(o, r, c + 1)]
      <4>1. \A j \in Col : CellAt(o, r, j) \in Addr /\ v[r][j] = mem[CellAt(o, r, j)]
        BY <2>0, <2>6, ViewType DEF View, Shown
      <4>2. c < Cols - 1 => c + 1 \in Col
        BY Sizes DEF Col
      <4> QED BY <4>1, <4>2
    <3>2. CellAt(o, r, c + 1) = CellAt(o, r, c) + 1
      <4>1. r * Cols \in Int
        BY Times0 DEF Row
      <4> QED BY <4>1 DEF CellAt, Col
    <3>3. w[r][c] = IF r # y THEN v[r][c] ELSE IF c < x THEN v[r][c]
                    ELSE IF x <= c + 1 /\ c + 1 < Cols THEN v[r][c + 1] ELSE Blank
      BY <2>6 DEF Shifted, Views
    <3>4. CASE r = y /\ x <= c /\ c < Cols - 1
      <4>1. w[r][c] = v[r][c + 1]
        BY <3>3, <3>4, Sizes DEF Col
      <4>2. ~(r = y /\ c = Cols - 1)
        BY <3>4, Sizes DEF Col
      <4> QED BY <2>2, <2>4, <2>5, <3>1, <3>2, <3>4, <4>1, <4>2
    <3>5. CASE r = y /\ c = Cols - 1
      <4>1. w[r][c] = Blank
        BY <3>3, <3>5, Sizes DEF Col
      <4> QED BY <2>2, <2>5, <3>1, <3>5, <4>1
    <3>6. CASE r # y \/ c < x
      <4>1. w[r][c] = v[r][c]
        BY <3>3, <3>6
      <4>2. ~(r = y /\ x <= c /\ c < Cols - 1) /\ ~(r = y /\ c = Cols - 1)
        BY <3>6, Sizes DEF Col
      <4> QED BY <2>2, <2>4, <2>5, <3>1, <4>1, <4>2
    <3> QED BY <3>4, <3>5, <3>6, Sizes DEF Col
  <2>8. Shown(e, o) = w
    BY ONLY <2>5, <2>7, o \in Nat, w \in Views, ViewIs
  <2>9. DeleteChar(s) = [s EXCEPT !.mem = e]
    <3>1. s.pos + ((Cols - s.x) - 1) = last /\ ~(s.x >= Cols)
      BY <1>2, <2>0, SoundFacts, Sizes
    <3> QED BY <2>0, <2>1, <3>1 DEF DeleteChar
  <2> QED BY <2>0, <2>5, <2>6, <2>8, <2>9, SoundMem DEF ShiftDone
<1> QED BY <1>1, <1>2, SoundFacts, Sizes

-----------------------------------------------------------------------------
(* Repetitions. *)
LEMMA AtMostOK ==
    ASSUME NEW n \in Nat, NEW max \in Nat \ {0}
    PROVE  AtMost(n, max) \in 1 .. max
BY DEF AtMost

LEMMA Negated == ASSUME NEW i \in Int PROVE -i = 0 - i
  OBVIOUS

LEMMA InsertCharsOK ==
    ASSUME NEW s, SoundScreen(s), NEW n \in Nat
    PROVE  \E k \in 0 .. Cols : ShiftDone(s, InsertChars(s, n), -k)
<1>1. PICK k \in 0 .. Cols : k = AtMost(n, Cols)
  BY AtMostOK, Sizes
<1>2. PICK G : G = [r \in Sounds |-> InsertChar(r)]
  OBVIOUS
<1>3. IsInsertChar(G) /\ s \in Sounds
  BY <1>2, InsertCharOK DEF Sounds, ShiftDone, SoundScreen, IsInsertChar
<1>4. PICK f : Chain(f, k, G, s) /\ Times(k, InsertChar, s) = f[k]
  BY <1>3, RepeatInsertChar
<1>5. PICK T : T = {i \in 0 .. k : ShiftDone(s, f[i], -i)}
  OBVIOUS
<1>6. PICK v \in Views, y \in Row, x \in 0 .. Cols : v = View(s) /\ y = s.y /\ x = s.x
  BY ViewType, SoundFacts
<1>7. 0 \in T
  <2>0. Shifted(v, y, x, 0) = v
    BY NotShifted
  <2>1. PICK i \in 0 .. k : i = 0
    OBVIOUS
  <2>2. -i = 0
    <3>1. i \in Int /\ 0 - i = 0
      BY <2>1
    <3>2. -i = 0 - i
      BY ONLY <3>1, Negated
    <3> QED BY ONLY <3>1, <3>2
  <2>3. ShiftDone(s, f[i], -i)
    BY <1>4, <1>6, <2>0, <2>1, <2>2 DEF Chain, ShiftDone, SameCursor
  <2> QED BY <1>5, <2>1, <2>3
<1>8. ASSUME NEW i \in 0 .. k - 1, i \in T PROVE i + 1 \in T
  <2>1. ShiftDone(s, f[i], -i) /\ i \in 0 .. k /\ i + 1 \in 1 .. k /\ (i + 1) - 1 = i
    BY <1>5, <1>8
  <2>2. f[i + 1] = InsertChar(f[i])
    BY <1>2, <1>4, <2>1 DEF Chain
  <2>3. ShiftDone(f[i], f[i + 1], -1)
    BY <2>1, <2>2, InsertCharOK DEF ShiftDone
  <2>4. Shifted(Shifted(v, y, x, -i), y, x, -1) = Shifted(v, y, x, -(i + 1))
    <3>1. PICK a \in Int, b \in Int, c \in Int : a = -i /\ b = -1 /\ c = -(i + 1)
      OBVIOUS
    <3>2. SameWay(a, b) /\ c = a + b
      BY <3>1 DEF SameWay
    <3>3. Shifted(Shifted(v, y, x, a), y, x, b) = Shifted(v, y, x, c)
      BY <3>2, Sizes, ShiftedTwice
    <3> QED BY <3>1, <3>3
  <2>5. ShiftDone(s, f[i + 1], -(i + 1))
    BY <1>6, <2>1, <2>3, <2>4 DEF ShiftDone, SameCursor
  <2> QED BY <1>5, <2>1, <2>5
<1>9. k \in T
  BY <1>7, <1>8, UpTo
<1>10. InsertChars(s, n) = f[k]
  BY <1>1, <1>4 DEF InsertChars
<1> QED BY <1>5, <1>9, <1>10

LEMMA DeleteCharsOK ==
    ASSUME NEW s, SoundScreen(s), NEW n \in Nat
    PROVE  \E k \in 0 .. Cols : ShiftDone(s, DeleteChars(s, n), k)
<1>1. PICK k \in 0 .. Cols : k = AtMost(n, Cols)
  BY AtMostOK, Sizes
<1>2. PICK G : G = [r \in Sounds |-> DeleteChar(r)]
  OBVIOUS
<1>3. IsDeleteChar(G) /\ s \in Sounds
  BY <1>2, DeleteCharOK DEF Sounds, ShiftDone, SoundScreen, IsDeleteChar
<1>4. PICK f : Chain(f, k, G, s) /\ Times(k, DeleteChar, s) = f[k]
  BY <1>3, RepeatDeleteChar
<1>5. PICK T : T = {i \in 0 .. k : ShiftDone(s, f[i], i)}
  OBVIOUS
<1>6. PICK v \in Views, y \in Row, x \in 0 .. Cols : v = View(s) /\ y = s.y /\ x = s.x
  BY ViewType, SoundFacts
<1>7. 0 \in T
  <2>0. Shifted(v, y, x, 0) = v
    BY NotShifted
  <2>1. 0 = 0 /\ Shifted(v, y, x, 0) = v
    BY <2>0
  <2> QED BY <1>4, <1>5, <1>6, <2>1 DEF Chain, ShiftDone, SameCursor
<1>8. ASSUME NEW i \in 0 .. k - 1, i \in T PROVE i + 1 \in T
  <2>1. ShiftDone(s, f[i], i) /\ i \in 0 .. k /\ i + 1 \in 1 .. k /\ (i + 1) - 1 = i
    BY <1>5, <1>8
  <2>2. f[i + 1] = DeleteChar(f[i])
    BY <1>2, <1>4, <2>1 DEF Chain
  <2>3. ShiftDone(f[i], f[i + 1], 1)
    BY <2>1, <2>2, DeleteCharOK DEF ShiftDone
  <2>4. Shifted(Shifted(v, y, x, i), y, x, 1) = Shifted(v, y, x, (i + 1))
    <3>1. PICK a \in Int, b \in Int, c \in Int : a = i /\ b = 1 /\ c = (i + 1)
      OBVIOUS
    <3>2. SameWay(a, b) /\ c = a + b
      BY <3>1 DEF SameWay
    <3>3. Shifted(Shifted(v, y, x, a), y, x, b) = Shifted(v, y, x, c)
      BY <3>2, Sizes, ShiftedTwice
    <3> QED BY <3>1, <3>3
  <2>5. ShiftDone(s, f[i + 1], (i + 1))
    BY <1>6, <2>1, <2>3, <2>4 DEF ShiftDone, SameCursor
  <2> QED BY <1>5, <2>1, <2>5
<1>9. k \in T
  BY <1>7, <1>8, UpTo
<1>10. DeleteChars(s, n) = f[k]
  BY <1>1, <1>4 DEF DeleteChars
<1> QED BY <1>5, <1>9, <1>10

(* The lines from the cursor's on. *)
LinesDone(s, u, n) ==
    SoundScreen(u) /\ SameCursor(s, u) /\ View(u) = Moved(View(s), s.y, Lines, n)

LEMMA InsertLineOK ==
    ASSUME NEW s, SoundScreen(s)
    PROVE  LinesDone(s, InsertLine(s), -1)
<1>1. Region(s.y, Lines)
  BY SoundFacts, Sizes DEF Region, Row
<1> QED BY <1>1, ScrDownOK DEF InsertLine, LinesDone

LEMMA DeleteLineOK ==
    ASSUME NEW s, SoundScreen(s)
    PROVE  LinesDone(s, DeleteLine(s), 1)
<1>1. Region(s.y, Lines)
  BY SoundFacts, Sizes DEF Region, Row
<1> QED BY <1>1, ScrUpOK DEF DeleteLine, LinesDone, ScrUpDone

LEMMA InsertLinesOK ==
    ASSUME NEW s, SoundScreen(s), NEW n \in Nat
    PROVE  \E k \in 0 .. Lines : LinesDone(s, InsertLines(s, n), -k)
<1>1. PICK k \in 0 .. Lines : k = AtMost(n, Lines)
  BY AtMostOK, Sizes
<1>2. PICK G : G = [r \in Sounds |-> InsertLine(r)]
  OBVIOUS
<1>3. IsInsertLine(G) /\ s \in Sounds
  BY <1>2, InsertLineOK DEF Sounds, LinesDone, SoundScreen, IsInsertLine
<1>4. PICK f : Chain(f, k, G, s) /\ Times(k, InsertLine, s) = f[k]
  BY <1>3, RepeatInsertLine
<1>5. PICK T : T = {i \in 0 .. k : LinesDone(s, f[i], -i)}
  OBVIOUS
<1>6. PICK v \in Views, y \in Nat : v = View(s) /\ y = s.y /\ y \in Row
  BY ViewType, SoundFacts DEF Row
<1>7. 0 \in T
  <2>0. Moved(v, y, Lines, 0) = v
    BY NotMoved, Sizes
  <2>1. PICK i \in 0 .. k : i = 0
    OBVIOUS
  <2>2. -i = 0
    <3>1. i \in Int /\ 0 - i = 0
      BY <2>1
    <3>2. -i = 0 - i
      BY ONLY <3>1, Negated
    <3> QED BY ONLY <3>1, <3>2
  <2>3. LinesDone(s, f[i], -i)
    BY <1>4, <1>6, <2>0, <2>1, <2>2 DEF Chain, LinesDone, SameCursor
  <2> QED BY <1>5, <2>1, <2>3
<1>8. ASSUME NEW i \in 0 .. k - 1, i \in T PROVE i + 1 \in T
  <2>1. LinesDone(s, f[i], -i) /\ i \in 0 .. k /\ i + 1 \in 1 .. k /\ (i + 1) - 1 = i
    BY <1>5, <1>8
  <2>2. f[i + 1] = InsertLine(f[i])
    BY <1>2, <1>4, <2>1 DEF Chain
  <2>3. LinesDone(f[i], f[i + 1], -1)
    BY <2>1, <2>2, InsertLineOK DEF LinesDone
  <2>4. Moved(Moved(v, y, Lines, -i), y, Lines, -1) = Moved(v, y, Lines, -(i + 1))
    <3>1. PICK a \in Int, b \in Int, c \in Int : a = -i /\ b = -1 /\ c = -(i + 1)
      OBVIOUS
    <3>2. SameWay(a, b) /\ c = a + b
      BY <3>1 DEF SameWay
    <3>3. Moved(Moved(v, y, Lines, a), y, Lines, b) = Moved(v, y, Lines, c)
      BY <3>2, Sizes, MovedTwice
    <3> QED BY <3>1, <3>3
  <2>5. LinesDone(s, f[i + 1], -(i + 1))
    BY <1>6, <2>1, <2>3, <2>4 DEF LinesDone, SameCursor
  <2> QED BY <1>5, <2>1, <2>5
<1>9. k \in T
  BY <1>7, <1>8, UpTo
<1>10. InsertLines(s, n) = f[k]
  BY <1>1, <1>4 DEF InsertLines
<1> QED BY <1>5, <1>9, <1>10

LEMMA DeleteLinesOK ==
    ASSUME NEW s, SoundScreen(s), NEW n \in Nat
    PROVE  \E k \in 0 .. Lines : LinesDone(s, DeleteLines(s, n), k)
<1>1. PICK k \in 0 .. Lines : k = AtMost(n, Lines)
  BY AtMostOK, Sizes
<1>2. PICK G : G = [r \in Sounds |-> DeleteLine(r)]
  OBVIOUS
<1>3. IsDeleteLine(G) /\ s \in Sounds
  BY <1>2, DeleteLineOK DEF Sounds, LinesDone, SoundScreen, IsDeleteLine
<1>4. PICK f : Chain(f, k, G, s) /\ Times(k, DeleteLine, s) = f[k]
  BY <1>3, RepeatDeleteLine
<1>5. PICK T : T = {i \in 0 .. k : LinesDone(s, f[i], i)}
  OBVIOUS
<1>6. PICK v \in Views, y \in Nat : v = View(s) /\ y = s.y /\ y \in Row
  BY ViewType, SoundFacts DEF Row
<1>7. 0 \in T
  <2>0. Moved(v, y, Lines, 0) = v
    BY NotMoved, Sizes
  <2>1. 0 = 0 /\ Moved(v, y, Lines, 0) = v
    BY <2>0
  <2> QED BY <1>4, <1>5, <1>6, <2>1 DEF Chain, LinesDone, SameCursor
<1>8. ASSUME NEW i \in 0 .. k - 1, i \in T PROVE i + 1 \in T
  <2>1. LinesDone(s, f[i], i) /\ i \in 0 .. k /\ i + 1 \in 1 .. k /\ (i + 1) - 1 = i
    BY <1>5, <1>8
  <2>2. f[i + 1] = DeleteLine(f[i])
    BY <1>2, <1>4, <2>1 DEF Chain
  <2>3. LinesDone(f[i], f[i + 1], 1)
    BY <2>1, <2>2, DeleteLineOK DEF LinesDone
  <2>4. Moved(Moved(v, y, Lines, i), y, Lines, 1) = Moved(v, y, Lines, (i + 1))
    <3>1. PICK a \in Int, b \in Int, c \in Int : a = i /\ b = 1 /\ c = (i + 1)
      OBVIOUS
    <3>2. SameWay(a, b) /\ c = a + b
      BY <3>1 DEF SameWay
    <3>3. Moved(Moved(v, y, Lines, a), y, Lines, b) = Moved(v, y, Lines, c)
      BY <3>2, Sizes, MovedTwice
    <3> QED BY <3>1, <3>3
  <2>5. LinesDone(s, f[i + 1], (i + 1))
    BY <1>6, <2>1, <2>3, <2>4 DEF LinesDone, SameCursor
  <2> QED BY <1>5, <2>1, <2>5
<1>9. k \in T
  BY <1>7, <1>8, UpTo
<1>10. DeleteLines(s, n) = f[k]
  BY <1>1, <1>4 DEF DeleteLines
<1> QED BY <1>5, <1>9, <1>10

-----------------------------------------------------------------------------
(* The erasures, next to the cursor. *)
Here(s) == s.y * Cols + s.x
WipeDone(s, u) ==
    /\ SoundScreen(u)
    /\ \/ View(u) = View(s)
       \/ \E from \in {0, s.y * Cols, Here(s) - 1, Here(s)},
             to \in {Here(s), (s.y + 1) * Cols, Lines * Cols} :
             View(u) = Wiped(View(s), from, to)

LEMMA Places ==
    ASSUME NEW s, SoundScreen(s)
    PROVE  /\ 0 \in Int /\ s.y * Cols \in Int /\ Here(s) \in Int /\ (s.y + 1) * Cols \in Int
           /\ Lines * Cols \in Int /\ s.x \in Int /\ s.origin \in Int
           /\ s.pos = s.origin + Here(s) /\ s.end = s.origin + Lines * Cols
           /\ (s.y + 1) * Cols = s.y * Cols + Cols /\ Here(s) = s.y * Cols + s.x
           /\ Cols * Lines = Lines * Cols
<1>1. s.y * Cols \in Int /\ (s.y + 1) * Cols = s.y * Cols + Cols
  BY RowFacts
<1>2. s.x \in Int /\ s.origin \in Int /\ s.pos = s.origin + s.y * Cols + s.x
      /\ s.end = s.origin + Lines * Cols
  BY SoundFacts
<1>3. Lines * Cols \in Int /\ Cols * Lines = Lines * Cols
  BY Sizes
<1>4. PICK k \in Int : k = s.y * Cols
  BY <1>1
<1>5. s.y * Cols + s.x \in Int /\ s.pos = s.origin + (s.y * Cols + s.x)
  BY <1>2, <1>4
<1> QED BY <1>1, <1>2, <1>3, <1>5, Sizes DEF Here

LEMMA WipedOK ==
    ASSUME NEW s, SoundScreen(s), NEW f, NEW n,
           NEW from \in {0, s.y * Cols, Here(s) - 1, Here(s)},
           NEW to \in {Here(s), (s.y + 1) * Cols, Lines * Cols},
           f = s.origin + from, n = to - from
    PROVE  WipeDone(s, Blanked(s, f, n))
<1>1. from \in Int /\ to \in Int
  BY Places
<1>2. Span(s, f, n, from, to)
  BY <1>1 DEF Span
<1> QED BY <1>2, BlankedOK DEF WipeDone

LEMMA EraseLineOK ==
    ASSUME NEW s, SoundScreen(s), NEW n \in Nat
    PROVE  WipeDone(s, EraseLine(s, n))
<1>1. CASE n = 0 /\ s.x < Cols
  <2>1. Cols - s.x = (s.y + 1) * Cols - Here(s)
    BY Places, Sizes
  <2>2. EraseLine(s, n) = Blanked(s, s.pos, Cols - s.x)
    BY <1>1 DEF EraseLine
  <2> QED BY <2>1, <2>2, Places, WipedOK
<1>2. CASE n = 1
  <2>1. s.pos - s.x = s.origin + s.y * Cols /\ s.x = Here(s) - s.y * Cols
    BY Places
  <2>2. EraseLine(s, n) = Blanked(s, s.pos - s.x, s.x)
    BY <1>2 DEF EraseLine
  <2> QED BY <2>1, <2>2, WipedOK
<1>3. CASE n = 2
  <2>1. s.pos - s.x = s.origin + s.y * Cols /\ Cols = (s.y + 1) * Cols - s.y * Cols
    BY Places, Sizes
  <2>2. EraseLine(s, n) = Blanked(s, s.pos - s.x, Cols)
    BY <1>3 DEF EraseLine
  <2> QED BY <2>1, <2>2, WipedOK
<1>4. CASE ~(n = 0 /\ s.x < Cols) /\ n # 1 /\ n # 2
  BY <1>4 DEF EraseLine, WipeDone
<1> QED BY <1>1, <1>2, <1>3, <1>4

LEMMA EraseDisplayOK ==
    ASSUME NEW s, SoundScreen(s), NEW n \in Nat
    PROVE  WipeDone(s, EraseDisplay(s, n))
<1>1. CASE n = 0
  <2>1. s.end - s.pos = Lines * Cols - Here(s)
    BY Places
  <2>2. EraseDisplay(s, n) = Blanked(s, s.pos, s.end - s.pos)
    BY <1>1 DEF EraseDisplay
  <2> QED BY <2>1, <2>2, Places, WipedOK
<1>2. CASE n = 1
  <2>1. s.pos - s.origin = Here(s) - 0 /\ s.origin = s.origin + 0
    BY Places
  <2>2. EraseDisplay(s, n) = Blanked(s, s.origin, s.pos - s.origin)
    BY <1>2 DEF EraseDisplay
  <2> QED BY <2>1, <2>2, WipedOK
<1>3. CASE n = 2
  <2>1. Cols * Lines = Lines * Cols - 0 /\ s.origin = s.origin + 0
    BY Places
  <2>2. EraseDisplay(s, n) = Blanked(s, s.origin, Cols * Lines)
    BY <1>3 DEF EraseDisplay
  <2> QED BY <2>1, <2>2, WipedOK
<1>4. CASE n # 0 /\ n # 1 /\ n # 2
  BY <1>4 DEF EraseDisplay, WipeDone
<1> QED BY <1>1, <1>2, <1>3, <1>4

-----------------------------------------------------------------------------
(* The invariant, and what each action does to what is seen.               *)
ParValues == [0 .. NPar - 1 -> Nat]
ConInv ==
    /\ SoundScreen(scr) /\ Region(top, bottom)
    /\ state \in {"text", "esc", "csi", "par"}
    /\ npar \in 0 .. NPar - 1 /\ par \in ParValues /\ saved \in Int \X Int

Draws == Abstract!Scroll \/ Abstract!Write \/ Abstract!Shift \/ Abstract!Erase
Redraws == SoundScreen(scr') /\ (Draws \/ Seen' = Seen)

LEMMA SeenIsView == Seen = View(scr) /\ Seen' = View(scr')
BY DEF Seen, View, Shown, CellAt, Row, Col

LEMMA MovedIsScrolled ==
    ASSUME NEW t \in Int, NEW b \in Int, NEW n \in Int
    PROVE  Moved(View(scr), t, b, n) = Abstract!Scrolled(t, b, n)
BY SeenIsView DEF Moved, Abstract!Scrolled, Abstract!Row, Abstract!Col, Abstract!Empty,
      NoCells, Row, Col

LEMMA StaysSeen ==
    ASSUME SoundScreen(scr'), View(scr') = View(scr)
    PROVE  Redraws
BY SeenIsView DEF Redraws

LEMMA RegionScrolls ==
    ASSUME SoundScreen(scr'), NEW n \in {-1, 1}, Region(top, bottom),
           View(scr') = Moved(View(scr), top, bottom, n)
    PROVE  Redraws
<1>1. top \in Int /\ bottom \in Int /\ n \in Int /\ n \in -Lines .. Lines
  BY Sizes DEF Region
<1>2. Seen' = Abstract!Scrolled(top, bottom, n)
  BY <1>1, SeenIsView, MovedIsScrolled
<1> QED BY <1>1, <1>2 DEF Redraws, Draws, Abstract!Scroll

LEMMA LinesScroll ==
    ASSUME SoundScreen(scr), NEW n \in -Lines .. Lines, LinesDone(scr, scr', n)
    PROVE  Redraws
<1>1. scr.y \in Int /\ Lines \in Int /\ n \in Int
  BY Sizes, SoundFacts DEF Row
<1>2. Seen' = Abstract!Scrolled(scr.y, Lines, n)
  BY <1>1, SeenIsView, MovedIsScrolled DEF LinesDone
<1> QED BY <1>1, <1>2 DEF LinesDone, Redraws, Draws, Abstract!Scroll

LEMMA LineShifts ==
    ASSUME SoundScreen(scr), NEW n \in -Cols .. Cols, ShiftDone(scr, scr', n)
    PROVE  Redraws
<1>1. View(scr') = Shifted(View(scr), scr.y, scr.x, n)
  BY DEF ShiftDone
<1>2. View(scr) \in Views /\ scr.y \in Row
  BY SoundFacts, ViewType
<1>3. Shifted(View(scr), scr.y, scr.x, n) =
         [Seen EXCEPT ![scr.y] =
                  [c \in Abstract!Col |-> IF c < scr.x THEN @[c]
                                 ELSE IF scr.x <= c + n /\ c + n < Cols
                                 THEN @[c + n] ELSE Blank]]
  BY <1>2, SeenIsView DEF Shifted, Abstract!Col, Col, Views
<1> QED BY <1>1, <1>3, SeenIsView DEF ShiftDone, Redraws, Draws, Abstract!Shift

LEMMA CellsWiped ==
    ASSUME SoundScreen(scr), WipeDone(scr, scr')
    PROVE  Redraws
<1>1. CASE View(scr') = View(scr)
  BY <1>1, StaysSeen DEF WipeDone
<1>2. ASSUME NEW from \in {0, scr.y * Cols, Here(scr) - 1, Here(scr)},
             NEW to \in {Here(scr), (scr.y + 1) * Cols, Lines * Cols},
             View(scr') = Wiped(View(scr), from, to)
      PROVE  Redraws
  <2>1. Seen' = [r \in Abstract!Row |-> [c \in Abstract!Col |->
                     IF r * Cols + c \in from .. to - 1 THEN Blank ELSE Seen[r][c]]]
    BY <1>2, SeenIsView DEF Wiped, Abstract!Row, Abstract!Col, Row, Col
  <2>2. Abstract!Erase
    BY <2>1 DEF Abstract!Erase, Here
  <2> QED BY <2>2 DEF WipeDone, Redraws, Draws
<1> QED BY <1>1, <1>2 DEF WipeDone

LEMMA CellWritten ==
    ASSUME SoundScreen(scr), Region(top, bottom), NEW v \in Char, NEW n,
           PrintDone(scr, scr', v, n)
    PROVE  Redraws
<1>1. top \in Int /\ bottom \in Int /\ n \in Int
  BY DEF Region, PrintDone
<1>2. Seen' = [Abstract!Scrolled(top, bottom, n) EXCEPT ![scr'.y][scr'.x - 1] = v]
  <2>1. Moved(View(scr), top, bottom, n) = Abstract!Scrolled(top, bottom, n)
    BY <1>1, MovedIsScrolled
  <2>2. View(scr') = [Moved(View(scr), top, bottom, n) EXCEPT ![scr'.y][scr'.x - 1] = v]
    BY DEF PrintDone
  <2> QED BY <2>1, <2>2, SeenIsView
<1>3. Abstract!Write
  BY <1>2 DEF PrintDone, Abstract!Write, Char
<1> QED BY <1>3 DEF PrintDone, Redraws, Draws

LEMMA ConInitOK == ConInit => ConInv /\ Abstract!Init
<1> SUFFICES ASSUME ConInit PROVE ConInv /\ Abstract!Init
  OBVIOUS
<1>1. PICK x \in 0 .. Cols - 1, y \in Row, m \in [Addr -> Char] :
         scr = [x |-> x, y |-> y, pos |-> y * Cols + x, origin |-> 0,
                end |-> Lines * Cols, mem |-> m]
  BY DEF ConInit, Row, Char
<1>2. /\ y * Cols \in Nat /\ Lines * Cols \in Nat /\ MemLines * Cols \in Int
      /\ Lines * Cols <= MemLines * Cols /\ y \in Int
  BY Times0, Sizes DEF Row
<1>3. PICK p, l : p = y * Cols /\ l = Lines * Cols
  OBVIOUS
<1>4. p + x \in Nat /\ p + x = 0 + p + x /\ l = 0 + l /\ l \in Nat /\ x \in 0 .. Cols
  BY <1>2, <1>3, Sizes
<1>5. SoundScreen(scr)
  <2>1. scr = [x |-> x, y |-> y, pos |-> p + x, origin |-> 0, end |-> l, mem |-> m]
    BY <1>1, <1>3
  <2>2. scr \in Screens
    BY <1>4, <2>1 DEF Screens
  <2>3. scr.pos = scr.origin + scr.y * Cols + scr.x
    BY <1>3, <1>4, <2>1
  <2>4. scr.end = scr.origin + Lines * Cols /\ scr.end <= MemLines * Cols
    BY <1>2, <1>3, <1>4, <2>1
  <2> QED BY <2>2, <2>3, <2>4 DEF SoundScreen
<1>6. Region(top, bottom)
  BY Sizes DEF ConInit, Region
<1>7. state \in {"text", "esc", "csi", "par"} /\ npar \in 0 .. NPar - 1
      /\ par \in ParValues /\ saved \in Int \X Int
  BY Sizes DEF ConInit, NoPar, ParValues
<1>8. Abstract!Init
  BY <1>5, ViewType, SeenIsView DEF Views, Char, Row, Col, Abstract!Init, Abstract!Row, Abstract!Col
<1> QED BY <1>5, <1>6, <1>7, <1>8 DEF ConInv

(* The rest of the state, in the actions that change what is on the screen. *)
Untouched == OnlyText /\ state' \in {"text", "esc", "csi", "par"}

LEMMA UntouchedOK ==
    ASSUME ConInv, Untouched, Redraws
    PROVE  ConInv' /\ Redraws
BY DEF ConInv, Untouched, Redraws, OnlyText, Region, ParValues, SoundScreen, Screens, Row, Addr, Char

LEMMA PrintCharOK == ASSUME ConInv, PrintChar PROVE ConInv' /\ Redraws
<1>1. PICK v \in Char : scr' = Printed(scr, v)
  BY DEF PrintChar, Char
<1>2. PICK n : PrintDone(scr, scr', v, n)
  BY <1>1, PrintedOK DEF ConInv
<1>3. Redraws
  BY <1>2, CellWritten DEF ConInv, PrintDone
<1>4. Untouched
  BY DEF PrintChar, Untouched, ConInv
<1> QED BY <1>3, <1>4, UntouchedOK

LEMMA LineFed == ASSUME ConInv, scr' = Lf(scr) PROVE Redraws
<1>1. LfDone(scr, scr')
  BY LfOK DEF ConInv
<1>2. ASSUME View(scr') = View(scr) PROVE Redraws
  BY <1>1, <1>2, StaysSeen DEF LfDone
<1>3. ASSUME View(scr') = Moved(View(scr), top, bottom, 1) PROVE Redraws
  BY <1>1, <1>3, RegionScrolls DEF LfDone, ConInv
<1> QED BY <1>1, <1>2, <1>3 DEF LfDone

LEMMA ControlOK == ASSUME ConInv, Control PROVE ConInv' /\ Redraws
<1>0. SoundScreen(scr) /\ Region(top, bottom) /\ scr.x \in 0 .. Cols
  BY SoundFacts DEF ConInv
<1>1. ASSUME scr' = Lf(scr) PROVE Redraws
  BY <1>1, LineFed
<1>2. ASSUME scr' = Cr(scr) PROVE Redraws
  BY <1>0, <1>2, CrOK, StaysSeen DEF CursorAt
<1>3. ASSUME scr' = scr PROVE Redraws
  BY <1>0, <1>3, StaysSeen
<1>4. ASSUME scr' = Del(scr) /\ scr.x > 0 PROVE Redraws
  <2>1. PICK here : here = Here(scr)
    OBVIOUS
  <2>2. SoundScreen(scr') /\ View(scr') = Wiped(View(scr), here - 1, here)
    BY <1>0, <1>4, <2>1, DelOK DEF Here
  <2> QED BY <1>0, <2>1, <2>2, CellsWiped DEF WipeDone
<1>5. ASSUME scr' = Tabbed(scr) PROVE Redraws
  <2>1. TabDone(scr, scr')
    BY <1>0, <1>5, TabbedOK
  <2>2. CASE View(scr') = View(scr)
    BY <2>1, <2>2, StaysSeen DEF TabDone
  <2>3. CASE View(scr') = Moved(View(scr), top, bottom, 1)
    BY <1>0, <2>1, <2>3, RegionScrolls DEF TabDone
  <2> QED BY <2>1, <2>2, <2>3 DEF TabDone
<1>6. ASSUME scr.x > 0 /\ scr' = [scr EXCEPT !.x = scr.x - 1, !.pos = scr.pos - 1] PROVE Redraws
  BY <1>0, <1>6, BackOK, StaysSeen DEF CursorAt
<1>7. Redraws
  <2>1. Del(scr) = scr \/ scr.x > 0
    BY <1>0 DEF Del
  <2> QED BY <1>1, <1>2, <1>3, <1>4, <1>5, <1>6, <2>1 DEF Control
<1>8. Untouched
  BY DEF Control, Untouched, ConInv
<1> QED BY <1>7, <1>8, UntouchedOK

LEMMA EscMoveOK == ASSUME ConInv, EscMove PROVE ConInv' /\ Redraws
<1>0. SoundScreen(scr) /\ Region(top, bottom) /\ scr.y + 1 \in Int /\ 0 \in Int
  BY SoundFacts DEF ConInv, Row
<1>1. ASSUME scr' = GotoXY(scr, 0, scr.y + 1) PROVE Redraws
  <2>1. PICK x \in Int, y \in Int : x = 0 /\ y = scr.y + 1
    BY <1>0
  <2> QED BY <1>0, <1>1, <2>1, GotoOK, StaysSeen
<1>2. ASSUME scr' = Lf(scr) PROVE Redraws
  BY <1>2, LineFed
<1>3. ASSUME scr' = Ri(scr) PROVE Redraws
  <2>1. RiDone(scr, scr')
    BY <1>0, <1>3, RiOK
  <2>2. CASE View(scr') = View(scr)
    BY <2>1, <2>2, StaysSeen DEF RiDone
  <2>3. CASE View(scr') = Moved(View(scr), top, bottom, -1)
    BY <1>0, <2>1, <2>3, RegionScrolls DEF RiDone
  <2> QED BY <2>1, <2>2, <2>3 DEF RiDone
<1>4. Untouched
  BY DEF EscMove, Untouched
<1> QED BY <1>1, <1>2, <1>3, <1>4, UntouchedOK DEF EscMove

LEMMA CursorGoes ==
    ASSUME ConInv, NEW x \in Int, NEW y \in Int, scr' = GotoXY(scr, x, y)
    PROVE  Redraws
BY GotoOK, StaysSeen DEF ConInv

LEMMA NothingDrawn == ASSUME ConInv, scr' = scr PROVE Redraws
BY StaysSeen DEF ConInv

LEMMA EscOtherOK == ASSUME ConInv, EscOther PROVE ConInv' /\ Redraws
<1>0. saved[1] \in Int /\ saved[2] \in Int
  BY DEF ConInv
<1>1. Redraws
  BY <1>0, CursorGoes, NothingDrawn DEF EscOther
<1>2. saved' \in Int \X Int
  BY SoundFacts DEF EscOther, ConInv, Row
<1> QED BY <1>1, <1>2 DEF EscOther, ConInv, Redraws, Region, ParValues

LEMMA ParsOK == ASSUME ConInv PROVE Npar \in 0 .. NPar - 1 /\ Par \in ParValues
BY Sizes DEF ConInv, Npar, Par, NoPar, ParValues

(* What is read of the parameters: the code reads par[0] and par[1].       *)
LEMMA ParsRead == ASSUME ConInv PROVE Par[0] \in Nat /\ Par[1] \in Nat
BY ParsOK, Sizes DEF ParValues

LEMMA CommandOK ==
    ASSUME ConInv, Command
    PROVE  npar' \in 0 .. NPar - 1 /\ par' \in ParValues /\ state' \in {"text", "esc", "csi", "par"}
BY Sizes DEF Command, NoPar, ParValues

LEMMA QuietOK ==
    ASSUME ConInv, Escape \/ Bracket \/ Question \/ Semicolon \/ Digit
    PROVE  ConInv' /\ Redraws
<1>1. UNCHANGED <<scr, top, bottom, saved>>
  BY DEF Escape, Bracket, Question, Semicolon, Digit, OnlyText
<1>2. Redraws
  BY <1>1, NothingDrawn
<1>3. state' \in {"text", "esc", "csi", "par"}
  BY DEF Escape, Bracket, Question, Semicolon, Digit
<1>4. npar' \in 0 .. NPar - 1 /\ par' \in ParValues
  <2>1. CASE Escape \/ Bracket
    BY <2>1 DEF Escape, Bracket, OnlyText, ConInv
  <2>2. CASE Question
    BY <2>2, Sizes DEF Question, NoPar, ParValues
  <2>3. CASE Semicolon
    BY <2>3, ParsOK, Sizes DEF Semicolon
  <2>4. CASE Digit
    <3>1. PICK d \in 0 .. 9 : par' = [Par EXCEPT ![Npar] = (10 * Par[Npar] + d) % Width]
      BY <2>4, Sizes DEF Digit
    <3>2. Par[Npar] \in Nat
      BY ParsOK DEF ParValues
    <3>3. PICK a \in Nat : a = 10 * Par[Npar] + d
      BY <3>2
    <3>4. a % Width \in Nat
      BY Remainder, Sizes
    <3> QED BY <2>4, <3>1, <3>3, <3>4, ParsOK DEF Digit, ParValues
  <2> QED BY <2>1, <2>2, <2>3, <2>4
<1> QED BY <1>1, <1>2, <1>3, <1>4 DEF ConInv, Redraws, Region, ParValues

LEMMA CursorToOK == ASSUME ConInv, CursorTo PROVE ConInv' /\ Redraws
<1>1. scr.x \in Int /\ scr.y \in Int
  BY SoundFacts DEF ConInv, Row
<1>2. One(Par[0]) \in Int /\ Less(Par[0]) \in Int /\ Less(Par[1]) \in Int
  BY ParsRead DEF One, Less
<1>3. PICK to \in Int \X Int : scr' = GotoXY(scr, to[1], to[2])
  BY <1>1, <1>2 DEF CursorTo
<1>4. Redraws
  BY <1>3, CursorGoes
<1> QED BY <1>4, CommandOK DEF CursorTo, ConInv, Redraws, Region, ParValues

LEMMA CursorOK == ASSUME ConInv, Cursor PROVE ConInv' /\ Redraws
<1>0. saved[1] \in Int /\ saved[2] \in Int
  BY DEF ConInv
<1>1. Redraws
  BY <1>0, CursorGoes, NothingDrawn DEF Cursor
<1>2. saved' \in Int \X Int
  BY SoundFacts DEF Cursor, ConInv, Row
<1> QED BY <1>1, <1>2, CommandOK DEF Cursor, ConInv, Redraws, Region, ParValues

LEMMA SetRegionOK == ASSUME ConInv, SetRegion PROVE ConInv' /\ Redraws
<1>1. Redraws
  BY NothingDrawn DEF SetRegion
<1>2. Region(top', bottom')
  BY ParsRead, Sizes DEF SetRegion, ConInv, Region, Less
<1> QED BY <1>1, <1>2, CommandOK DEF SetRegion, ConInv, Redraws, ParValues

LEMMA EditOK == ASSUME ConInv, Edit PROVE ConInv' /\ Redraws
<1>0. PICK n \in Nat : n = Par[0]
  BY ParsRead
<1>1. SoundScreen(scr)
  BY DEF ConInv
<1>2. ASSUME scr' = EraseDisplay(scr, n) \/ scr' = EraseLine(scr, n) PROVE Redraws
  BY <1>1, <1>2, EraseDisplayOK, EraseLineOK, CellsWiped
<1>3. ASSUME scr' = InsertChars(scr, n) PROVE Redraws
  <2>1. PICK k \in 0 .. Cols : ShiftDone(scr, scr', -k)
    BY <1>1, <1>3, InsertCharsOK
  <2>2. PICK m \in -Cols .. Cols : m = -k
    BY Sizes
  <2> QED BY <1>1, <2>1, <2>2, LineShifts
<1>4. ASSUME scr' = DeleteChars(scr, n) PROVE Redraws
  <2>1. PICK k \in 0 .. Cols : ShiftDone(scr, scr', k)
    BY <1>1, <1>4, DeleteCharsOK
  <2>2. k \in -Cols .. Cols
    BY Sizes
  <2> QED BY <1>1, <2>1, <2>2, LineShifts
<1>5. ASSUME scr' = InsertLines(scr, n) PROVE Redraws
  <2>1. PICK k \in 0 .. Lines : LinesDone(scr, scr', -k)
    BY <1>1, <1>5, InsertLinesOK
  <2>2. PICK m \in -Lines .. Lines : m = -k
    BY Sizes
  <2> QED BY <1>1, <2>1, <2>2, LinesScroll
<1>6. ASSUME scr' = DeleteLines(scr, n) PROVE Redraws
  <2>1. PICK k \in 0 .. Lines : LinesDone(scr, scr', k)
    BY <1>1, <1>6, DeleteLinesOK
  <2>2. k \in -Lines .. Lines
    BY Sizes
  <2> QED BY <1>1, <2>1, <2>2, LinesScroll
<1>7. Redraws
  BY <1>0, <1>2, <1>3, <1>4, <1>5, <1>6, NothingDrawn DEF Edit
<1> QED BY <1>7, CommandOK DEF Edit, ConInv, Redraws, Region, ParValues

(* Every step keeps the invariant and is one of Screen, or shows nothing.  *)
LEMMA ConStep == ASSUME ConInv, ConNext PROVE ConInv' /\ Redraws
BY PrintCharOK, ControlOK, QuietOK, EscMoveOK, EscOtherOK, CursorToOK, EditOK, SetRegionOK,
   CursorOK DEF ConNext

LEMMA ConStutter == ASSUME ConInv, UNCHANGED conVars PROVE ConInv' /\ Redraws
<1>1. Redraws
  BY NothingDrawn DEF conVars
<1> QED BY <1>1 DEF conVars, ConInv, Redraws, Region, ParValues

THEOREM ConsoleInvariant == ConSpec => []ConInv
<1>1. ConInv /\ [ConNext]_conVars => ConInv'
  BY ConStep, ConStutter
<1> QED BY <1>1, ConInitOK, PTL DEF ConSpec

(* The cursor is on the screen, at the address of its line and column, the *)
(* window is in video memory and the region is not empty, at any sequence  *)
(* of characters.                                                          *)
THEOREM CursorStaysInside == ConSpec => []CursorInside
<1>1. ConInv => CursorInside
  BY SoundFacts DEF ConInv, CursorInside, Region, Row
<1> QED BY <1>1, ConsoleInvariant, PTL

(* Whatever the window does in video memory, what is seen changes only as  *)
(* Screen says.                                                            *)
THEOREM ShowsAScreen == ConSpec => ImplementsScreen
<1>1. ConInv /\ [ConNext]_conVars =>
         [Abstract!Scroll \/ Abstract!Write \/ Abstract!Shift \/ Abstract!Erase]_Seen
  BY ConStep, ConStutter DEF Redraws, Draws
<1> QED BY <1>1, ConInitOK, ConsoleInvariant, PTL DEF ConSpec, ImplementsScreen, Abstract!Spec
=============================================================================
