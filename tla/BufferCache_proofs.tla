-------------------------- MODULE BufferCache_proofs --------------------------
(***************************************************************************)
(* The buffer cache, for any finite set of tasks, any blocks, any number   *)
(* of buffers and requests, and any bound on the number of writes: who has *)
(* a buffer, and then what is in it.                                       *)
(***************************************************************************)
EXTENDS BufferCache, FiniteSetTheorems, WellFoundedInduction, TLAPS

(* Where a task can be while it looks for a buffer. *)
GetPoints == {"getblk", "hashwait", "victim", "have", "sync", "syncnext", "reqwait"}
Scanning(t) == pc[t] \in {"sync", "syncnext"} \/ (pc[t] = "reqwait" /\ local[t].next # 0)

(* What a task knows, from where it is in the kernel.                      *)
TaskOK(t) ==
    /\ pc[t] = "user" => local[t] = NoLocals
    /\ pc[t] # "user" => op(t) \in Ops \cup {"sync"}
    /\ pc[t] # "user" /\ op(t) # "sync" => local[t].block \in Block
    /\ pc[t] \notin {"user", "getblk"} /\ op(t) # "sync" => bh(t) \in Buf
    /\ op(t) = "sync" =>
          Scanning(t) /\ local[t].passes = 1 /\ local[t].first = NULL
    /\ Scanning(t) <=> local[t].next # 0
    /\ pc[t] = "copy" => op(t) \in WriteOps
    /\ pc[t] = "reqwait" /\ local[t].next = 0 => local[t].first = NULL
    /\ local[t].first # NULL => pc[t] \in GetPoints
    /\ \A x \in Holding(t) : buf[x].blocknr = local[t].block
    /\ local[t].first # NULL =>
          buf[local[t].first.bh].blocknr = local[t].first.block

(* Writers that have not written, for whom the bound leaves room.          *)
Writing == {t \in Task : op(t) \in WriteOps /\ pc[t] # "brelse"}
VersionOK == nversion + Cardinality(Writing) <= MaxVersion

(* The task t waits for a request for the buffer x, which it has locked.   *)
Waits(t, x) ==
    pc[t] = "reqwait" /\ x = IF local[t].next = 0 THEN bh(t) ELSE local[t].next

(* LockOwner without counting. *)
LockOK ==
    \A x \in Buf :
        /\ ~buf[x].lock => Pending(x) = {} /\ \A t \in Task : ~Waits(t, x)
        /\ \A s, r \in Pending(x) : s = r
        /\ \A t, u \in Task : Waits(t, x) /\ Waits(u, x) => t = u
        /\ \A t \in Task : Waits(t, x) => Pending(x) = {}
        /\ buf[x].lock => Pending(x) # {} \/ \E t \in Task : Waits(t, x)

(* A buffer that has never had a block is clean, empty and unlocked.       *)
NamedOK ==
    \A x \in Buf : buf[x].dirt \/ buf[x].lock \/ buf[x].uptodate =>
                      buf[x].blocknr # NULL

IInv ==
    /\ TypeOK /\ (\A t \in Task : TaskOK(t)) /\ VersionOK
    /\ OneBufferPerBlock /\ CountIsHolders /\ LockOK /\ NamedOK

-----------------------------------------------------------------------------
(* Counting. *)
One(p) == IF p THEN 1 ELSE 0

(* Two sets of tasks that differ in one task at most. *)
LEMMA OneTaskCounts ==
    ASSUME NEW t \in Task, NEW S \in SUBSET Task, NEW R \in SUBSET Task,
           \A u \in Task \ {t} : u \in S <=> u \in R
    PROVE  /\ Cardinality(S) \in Nat /\ Cardinality(R) \in Nat
           /\ Cardinality(R) + One(t \in S) = Cardinality(S) + One(t \in R)
<1>1. IsFiniteSet(S) /\ IsFiniteSet(R)
  BY FS_Subset, CacheAssumption
<1>2. Cardinality(S) \in Nat /\ Cardinality(R) \in Nat
  BY <1>1, FS_CardinalityType
<1>3. CASE t \in S /\ t \notin R
  <2>1. R = S \ {t}
    BY <1>3
  <2>2. Cardinality(R) = Cardinality(S) - 1
    BY <1>1, <1>3, <2>1, FS_RemoveElement
  <2> QED BY <1>2, <1>3, <2>2 DEF One
<1>4. CASE t \in R /\ t \notin S
  <2>1. S = R \ {t}
    BY <1>4
  <2>2. Cardinality(S) = Cardinality(R) - 1
    BY <1>1, <1>4, <2>1, FS_RemoveElement
  <2> QED BY <1>2, <1>4, <2>2 DEF One
<1>5. CASE t \in R <=> t \in S
  <2>1. R = S
    BY <1>5
  <2> QED BY <1>2, <2>1 DEF One
<1> QED BY <1>3, <1>4, <1>5

(* A set of tasks with a member has a positive cardinality.                *)
LEMMA MemberCounts ==
    ASSUME NEW t \in Task, NEW S \in SUBSET Task
    PROVE  /\ Cardinality(S) \in Nat
           /\ t \in S => Cardinality(S) >= 1
           /\ S = {} <=> Cardinality(S) = 0
<1>1. IsFiniteSet(S)
  BY FS_Subset, CacheAssumption
<1>2. Cardinality(S) \in Nat
  BY <1>1, FS_CardinalityType
<1>3. Cardinality(S) = 0 <=> S = {}
  BY <1>1, FS_EmptySet
<1> QED BY <1>2, <1>3

(* make_request takes the last of the free requests.                       *)
LEMMA MaxIsFree ==
    ASSUME NEW S \in SUBSET Slot, S # {}
    PROVE  Max(S) \in S
<1> DEFINE T == {NReq - s : s \in S}
           Less == OpToRel(<, Nat)
<1>1. IsWellFoundedOn(Less, Nat)
  BY NatLessThanWellFounded, Zenon
<1>2. \A i, j \in Nat : j < i => <<j, i>> \in Less
  BY Zenon DEF OpToRel
<1> HIDE DEF Less
<1>3. T \subseteq Nat /\ T # {}
  <2>1. \A s \in S : NReq - s \in Nat
    BY CacheAssumption DEF Slot
  <2> QED BY <2>1
<1>4. PICK k \in T : \A j \in T : ~(<<j, k>> \in Less)
  <2> HIDE DEF T
  <2> QED BY <1>1, <1>3, WFMin, Zenon
<1>5. PICK m \in S : k = NReq - m
  BY <1>4
<1>6. ASSUME NEW s \in S PROVE m >= s
  <2>1. NReq - s \in T
    OBVIOUS
  <2>2. NReq - s \in Nat /\ NReq - m \in Nat
    BY CacheAssumption DEF Slot
  <2>3. ~(NReq - s < NReq - m)
    <3> HIDE DEF T
    <3> QED BY <1>2, <1>4, <1>5, <2>1, <2>2
  <2> QED BY <2>2, <2>3, CacheAssumption DEF Slot
<1> QED BY <1>6 DEF Max

(* The references of the task t to the buffer x. *)
FirstIs(t, x) == local[t].first # NULL /\ local[t].first.bh = x
Refs(t, x) == One(x \in Holding(t)) + One(FirstIs(t, x))

(* A buffer that nobody uses is in nobody's hands. *)
LEMMA UnusedIsFree ==
    ASSUME CountIsHolders, NEW x \in Buf, NEW t \in Task
    PROVE  /\ buf[x].count \in Nat
           /\ buf[x].count = 0 => x \notin Holding(t) /\ ~FirstIs(t, x)
           /\ x \in Holding(t) => buf[x].count >= 1
<1>1. buf[x].count = Cardinality(Holders(x)) + Cardinality(FirstHolders(x))
  BY DEF CountIsHolders
<1>2. Holders(x) \in SUBSET Task /\ FirstHolders(x) \in SUBSET Task
  BY DEF Holders, FirstHolders
<1>3. Cardinality(Holders(x)) \in Nat /\ Cardinality(FirstHolders(x)) \in Nat
  BY <1>2, MemberCounts
<1>4. t \in Holders(x) => Cardinality(Holders(x)) >= 1
  BY <1>2, MemberCounts
<1>5. t \in FirstHolders(x) => Cardinality(FirstHolders(x)) >= 1
  BY <1>2, MemberCounts
<1>6. /\ t \in Holders(x) <=> x \in Holding(t)
      /\ t \in FirstHolders(x) <=> FirstIs(t, x)
  BY DEF Holders, FirstHolders, FirstIs
<1> QED BY <1>1, <1>3, <1>4, <1>5, <1>6

(* The counts follow the references of the task that moves. *)
LEMMA CountStep ==
    ASSUME CountIsHolders, NEW t \in Task,
           \A u \in Task \ {t} : pc'[u] = pc[u] /\ local'[u] = local[u],
           \A x \in Buf : buf'[x].count \in Int
                /\ buf'[x].count + Refs(t, x) = buf[x].count + Refs(t, x)'
    PROVE  CountIsHolders'
<1> SUFFICES ASSUME NEW x \in Buf
             PROVE  buf'[x].count =
                      Cardinality(Holders(x)') + Cardinality(FirstHolders(x)')
  BY DEF CountIsHolders
<1>1. \A u \in Task \ {t} :
        /\ u \in Holders(x) <=> u \in Holders(x)'
        /\ u \in FirstHolders(x) <=> u \in FirstHolders(x)'
  BY DEF Holders, FirstHolders, Holding, bh
<1>2. /\ Holders(x) \in SUBSET Task /\ Holders(x)' \in SUBSET Task
      /\ FirstHolders(x) \in SUBSET Task /\ FirstHolders(x)' \in SUBSET Task
  BY DEF Holders, FirstHolders
<1> DEFINE h == Cardinality(Holders(x))
           k == Cardinality(Holders(x)')
           f == Cardinality(FirstHolders(x))
           g == Cardinality(FirstHolders(x)')
<1>3. /\ h \in Nat /\ k \in Nat
      /\ k + One(t \in Holders(x)) = h + One(t \in Holders(x)')
  BY <1>1, <1>2, OneTaskCounts
<1>4. /\ f \in Nat /\ g \in Nat
      /\ g + One(t \in FirstHolders(x)) = f + One(t \in FirstHolders(x)')
  BY <1>1, <1>2, OneTaskCounts
<1>5. /\ One(t \in Holders(x)) = One(x \in Holding(t))
      /\ One(t \in Holders(x)') = One(x \in Holding(t)')
  BY DEF Holders, One
<1>6. /\ One(t \in FirstHolders(x)) = One(FirstIs(t, x))
      /\ One(t \in FirstHolders(x)') = One(FirstIs(t, x)')
  BY DEF FirstHolders, FirstIs, One
<1>7. buf[x].count = h + f
  BY DEF CountIsHolders
<1> HIDE DEF h, k, f, g
<1>8. buf'[x].count \in Int
      /\ buf'[x].count + Refs(t, x) = buf[x].count + Refs(t, x)'
  OBVIOUS
<1> DEFINE a == One(x \in Holding(t))
           b == One(FirstIs(t, x))
           c == One(x \in Holding(t)')
           d == One(FirstIs(t, x)')
<1>9. a \in Nat /\ b \in Nat /\ c \in Nat /\ d \in Nat
  BY DEF One
<1>10. k + a = h + c /\ g + b = f + d
  BY <1>3, <1>4, <1>5, <1>6
<1>11. buf'[x].count + (a + b) = buf[x].count + (c + d)
  BY <1>8 DEF Refs
<1> HIDE DEF a, b, c, d
<1>12. buf'[x].count = k + g
  BY <1>3, <1>4, <1>7, <1>8, <1>9, <1>10, <1>11
<1> QED BY <1>12 DEF k, g

-----------------------------------------------------------------------------
(* What the steps of one task leave as it is. *)
LEMMA HoldsBuffers ==
    ASSUME TypeOK, NEW t \in Task, TaskOK(t)
    PROVE  /\ Holding(t) \subseteq Buf
           /\ local[t] \in Locals
           /\ local[t].first # NULL =>
                local[t].first \in First /\ local[t].first.bh \in Buf
<1>1. local[t] \in Locals
  BY DEF TypeOK
<1>2. local[t].first # NULL => local[t].first \in First /\ local[t].first.bh \in Buf
  BY <1>1 DEF Locals, First
<1>3. Holding(t) \subseteq Buf
  BY DEF TaskOK, Holding, Scanning, bh, op
<1> QED BY <1>1, <1>2, <1>3

(* Another task keeps what it knows: no buffer it uses changes its block.  *)
LEMMA OthersKeep ==
    ASSUME TypeOK, CountIsHolders, NEW u \in Task, TaskOK(u),
           pc'[u] = pc[u], local'[u] = local[u],
           \A x \in Buf : buf'[x].blocknr = buf[x].blocknr \/ buf[x].count = 0
    PROVE  TaskOK(u)'
<1>1. \A x \in Holding(u) : buf'[x].blocknr = buf[x].blocknr
  BY HoldsBuffers, UnusedIsFree
<1>2. local[u].first # NULL =>
        buf'[local[u].first.bh].blocknr = buf[local[u].first.bh].blocknr
  BY HoldsBuffers, UnusedIsFree DEF FirstIs
<1>3. Holding(u)' = Holding(u)
  BY DEF Holding, bh
<1> QED BY <1>1, <1>2, <1>3 DEF TaskOK, Scanning, op, bh

(* The bound on the versions holds when no task starts to write.           *)
LEMMA NoNewWriter ==
    ASSUME TypeOK, VersionOK, NEW t \in Task, nversion' = nversion,
           \A u \in Task \ {t} : pc'[u] = pc[u] /\ local'[u] = local[u],
           t \in Writing' => t \in Writing
    PROVE  VersionOK'
<1>1. Writing' \subseteq Writing /\ Writing \subseteq Task
  BY DEF Writing, op
<1>2. IsFiniteSet(Writing)
  BY <1>1, FS_Subset, CacheAssumption
<1>3. Cardinality(Writing') \in Nat /\ Cardinality(Writing') <= Cardinality(Writing)
  BY <1>1, <1>2, FS_Subset, FS_CardinalityType
<1>4. Cardinality(Writing) \in Nat
  BY <1>2, FS_CardinalityType
<1> QED BY <1>3, <1>4, CacheAssumption DEF VersionOK, TypeOK, Version

(* A step of the task t keeps the invariant. *)
LEMMA TaskMoves ==
    ASSUME IInv, NEW t \in Task,
           \A u \in Task \ {t} : pc'[u] = pc[u] /\ local'[u] = local[u],
           TypeOK', TaskOK(t)', VersionOK', OneBufferPerBlock', LockOK', NamedOK',
           \A x \in Buf :
              /\ buf'[x].count + Refs(t, x) = buf[x].count + Refs(t, x)'
              /\ buf'[x].blocknr = buf[x].blocknr \/ buf[x].count = 0
    PROVE  IInv'
<1>1. ASSUME NEW u \in Task PROVE TaskOK(u)'
  <2>1. CASE u = t
    BY <2>1
  <2>2. CASE u # t
    BY <2>2, OthersKeep DEF IInv
  <2> QED BY <2>1, <2>2
<1>2. \A x \in Buf : buf'[x].count \in Int
  BY DEF TypeOK, BufHead
<1>3. CountIsHolders'
  BY <1>2, CountStep DEF IInv
<1> QED BY <1>1, <1>3 DEF IInv

(* A step that leaves the table and the locks alone, of a task that does   *)
(* not wait for a request.                                                 *)
LEMMA LocksStay ==
    ASSUME LockOK, NEW t \in Task, request' = request,
           \A x \in Buf : buf'[x].lock = buf[x].lock,
           \A u \in Task \ {t} : pc'[u] = pc[u] /\ local'[u] = local[u],
           pc[t] # "reqwait", pc'[t] # "reqwait"
    PROVE  LockOK'
<1>1. \A x \in Buf : Pending(x)' = Pending(x)
  BY DEF Pending
<1>2. \A x \in Buf, u \in Task : Waits(u, x)' <=> Waits(u, x)
  BY DEF Waits, bh
<1> QED BY <1>1, <1>2 DEF LockOK

(* A step that only changes the place and the variables of the task t.     *)
LEMMA LocalStep ==
    ASSUME IInv, NEW t \in Task, NEW l \in Points, NEW r \in Locals,
           UNCHANGED <<buf, request, data>>,
           pc' = [pc EXCEPT ![t] = l], local' = [local EXCEPT ![t] = r],
           cpu' \in Task \cup {NULL}, asleep' \subseteq Task,
           pc[t] # "reqwait", l # "reqwait",
           VersionOK', TaskOK(t)', \A x \in Buf : Refs(t, x)' = Refs(t, x)
    PROVE  IInv'
<1>1. /\ pc \in [Task -> Points] /\ local \in [Task -> Locals]
      /\ \A u \in Task \ {t} : pc'[u] = pc[u] /\ local'[u] = local[u]
      /\ pc'[t] = l /\ local'[t] = r
      /\ pc' \in [Task -> Points] /\ local' \in [Task -> Locals]
  BY DEF IInv, TypeOK
<1>2. TypeOK'
  BY <1>1 DEF IInv, TypeOK, data
<1>3. OneBufferPerBlock' /\ NamedOK'
  BY DEF IInv, OneBufferPerBlock, NamedOK
<1>4. LockOK'
  BY <1>1, LocksStay DEF IInv
<1>5. \A x \in Buf : buf'[x].count + Refs(t, x) = buf[x].count + Refs(t, x)'
  OBVIOUS
<1> QED BY <1>1, <1>2, <1>3, <1>4, <1>5, TaskMoves

(* A step that only changes the place of the task t. *)
LEMMA PlaceStep ==
    ASSUME IInv, NEW t \in Task, NEW l \in Points,
           UNCHANGED <<buf, request, data, local>>,
           pc' = [pc EXCEPT ![t] = l],
           cpu' \in Task \cup {NULL}, asleep' \subseteq Task,
           pc[t] # "reqwait", l # "reqwait", pc[t] = "brelse" => l = "brelse",
           TaskOK(t)', Holding(t)' = Holding(t)
    PROVE  IInv'
<1>1. pc'[t] = l /\ local'[t] = local[t] /\ local[t] \in Locals
  BY DEF IInv, TypeOK
<1>2. local' = [local EXCEPT ![t] = local[t]]
  BY DEF IInv, TypeOK
<1>3. VersionOK'
  <2>1. t \in Writing' => t \in Writing
    BY <1>1 DEF Writing, op
  <2> QED BY <2>1, NoNewWriter DEF IInv, data
<1>4. \A x \in Buf : Refs(t, x)' = Refs(t, x)
  BY <1>1 DEF Refs, FirstIs, One
<1> QED BY <1>1, <1>2, <1>3, <1>4, LocalStep

(* The steps of this kind. *)
LEMMA WaitOnBufferKeeps ==
    ASSUME IInv, NEW t \in Task, WaitOnBuffer(t)
    PROVE  IInv'
<1>1. /\ pc[t] \in WaitPoints /\ pc' = [pc EXCEPT ![t] = pc[t]]
      /\ cpu' = NULL /\ asleep' = asleep \cup {t}
      /\ UNCHANGED <<buf, request, data, local>>
  BY DEF WaitOnBuffer, Sleep
<1>2. pc' = pc
  BY <1>1 DEF IInv, TypeOK
<1>3. TaskOK(t)' /\ Holding(t)' = Holding(t)
  BY <1>1, <1>2 DEF IInv, TaskOK, Holding, Scanning, op, bh
<1>4. asleep' \subseteq Task /\ cpu' \in Task \cup {NULL}
  BY <1>1 DEF IInv, TypeOK
<1>5. pc[t] \in Points /\ pc[t] # "reqwait"
  BY <1>1 DEF Points, WaitPoints
<1> QED BY <1>1, <1>3, <1>4, <1>5, PlaceStep

LEMMA SleepForBufferKeeps ==
    ASSUME IInv, NEW t \in Task, SleepForBuffer(t)
    PROVE  IInv'
<1>1. /\ pc[t] = "getblk" /\ pc' = [pc EXCEPT ![t] = pc[t]]
      /\ cpu' = NULL /\ asleep' = asleep \cup {t}
      /\ UNCHANGED <<buf, request, data, local>>
  BY DEF SleepForBuffer, Sleep, At
<1>2. pc' = pc
  BY <1>1 DEF IInv, TypeOK
<1>3. TaskOK(t)' /\ Holding(t)' = Holding(t)
  BY <1>1, <1>2 DEF IInv, TaskOK, Holding, Scanning, op, bh
<1>4. asleep' \subseteq Task /\ cpu' \in Task \cup {NULL}
  BY <1>1 DEF IInv, TypeOK
<1>5. pc[t] \in Points /\ pc[t] # "reqwait"
  BY <1>1 DEF Points, WaitPoints
<1> QED BY <1>1, <1>3, <1>4, <1>5, PlaceStep

LEMMA VictimLostKeeps ==
    ASSUME IInv, NEW t \in Task, VictimLost(t)
    PROVE  IInv'
<1>1. /\ pc[t] = "victim" /\ pc' = [pc EXCEPT ![t] = "getblk"]
      /\ cpu' = t /\ asleep' = asleep
      /\ UNCHANGED <<buf, request, data, local>>
  BY DEF VictimLost, Goto, Unlocked, At
<1>2. pc'[t] = "getblk" /\ TaskOK(t)
  BY <1>1 DEF IInv, TypeOK
<1>3. TaskOK(t)' /\ Holding(t)' = Holding(t)
  BY <1>1, <1>2 DEF TaskOK, Holding, Scanning, op, bh, GetPoints
<1>4. asleep' \subseteq Task /\ cpu' \in Task \cup {NULL} /\ "getblk" \in Points
  BY <1>1 DEF IInv, TypeOK, Points
<1> QED BY <1>1, <1>3, <1>4, PlaceStep

LEMMA UseCachedKeeps ==
    ASSUME IInv, NEW t \in Task, UseCached(t)
    PROVE  IInv'
<1>1. PICK l \in {"ahead", "use"} :
        /\ pc[t] = "have" /\ pc' = [pc EXCEPT ![t] = l] /\ local[t].first = NULL
        /\ cpu' = t /\ asleep' = asleep
        /\ UNCHANGED <<buf, request, data, local>>
  BY DEF UseCached, Goto, At
<1>2. pc'[t] = l /\ TaskOK(t)
  BY <1>1 DEF IInv, TypeOK
<1>3. TaskOK(t)' /\ Holding(t)' = Holding(t)
  BY <1>1, <1>2 DEF TaskOK, Holding, Scanning, op, bh, GetPoints
<1>4. asleep' \subseteq Task /\ cpu' \in Task \cup {NULL} /\ l \in Points
  BY <1>1 DEF IInv, TypeOK, Points
<1> QED BY <1>1, <1>3, <1>4, PlaceStep

LEMMA ReadDoneKeeps ==
    ASSUME IInv, NEW t \in Task, ReadDone(t)
    PROVE  IInv'
<1>1. PICK l \in {"use", "brelse"} :
        /\ pc[t] = "readwait" /\ pc' = [pc EXCEPT ![t] = l]
        /\ cpu' = t /\ asleep' = asleep
        /\ UNCHANGED <<buf, request, data, local>>
  BY DEF ReadDone, Goto, Unlocked, At
<1>2. pc'[t] = l /\ TaskOK(t)
  BY <1>1 DEF IInv, TypeOK
<1>3. TaskOK(t)' /\ Holding(t)' = Holding(t)
  BY <1>1, <1>2 DEF TaskOK, Holding, Scanning, op, bh, GetPoints
<1>4. asleep' \subseteq Task /\ cpu' \in Task \cup {NULL} /\ l \in Points
  BY <1>1 DEF IInv, TypeOK, Points, WaitPoints
<1> QED BY <1>1, <1>3, <1>4, PlaceStep

LEMMA ReadKeeps ==
    ASSUME IInv, NEW t \in Task, Read(t)
    PROVE  IInv'
<1>1. /\ pc[t] = "use" /\ pc' = [pc EXCEPT ![t] = "brelse"]
      /\ cpu' = t /\ asleep' = asleep
      /\ UNCHANGED <<buf, request, data, local>>
  BY DEF Read, Goto, At
<1>2. pc'[t] = "brelse" /\ TaskOK(t)
  BY <1>1 DEF IInv, TypeOK
<1>3. TaskOK(t)' /\ Holding(t)' = Holding(t)
  BY <1>1, <1>2 DEF TaskOK, Holding, Scanning, op, bh, GetPoints
<1>4. asleep' \subseteq Task /\ cpu' \in Task \cup {NULL} /\ "brelse" \in Points
  BY <1>1 DEF IInv, TypeOK, Points, WaitPoints
<1> QED BY <1>1, <1>3, <1>4, PlaceStep

LEMMA SkipCleanKeeps ==
    ASSUME IInv, NEW t \in Task, At(t, "sync"), Goto(t, "syncnext"),
           UNCHANGED <<buf, request, data, local>>
    PROVE  IInv'
<1>1. /\ pc[t] = "sync" /\ pc' = [pc EXCEPT ![t] = "syncnext"]
      /\ cpu' = t /\ asleep' = asleep
  BY DEF Goto, At
<1>2. pc'[t] = "syncnext" /\ TaskOK(t)
  BY <1>1 DEF IInv, TypeOK
<1>3. TaskOK(t)' /\ Holding(t)' = Holding(t)
  BY <1>1, <1>2 DEF TaskOK, Holding, Scanning, op, bh, GetPoints
<1>4. asleep' \subseteq Task /\ cpu' \in Task \cup {NULL} /\ "syncnext" \in Points
  BY <1>1 DEF IInv, TypeOK, Points
<1> QED BY <1>1, <1>3, <1>4, PlaceStep

LEMMA PageFaultKeeps ==
    ASSUME IInv, NEW t \in Task, PageFault(t)
    PROVE  IInv'
<1>1. /\ pc[t] = "copy" /\ pc' = [pc EXCEPT ![t] = pc[t]] /\ pc' = pc
      /\ cpu' = NULL /\ asleep' = asleep
      /\ UNCHANGED <<buf, request, data, local>>
  BY DEF PageFault, At, IInv, TypeOK
<1>2. TaskOK(t)' /\ Holding(t)' = Holding(t)
  BY <1>1 DEF IInv, TaskOK, Holding, Scanning, op, bh
<1>3. asleep' \subseteq Task /\ cpu' \in Task \cup {NULL} /\ pc[t] \in Points
  BY <1>1 DEF IInv, TypeOK, Points
<1> QED BY <1>1, <1>2, <1>3, PlaceStep

-----------------------------------------------------------------------------
(* Steps that change the local variables only. *)
LEMMA StartKeeps ==
    ASSUME IInv, NEW t \in Task, NEW o \in Ops, NEW b \in Block, Start(t, o, b)
    PROVE  IInv'
<1> DEFINE r == [local[t] EXCEPT !.op = o, !.block = b]
<1>1. /\ pc[t] = "user" /\ pc' = [pc EXCEPT ![t] = "getblk"]
      /\ cpu' = t /\ asleep' = asleep /\ o # "sync"
      /\ UNCHANGED <<buf, request, data>>
      /\ o \in WriteOps => Room
  BY DEF Start, Goto, At
<1>2. local' = [local EXCEPT ![t] = r]
  BY DEF Start
<1>3. local[t] = NoLocals /\ local[t] \in Locals /\ pc \in [Task -> Points]
      /\ local \in [Task -> Locals]
  BY <1>1 DEF IInv, TypeOK, TaskOK
<1>4. /\ r \in Locals /\ r.op = o /\ r.block = b /\ r.bh = NULL
      /\ r.first = NULL /\ r.next = 0
  <2>1. r \in Locals
    BY <1>3 DEF Locals
  <2>2. /\ r.op = o /\ r.block = b /\ r.bh = local[t].bh
        /\ r.first = local[t].first /\ r.next = local[t].next
    BY <1>3 DEF Locals
  <2> QED BY <1>3, <2>1, <2>2 DEF NoLocals
<1> HIDE DEF r
<1>5. pc'[t] = "getblk" /\ local'[t] = r
  BY <1>1, <1>2, <1>3
<1>6. TaskOK(t)'
  BY <1>1, <1>4, <1>5 DEF TaskOK, Holding, Scanning, op, bh
<1>7. \A x \in Buf : Refs(t, x)' = Refs(t, x)
  BY <1>1, <1>3, <1>4, <1>5 DEF Refs, FirstIs, Holding, NoLocals
<1>8. \A u \in Task \ {t} : pc'[u] = pc[u] /\ local'[u] = local[u]
  BY <1>1, <1>2, <1>3
<1>9. VersionOK'
  <2>1. CASE o \notin WriteOps
    <3>1. t \notin Writing'
      BY <1>4, <1>5, <2>1 DEF Writing, op
    <3> QED BY <1>1, <1>8, <3>1, NoNewWriter DEF IInv, data
  <2>2. CASE o \in WriteOps
    <3> DEFINE W == {u \in Task : op(u) \in WriteOps}
    <3>1. W \subseteq Task /\ Writing' \subseteq W \cup {t}
      BY <1>8 DEF Writing, op
    <3>2. t \notin W
      BY <1>3, NullAssumption DEF NoLocals, op
    <3>3. IsFiniteSet(W)
      BY <3>1, FS_Subset, CacheAssumption
    <3>4. /\ IsFiniteSet(W \cup {t}) /\ Cardinality(W) \in Nat
          /\ Cardinality(W \cup {t}) = Cardinality(W) + 1
      BY <3>2, <3>3, FS_AddElement, FS_CardinalityType
    <3>5. IsFiniteSet(Writing') /\ Cardinality(Writing') \in Nat
          /\ Cardinality(Writing') <= Cardinality(W \cup {t})
      BY <3>1, <3>4, FS_Subset, FS_CardinalityType
    <3>6. nversion + Cardinality(W) < MaxVersion
      BY <1>1, <2>2 DEF Room
    <3> HIDE DEF W
    <3>7. nversion' = nversion /\ nversion \in Nat
      BY <1>1, CacheAssumption DEF data, IInv, TypeOK, Version
    <3> QED BY <3>4, <3>5, <3>6, <3>7, CacheAssumption DEF VersionOK
  <2> QED BY <2>1, <2>2
<1>10. asleep' \subseteq Task /\ cpu' \in Task \cup {NULL} /\ "getblk" \in Points
  BY <1>1 DEF IInv, TypeOK, Points
<1> QED BY <1>1, <1>2, <1>4, <1>6, <1>7, <1>9, <1>10, LocalStep

LEMMA StartSyncKeeps ==
    ASSUME IInv, NEW t \in Task, StartSync(t)
    PROVE  IInv'
<1> DEFINE r == [local[t] EXCEPT !.op = "sync", !.next = 1, !.passes = 1,
                                 !.since = nversion]
<1>1. /\ pc[t] = "user" /\ pc' = [pc EXCEPT ![t] = "sync"]
      /\ cpu' = t /\ asleep' = asleep /\ "sync" \in Ops
      /\ UNCHANGED <<buf, request, data>>
  BY DEF StartSync, Goto, At
<1>2. local' = [local EXCEPT ![t] = r]
  BY DEF StartSync
<1>3. local[t] = NoLocals /\ local[t] \in Locals /\ pc \in [Task -> Points]
      /\ local \in [Task -> Locals] /\ nversion \in Version
  BY <1>1 DEF IInv, TypeOK, TaskOK
<1>4. /\ r \in Locals /\ r.op = "sync" /\ r.bh = NULL
      /\ r.first = NULL /\ r.next = 1 /\ r.passes = 1
  <2>1. 1 \in 0..NBuf /\ 1 \in 0..2
    BY CacheAssumption
  <2>2. r \in Locals
    BY <1>1, <1>3, <2>1 DEF Locals
  <2>3. /\ r.op = "sync" /\ r.bh = local[t].bh /\ r.first = local[t].first
        /\ r.next = 1 /\ r.passes = 1
    BY <1>3 DEF Locals
  <2> QED BY <1>3, <2>2, <2>3 DEF NoLocals
<1> HIDE DEF r
<1>5. pc'[t] = "sync" /\ local'[t] = r
  BY <1>1, <1>2, <1>3
<1>6. TaskOK(t)'
  BY <1>1, <1>4, <1>5 DEF TaskOK, Holding, Scanning, op, bh
<1>7. \A x \in Buf : Refs(t, x)' = Refs(t, x)
  BY <1>1, <1>3, <1>4, <1>5 DEF Refs, FirstIs, Holding, NoLocals
<1>8. \A u \in Task \ {t} : pc'[u] = pc[u] /\ local'[u] = local[u]
  BY <1>1, <1>2, <1>3
<1>9. VersionOK'
  <2>1. t \notin Writing'
    BY <1>4, <1>5 DEF Writing, op, WriteOps
  <2> QED BY <1>1, <1>8, <2>1, NoNewWriter DEF IInv, data
<1>10. asleep' \subseteq Task /\ cpu' \in Task \cup {NULL} /\ "sync" \in Points
  BY <1>1 DEF IInv, TypeOK, Points, WaitPoints
<1> QED BY <1>1, <1>2, <1>4, <1>6, <1>7, <1>9, <1>10, LocalStep

LEMMA ChooseVictimKeeps ==
    ASSUME IInv, NEW t \in Task, ChooseVictim(t)
    PROVE  IInv'
<1>1. /\ pc[t] = "getblk" /\ pc' = [pc EXCEPT ![t] = "victim"]
      /\ cpu' = t /\ asleep' = asleep
      /\ UNCHANGED <<buf, request, data>>
  BY DEF ChooseVictim, Goto, At
<1>2. PICK x \in Buf : local' = [local EXCEPT ![t].bh = x]
  BY DEF ChooseVictim, Victims
<1> DEFINE r == [local[t] EXCEPT !.bh = x]
<1>3. local' = [local EXCEPT ![t] = r]
  BY <1>2
<1>4. TaskOK(t) /\ local[t] \in Locals /\ pc \in [Task -> Points]
      /\ local \in [Task -> Locals]
  BY DEF IInv, TypeOK
<1>5. /\ r \in Locals /\ r.bh = x /\ r.op = local[t].op
      /\ r.block = local[t].block
      /\ r.first = local[t].first /\ r.next = local[t].next
  BY <1>4 DEF Locals
<1> HIDE DEF r
<1>6. pc'[t] = "victim" /\ local'[t] = r
  BY <1>1, <1>3, <1>4
<1>7. TaskOK(t)'
  BY <1>1, <1>4, <1>5, <1>6 DEF TaskOK, Holding, Scanning, op, bh, GetPoints
<1>8. \A y \in Buf : Refs(t, y)' = Refs(t, y)
  BY <1>1, <1>5, <1>6 DEF Refs, FirstIs, Holding
<1>9. VersionOK'
  <2>1. t \in Writing' => t \in Writing
    BY <1>1, <1>5, <1>6 DEF Writing, op
  <2> QED BY <1>1, <1>3, <1>4, <2>1, NoNewWriter DEF IInv, data
<1>10. asleep' \subseteq Task /\ cpu' \in Task \cup {NULL} /\ "victim" \in Points
  BY <1>1 DEF IInv, TypeOK, Points, WaitPoints
<1> QED BY <1>1, <1>3, <1>5, <1>7, <1>8, <1>9, <1>10, LocalStep

LEMMA VictimDirtyKeeps ==
    ASSUME IInv, NEW t \in Task, VictimDirty(t)
    PROVE  IInv'
<1> DEFINE r == [local[t] EXCEPT !.next = 1, !.passes = 2]
<1>1. /\ pc[t] = "victim" /\ pc' = [pc EXCEPT ![t] = "sync"]
      /\ cpu' = t /\ asleep' = asleep
      /\ UNCHANGED <<buf, request, data>>
  BY DEF VictimDirty, Goto, Unlocked, At
<1>2. local' = [local EXCEPT ![t] = r]
  BY DEF VictimDirty
<1>3. TaskOK(t) /\ local[t] \in Locals /\ pc \in [Task -> Points]
      /\ local \in [Task -> Locals]
  BY DEF IInv, TypeOK
<1>4. /\ r \in Locals /\ r.bh = local[t].bh /\ r.op = local[t].op
      /\ r.block = local[t].block /\ r.first = local[t].first /\ r.next = 1
  <2>1. r \in Locals
    <3> DEFINE n == 1
               p == 2
    <3>1. n \in 0..NBuf /\ p \in 0..2 /\ r = [local[t] EXCEPT !.next = n, !.passes = p]
      BY CacheAssumption
    <3> HIDE DEF r, n, p
    <3>2. local[t] \in Locals
      BY <1>3
    <3> QED BY <3>1, <3>2 DEF Locals
  <2>2. r.next = 1 /\ r.passes = 2
    BY <1>3, CacheAssumption DEF Locals
  <2>3. /\ r.op = local[t].op /\ r.block = local[t].block /\ r.bh = local[t].bh
        /\ r.first = local[t].first
    BY <1>3, CacheAssumption DEF Locals
  <2> QED BY <2>1, <2>2, <2>3
<1> HIDE DEF r
<1>5. pc'[t] = "sync" /\ local'[t] = r
  BY <1>1, <1>2, <1>3
<1>6. TaskOK(t)'
  BY <1>1, <1>3, <1>4, <1>5 DEF TaskOK, Holding, Scanning, op, bh, GetPoints
<1>7. \A y \in Buf : Refs(t, y)' = Refs(t, y)
  BY <1>1, <1>4, <1>5 DEF Refs, FirstIs, Holding
<1>8. VersionOK'
  <2>1. t \in Writing' => t \in Writing
    BY <1>1, <1>4, <1>5 DEF Writing, op
  <2> QED BY <1>1, <1>2, <1>3, <2>1, NoNewWriter DEF IInv, data
<1>9. asleep' \subseteq Task /\ cpu' \in Task \cup {NULL} /\ "sync" \in Points
  BY <1>1 DEF IInv, TypeOK, Points, WaitPoints
<1> QED BY <1>1, <1>2, <1>4, <1>6, <1>7, <1>8, <1>9, LocalStep

LEMMA StartAheadKeeps ==
    ASSUME IInv, NEW t \in Task, NEW b \in Block, StartAhead(t, b)
    PROVE  IInv'
<1> DEFINE f == [bh |-> bh(t), block |-> local[t].block]
           r == [local[t] EXCEPT !.first = f, !.block = b]
<1>1. /\ pc[t] = "ahead" /\ pc' = [pc EXCEPT ![t] = "getblk"]
      /\ cpu' = t /\ asleep' = asleep
      /\ UNCHANGED <<buf, request, data>>
  BY DEF StartAhead, Goto, At
<1>2. local' = [local EXCEPT ![t] = r]
  BY DEF StartAhead
<1>3. TaskOK(t) /\ local[t] \in Locals /\ pc \in [Task -> Points]
      /\ local \in [Task -> Locals]
  BY DEF IInv, TypeOK
<1>4. /\ bh(t) \in Buf /\ local[t].block \in Block /\ op(t) # "sync"
      /\ op(t) \in Ops \cup {"sync"} /\ local[t].first = NULL
      /\ local[t].next = 0 /\ buf[bh(t)].blocknr = local[t].block
  BY <1>1, <1>3 DEF TaskOK, Scanning, GetPoints, Holding
<1>5. f \in First /\ f # NULL /\ f.bh = bh(t) /\ f.block = local[t].block
  BY <1>4, NullAssumption DEF First
<1> HIDE DEF f
<1>6. /\ r \in Locals /\ r.bh = local[t].bh /\ r.op = local[t].op
      /\ r.block = b /\ r.first = f /\ r.next = 0
  BY <1>3, <1>4, <1>5 DEF Locals
<1> HIDE DEF r
<1>7. pc'[t] = "getblk" /\ local'[t] = r
  BY <1>1, <1>2, <1>3
<1>8. TaskOK(t)'
  BY <1>1, <1>4, <1>5, <1>6, <1>7
     DEF TaskOK, Holding, Scanning, op, bh, GetPoints
<1>9. \A y \in Buf : Refs(t, y)' = Refs(t, y)
  BY <1>1, <1>4, <1>5, <1>6, <1>7 DEF Refs, FirstIs, Holding, One, bh
<1>10. VersionOK'
  <2>1. t \in Writing' => t \in Writing
    BY <1>1, <1>6, <1>7 DEF Writing, op
  <2> QED BY <1>1, <1>2, <1>3, <2>1, NoNewWriter DEF IInv, data
<1>11. asleep' \subseteq Task /\ cpu' \in Task \cup {NULL} /\ "getblk" \in Points
  BY <1>1 DEF IInv, TypeOK, Points
<1> QED BY <1>1, <1>2, <1>6, <1>8, <1>9, <1>10, <1>11, LocalStep

LEMMA SyncNextKeeps ==
    ASSUME IInv, NEW t \in Task, SyncNext(t)
    PROVE  IInv'
<1>1. /\ pc[t] = "syncnext" /\ pc' = [pc EXCEPT ![t] = "sync"]
      /\ cpu' = t /\ asleep' = asleep
      /\ UNCHANGED <<buf, request, data>>
      /\ local[t].next < NBuf \/ local[t].passes > 1
  BY DEF SyncNext, Goto, At
<1>2. TaskOK(t) /\ local[t] \in Locals /\ pc \in [Task -> Points]
      /\ local \in [Task -> Locals]
  BY DEF IInv, TypeOK
<1>3. local[t].next \in 0..NBuf /\ local[t].passes \in 0..2
  BY <1>2 DEF Locals
<1> DEFINE n == IF local[t].next < NBuf THEN local[t].next + 1 ELSE 1
           p == IF local[t].next < NBuf THEN local[t].passes ELSE local[t].passes - 1
           r == [local[t] EXCEPT !.next = n, !.passes = p]
<1>4. n \in 1..NBuf /\ p \in 0..2 /\ (local[t].passes = 1 => p = 1)
  BY <1>1, <1>3, CacheAssumption
<1>5. local' = [local EXCEPT ![t] = r]
  <2>1. CASE local[t].next < NBuf
    <3>1. local' = [local EXCEPT ![t] = [@ EXCEPT !.next = n]]
      BY <2>1 DEF SyncNext
    <3>2. r = [local[t] EXCEPT !.next = n]
      BY <1>2, <2>1 DEF Locals
    <3> QED BY <1>2, <3>1, <3>2
  <2>2. CASE ~(local[t].next < NBuf)
    <3>1. local' = [local EXCEPT ![t] = [@ EXCEPT !.next = 1, !.passes = p]]
      BY <2>2 DEF SyncNext
    <3> QED BY <1>2, <2>2, <3>1
  <2> QED BY <2>1, <2>2
<1> HIDE DEF n, p
<1>6. /\ r \in Locals /\ r.bh = local[t].bh /\ r.op = local[t].op
      /\ r.block = local[t].block /\ r.first = local[t].first /\ r.next = n
      /\ r.passes = p
  <2>1. r \in Locals
    <3>1. n \in 0..NBuf /\ p \in 0..2 /\ local[t] \in Locals
      BY <1>2, <1>4
    <3> QED BY <3>1 DEF Locals
  <2>2. r.next = n /\ r.passes = p
    BY <1>2, <1>4 DEF Locals
  <2>3. /\ r.op = local[t].op /\ r.block = local[t].block /\ r.bh = local[t].bh
        /\ r.first = local[t].first
    BY <1>2, <1>4 DEF Locals
  <2> QED BY <2>1, <2>2, <2>3
<1> HIDE DEF r
<1>7. pc'[t] = "sync" /\ local'[t] = r
  BY <1>1, <1>2, <1>5
<1>8. TaskOK(t)'
  BY <1>1, <1>2, <1>4, <1>6, <1>7 DEF TaskOK, Holding, Scanning, op, bh,
        GetPoints
<1>9. \A y \in Buf : Refs(t, y)' = Refs(t, y)
  BY <1>1, <1>6, <1>7 DEF Refs, FirstIs, Holding
<1>10. VersionOK'
  <2>1. t \in Writing' => t \in Writing
    BY <1>1, <1>6, <1>7 DEF Writing, op
  <2> QED BY <1>1, <1>2, <1>5, <2>1, NoNewWriter DEF IInv, data
<1>11. asleep' \subseteq Task /\ cpu' \in Task \cup {NULL} /\ "sync" \in Points
  BY <1>1 DEF IInv, TypeOK, Points, WaitPoints
<1> QED BY <1>1, <1>5, <1>6, <1>8, <1>9, <1>10, <1>11, LocalStep

LEMMA SyncDevDoneKeeps ==
    ASSUME IInv, NEW t \in Task, SyncDevDone(t)
    PROVE  IInv'
<1> DEFINE r == [local[t] EXCEPT !.next = 0, !.passes = 0]
<1>1. /\ pc[t] = "syncnext" /\ pc' = [pc EXCEPT ![t] = "victim"]
      /\ cpu' = t /\ asleep' = asleep /\ op(t) # "sync"
      /\ UNCHANGED <<buf, request, data>>
  BY DEF SyncDevDone, LastPass, Goto, At
<1>2. local' = [local EXCEPT ![t] = r]
  BY DEF SyncDevDone
<1>3. TaskOK(t) /\ local[t] \in Locals /\ pc \in [Task -> Points]
      /\ local \in [Task -> Locals]
  BY DEF IInv, TypeOK
<1>4. /\ r \in Locals /\ r.bh = local[t].bh /\ r.op = local[t].op
      /\ r.block = local[t].block /\ r.first = local[t].first /\ r.next = 0
  <2>1. r \in Locals
    <3> DEFINE n == 0
               p == 0
    <3>1. n \in 0..NBuf /\ p \in 0..2 /\ r = [local[t] EXCEPT !.next = n, !.passes = p]
      BY CacheAssumption
    <3> HIDE DEF r, n, p
    <3>2. local[t] \in Locals
      BY <1>3
    <3> QED BY <3>1, <3>2 DEF Locals
  <2>2. r.next = 0 /\ r.passes = 0
    BY <1>3, CacheAssumption DEF Locals
  <2>3. /\ r.op = local[t].op /\ r.block = local[t].block /\ r.bh = local[t].bh
        /\ r.first = local[t].first
    BY <1>3, CacheAssumption DEF Locals
  <2> QED BY <2>1, <2>2, <2>3
<1> HIDE DEF r
<1>5. pc'[t] = "victim" /\ local'[t] = r
  BY <1>1, <1>2, <1>3
<1>6. TaskOK(t)'
  BY <1>1, <1>3, <1>4, <1>5 DEF TaskOK, Holding, Scanning, op, bh, GetPoints
<1>7. \A y \in Buf : Refs(t, y)' = Refs(t, y)
  BY <1>1, <1>4, <1>5 DEF Refs, FirstIs, Holding
<1>8. VersionOK'
  <2>1. t \in Writing' => t \in Writing
    BY <1>1, <1>4, <1>5 DEF Writing, op
  <2> QED BY <1>1, <1>2, <1>3, <2>1, NoNewWriter DEF IInv, data
<1>9. asleep' \subseteq Task /\ cpu' \in Task \cup {NULL} /\ "victim" \in Points
  BY <1>1 DEF IInv, TypeOK, Points, WaitPoints
<1> QED BY <1>1, <1>2, <1>4, <1>6, <1>7, <1>8, <1>9, LocalStep

LEMMA SysSyncDoneKeeps ==
    ASSUME IInv, NEW t \in Task, SysSyncDone(t)
    PROVE  IInv'
<1>1. /\ pc[t] = "syncnext" /\ pc' = [pc EXCEPT ![t] = "user"]
      /\ cpu' = NULL /\ asleep' = asleep /\ op(t) = "sync"
      /\ local' = [local EXCEPT ![t] = NoLocals]
      /\ UNCHANGED <<buf, request, data>>
  BY DEF SysSyncDone, LastPass, Leave, At
<1>2. TaskOK(t) /\ local[t] \in Locals /\ pc \in [Task -> Points]
      /\ local \in [Task -> Locals]
  BY DEF IInv, TypeOK
<1>3. NoLocals \in Locals
  BY CacheAssumption DEF NoLocals, Locals, Version
<1>4. pc'[t] = "user" /\ local'[t] = NoLocals
  BY <1>1, <1>2
<1>5. TaskOK(t)'
  BY <1>4, NullAssumption DEF TaskOK, Holding, Scanning, op, bh, NoLocals
<1>6. \A y \in Buf : Refs(t, y)' = Refs(t, y)
  BY <1>1, <1>2, <1>4 DEF Refs, FirstIs, Holding, NoLocals, TaskOK
<1>7. VersionOK'
  <2>1. t \notin Writing'
    BY <1>4, NullAssumption DEF Writing, op, NoLocals
  <2> QED BY <1>1, <1>2, <2>1, NoNewWriter DEF IInv, data
<1>8. asleep' \subseteq Task /\ cpu' \in Task \cup {NULL} /\ "user" \in Points
  BY <1>1 DEF IInv, TypeOK, Points
<1> QED BY <1>1, <1>3, <1>5, <1>6, <1>7, <1>8, LocalStep

-----------------------------------------------------------------------------
(* Steps that change a buffer head. *)

(* The block is still there: the buffer is in use since it was found.      *)
LEMMA RecheckHashKeeps ==
    ASSUME IInv, NEW t \in Task, RecheckHash(t)
    PROVE  IInv'
<1>1. pc[t] = "hashwait" /\ TaskOK(t)
  BY DEF RecheckHash, Unlocked, At, IInv
<1>2. bh(t) \in Buf /\ buf[bh(t)].blocknr = local[t].block
  BY <1>1 DEF TaskOK, Holding, Scanning
<1>3. bh(t) \in Cached(local[t].block)
  BY <1>2 DEF Cached
<1>4. /\ pc' = [pc EXCEPT ![t] = "have"] /\ cpu' = t /\ asleep' = asleep
      /\ UNCHANGED <<buf, request, data, local>>
  BY <1>3 DEF RecheckHash, Goto
<1>5. pc'[t] = "have"
  BY <1>4 DEF IInv, TypeOK
<1>6. TaskOK(t)' /\ Holding(t)' = Holding(t)
  BY <1>1, <1>4, <1>5 DEF TaskOK, Holding, Scanning, op, bh, GetPoints
<1>7. asleep' \subseteq Task /\ cpu' \in Task \cup {NULL} /\ "have" \in Points
  BY <1>4 DEF IInv, TypeOK, Points
<1> QED BY <1>1, <1>4, <1>6, <1>7, PlaceStep

(* What depends on the blocks of the buffers and the flags only.           *)
LEMMA HeadsStay ==
    ASSUME OneBufferPerBlock, NamedOK,
           \A x \in Buf :
              /\ buf'[x].blocknr = buf[x].blocknr /\ buf'[x].lock = buf[x].lock
              /\ buf'[x].uptodate = buf[x].uptodate
              /\ buf'[x].dirt => buf[x].dirt \/ buf[x].blocknr # NULL
    PROVE  OneBufferPerBlock' /\ NamedOK'
BY DEF OneBufferPerBlock, NamedOK

LEMMA FindInHashKeeps ==
    ASSUME IInv, NEW t \in Task, FindInHash(t)
    PROVE  IInv'
<1>1. PICK x \in Cached(local[t].block) :
        /\ buf' = [buf EXCEPT ![x].count = @ + 1]
        /\ local' = [local EXCEPT ![t].bh = x]
  BY DEF FindInHash
<1>2. /\ pc[t] = "getblk" /\ pc' = [pc EXCEPT ![t] = "hashwait"]
      /\ cpu' = t /\ asleep' = asleep /\ UNCHANGED <<request, data>>
  BY DEF FindInHash, Goto, At
<1>3. /\ TypeOK /\ TaskOK(t) /\ local[t] \in Locals /\ pc \in [Task -> Points]
      /\ local \in [Task -> Locals] /\ buf \in [Buf -> BufHead]
      /\ CountIsHolders /\ LockOK /\ OneBufferPerBlock /\ NamedOK /\ VersionOK
  BY DEF IInv, TypeOK
<1>4. x \in Buf /\ buf[x].blocknr = local[t].block
  BY DEF Cached
<1> DEFINE r == [local[t] EXCEPT !.bh = x]
           h == [buf[x] EXCEPT !.count = @ + 1]
<1>5. local' = [local EXCEPT ![t] = r] /\ buf' = [buf EXCEPT ![x] = h]
  BY <1>1
<1>6. /\ r \in Locals /\ r.bh = x /\ r.op = local[t].op
      /\ r.block = local[t].block
      /\ r.first = local[t].first /\ r.next = local[t].next
  BY <1>3, <1>4 DEF Locals
<1>7. buf[x] \in BufHead /\ buf[x].count \in Nat
  BY <1>3, <1>4 DEF BufHead
<1>8. /\ h \in BufHead /\ h.count = buf[x].count + 1
      /\ h.blocknr = buf[x].blocknr /\ h.dirt = buf[x].dirt
      /\ h.uptodate = buf[x].uptodate /\ h.lock = buf[x].lock
  BY <1>7 DEF BufHead
<1> HIDE DEF r, h
<1>9. /\ pc'[t] = "hashwait" /\ local'[t] = r /\ buf'[x] = h
      /\ \A u \in Task \ {t} : pc'[u] = pc[u] /\ local'[u] = local[u]
      /\ \A y \in Buf \ {x} : buf'[y] = buf[y]
  BY <1>2, <1>3, <1>4, <1>5
<1>10. TypeOK'
  <2>1. buf' \in [Buf -> BufHead] /\ local' \in [Task -> Locals]
    BY <1>3, <1>5, <1>6, <1>8
  <2>2. pc' \in [Task -> Points]
    BY <1>2, <1>3 DEF Points, WaitPoints
  <2> QED BY <1>2, <1>3, <2>1, <2>2 DEF TypeOK, data
<1>11. OneBufferPerBlock' /\ NamedOK'
  <2>1. \A y \in Buf : /\ buf'[y].blocknr = buf[y].blocknr /\ buf'[y].lock = buf[y].lock
                       /\ buf'[y].uptodate = buf[y].uptodate
                       /\ buf'[y].dirt = buf[y].dirt
    BY <1>8, <1>9
  <2> QED BY <1>3, <2>1, HeadsStay
<1>12. TaskOK(t)'
  <2>1. Holding(t)' = {x}
    BY <1>6, <1>9 DEF Holding, bh
  <2>2. \A y \in Buf : buf'[y].blocknr = buf[y].blocknr
    BY <1>8, <1>9
  <2>3. local[t].first # NULL => local[t].first.bh \in Buf
    BY <1>3, HoldsBuffers
  <2> QED
    BY <1>2, <1>3, <1>4, <1>6, <1>9, <2>1, <2>2, <2>3
       DEF TaskOK, Scanning, op, bh, GetPoints
<1>13. VersionOK'
  <2>1. t \in Writing' => t \in Writing
    BY <1>2, <1>6, <1>9 DEF Writing, op
  <2> QED BY <1>2, <1>3, <1>9, <2>1, NoNewWriter DEF data
<1>14. LockOK'
  BY <1>2, <1>3, <1>8, <1>9, LocksStay
<1>15. \A y \in Buf : /\ buf'[y].count + Refs(t, y) = buf[y].count + Refs(t, y)'
                      /\ buf'[y].blocknr = buf[y].blocknr
  <2>1. /\ Holding(t) = {} /\ Holding(t)' = {x}
        /\ \A y \in Buf : FirstIs(t, y)' <=> FirstIs(t, y)
    BY <1>2, <1>6, <1>9 DEF Holding, FirstIs, bh
  <2> SUFFICES ASSUME NEW y \in Buf
               PROVE  /\ buf'[y].count + Refs(t, y) = buf[y].count + Refs(t, y)'
                      /\ buf'[y].blocknr = buf[y].blocknr
    OBVIOUS
  <2>2. buf[y].count \in Nat
    BY <1>3 DEF BufHead
  <2> QED BY <1>7, <1>8, <1>9, <2>1, <2>2 DEF Refs, One
<1> QED BY <1>9, <1>10, <1>11, <1>12, <1>13, <1>14, <1>15, TaskMoves

LEMMA TakeVictimKeeps ==
    ASSUME IInv, NEW t \in Task, TakeVictim(t)
    PROVE  IInv'
<1> DEFINE x == bh(t)
           b == local[t].block
           h == [buf[x] EXCEPT !.count = 1, !.uptodate = FALSE, !.blocknr = b]
<1>1. /\ pc[t] = "victim" /\ pc' = [pc EXCEPT ![t] = "have"]
      /\ cpu' = t /\ asleep' = asleep /\ UNCHANGED <<request, data, local>>
      /\ ~buf[x].lock /\ buf[x].count = 0 /\ ~buf[x].dirt /\ Cached(b) = {}
  BY DEF TakeVictim, Goto, Unlocked, At, Awaited
<1>2. /\ TypeOK /\ TaskOK(t) /\ local[t] \in Locals /\ pc \in [Task -> Points]
      /\ local \in [Task -> Locals] /\ buf \in [Buf -> BufHead]
      /\ CountIsHolders /\ LockOK /\ OneBufferPerBlock /\ NamedOK /\ VersionOK
  BY DEF IInv, TypeOK
<1>3. x \in Buf /\ b \in Block /\ b # NULL /\ op(t) # "sync" /\ local[t].next = 0
  BY <1>1, <1>2, NullAssumption DEF TaskOK, Scanning
<1> HIDE DEF x, b
<1>4. buf[x] \in BufHead
  BY <1>2, <1>3
<1>5. buf' = [buf EXCEPT ![x] = h]
  <2>1. buf' = [[buf EXCEPT ![x].count = 1, ![x].uptodate = FALSE] EXCEPT ![x].blocknr = b]
    BY DEF TakeVictim, Requeued, x, b
  <2> QED BY <1>2, <1>3, <2>1
<1>6. /\ h \in BufHead /\ h.count = 1 /\ h.blocknr = b /\ ~h.uptodate
      /\ h.dirt = buf[x].dirt /\ h.lock = buf[x].lock
  BY <1>3, <1>4 DEF BufHead
<1> HIDE DEF h
<1>7. /\ pc'[t] = "have" /\ local'[t] = local[t] /\ buf'[x] = h
      /\ \A u \in Task \ {t} : pc'[u] = pc[u] /\ local'[u] = local[u]
      /\ \A y \in Buf \ {x} : buf'[y] = buf[y]
  BY <1>1, <1>2, <1>3, <1>5
<1>8. TypeOK'
  <2>1. buf' \in [Buf -> BufHead]
    BY <1>2, <1>5, <1>6
  <2>2. pc' \in [Task -> Points]
    BY <1>1, <1>2 DEF Points
  <2> QED BY <1>1, <1>2, <2>1, <2>2 DEF TypeOK, data
<1>9. OneBufferPerBlock'
  <2>1. \A y \in Buf : buf[y].blocknr # b
    BY <1>1 DEF Cached
  <2> QED BY <1>2, <1>3, <1>6, <1>7, <2>1 DEF OneBufferPerBlock
<1>10. NamedOK'
  BY <1>1, <1>2, <1>3, <1>6, <1>7 DEF NamedOK
<1>11. \A y \in Buf : local[t].first # NULL => local[t].first.bh # x
  BY <1>1, <1>2, <1>3, UnusedIsFree DEF FirstIs
<1>12. TaskOK(t)'
  <2>1. Holding(t)' = {x}
    BY <1>7 DEF Holding, bh, x
  <2>2. local[t].first # NULL =>
          buf'[local[t].first.bh].blocknr = buf[local[t].first.bh].blocknr
    BY <1>2, <1>7, <1>11, HoldsBuffers
  <2>3. \A y \in Holding(t)' : buf'[y].blocknr = b
    BY <1>6, <1>7, <2>1
  <2> QED BY <1>1, <1>2, <1>7, <2>2, <2>3 DEF TaskOK, Scanning, op, bh,
          GetPoints, b
<1>13. VersionOK'
  <2>1. t \in Writing' => t \in Writing
    BY <1>1, <1>7 DEF Writing, op
  <2> QED BY <1>1, <1>2, <1>7, <2>1, NoNewWriter DEF data
<1>14. LockOK'
  BY <1>1, <1>2, <1>6, <1>7, LocksStay
<1>15. \A y \in Buf : /\ buf'[y].count + Refs(t, y) = buf[y].count + Refs(t, y)'
                      /\ buf'[y].blocknr = buf[y].blocknr \/ buf[y].count = 0
  <2>1. /\ Holding(t) = {} /\ Holding(t)' = {x}
        /\ \A y \in Buf : FirstIs(t, y)' <=> FirstIs(t, y)
    BY <1>1, <1>7 DEF Holding, FirstIs, bh, x
  <2> SUFFICES ASSUME NEW y \in Buf
               PROVE  /\ buf'[y].count + Refs(t, y) = buf[y].count + Refs(t, y)'
                      /\ buf'[y].blocknr = buf[y].blocknr \/ buf[y].count = 0
    OBVIOUS
  <2>2. buf[y].count \in Nat
    BY <1>2 DEF BufHead
  <2> QED BY <1>1, <1>6, <1>7, <2>1, <2>2 DEF Refs, One
<1> QED BY <1>7, <1>8, <1>9, <1>10, <1>12, <1>13, <1>14, <1>15, TaskMoves

LEMMA StartCopyKeeps ==
    ASSUME IInv, NEW t \in Task, StartCopy(t)
    PROVE  IInv'
<1> DEFINE x == bh(t)
           d == buf[x].dirt \/ DirtyFirst(op(t))
           h == [buf[x] EXCEPT !.dirt = d]
<1>1. /\ pc[t] = "use" /\ pc' = [pc EXCEPT ![t] = "copy"] /\ op(t) \in WriteOps
      /\ cpu' = t /\ asleep' = asleep /\ UNCHANGED <<request, data, local>>
      /\ buf' = [buf EXCEPT ![x] = h]
  BY DEF StartCopy, Goto, At
<1>2. /\ TypeOK /\ TaskOK(t) /\ local[t] \in Locals /\ pc \in [Task -> Points]
      /\ local \in [Task -> Locals] /\ buf \in [Buf -> BufHead]
      /\ CountIsHolders /\ LockOK /\ OneBufferPerBlock /\ NamedOK /\ VersionOK
  BY DEF IInv, TypeOK
<1>3. /\ x \in Buf /\ local[t].block \in Block /\ op(t) # "sync"
      /\ buf[x].blocknr = local[t].block /\ buf[x].blocknr # NULL
  BY <1>1, <1>2, NullAssumption DEF TaskOK, Scanning, Holding
<1>4. buf[x] \in BufHead /\ d \in BOOLEAN
  BY <1>2, <1>3 DEF BufHead, DirtyFirst
<1> HIDE DEF x, d
<1>5. /\ h \in BufHead /\ h.count = buf[x].count /\ h.blocknr = buf[x].blocknr
      /\ h.dirt = d /\ h.lock = buf[x].lock /\ h.uptodate = buf[x].uptodate
  BY <1>4 DEF BufHead
<1> HIDE DEF h
<1>6. /\ pc'[t] = "copy" /\ local'[t] = local[t] /\ buf'[x] = h
      /\ \A u \in Task \ {t} : pc'[u] = pc[u] /\ local'[u] = local[u]
      /\ \A y \in Buf \ {x} : buf'[y] = buf[y]
  BY <1>1, <1>2, <1>3
<1>7. TypeOK'
  <2>1. buf' \in [Buf -> BufHead]
    BY <1>1, <1>2, <1>5
  <2>2. pc' \in [Task -> Points]
    BY <1>1, <1>2 DEF Points
  <2> QED BY <1>1, <1>2, <2>1, <2>2 DEF TypeOK, data
<1>8. OneBufferPerBlock' /\ NamedOK'
  <2>1. \A y \in Buf : /\ buf'[y].blocknr = buf[y].blocknr /\ buf'[y].lock = buf[y].lock
                       /\ buf'[y].uptodate = buf[y].uptodate
                       /\ buf'[y].dirt => buf[y].dirt \/ buf[y].blocknr # NULL
    BY <1>3, <1>5, <1>6
  <2> QED BY <1>2, <2>1, HeadsStay
<1>9. Holding(t) = {x} /\ Holding(t)' = {x}
  BY <1>1, <1>6 DEF Holding, bh, x
<1>10. TaskOK(t)'
  BY <1>1, <1>2, <1>3, <1>5, <1>6, <1>9 DEF TaskOK, Scanning, op, bh, GetPoints
<1>11. VersionOK'
  <2>1. t \in Writing' => t \in Writing
    BY <1>1, <1>6 DEF Writing, op
  <2> QED BY <1>1, <1>2, <1>6, <2>1, NoNewWriter DEF data
<1>12. LockOK'
  BY <1>1, <1>2, <1>5, <1>6, LocksStay
<1>13. \A y \in Buf : /\ buf'[y].count + Refs(t, y) = buf[y].count + Refs(t, y)'
                      /\ buf'[y].blocknr = buf[y].blocknr
  BY <1>5, <1>6, <1>9 DEF Refs, FirstIs
<1> QED BY <1>6, <1>7, <1>8, <1>10, <1>11, <1>12, <1>13, TaskMoves

LEMMA CopyKeeps ==
    ASSUME IInv, NEW t \in Task, Copy(t)
    PROVE  IInv'
<1> DEFINE x == bh(t)
           b == local[t].block
           v == nversion + 1
           d == buf[x].dirt \/ ~DirtyFirst(op(t))
           h == [buf[x] EXCEPT !.data = v, !.dirt = d]
<1>1. /\ pc[t] = "copy" /\ pc' = [pc EXCEPT ![t] = "brelse"]
      /\ cpu' = t /\ asleep' = asleep /\ UNCHANGED <<request, disk, local>>
      /\ nversion' = v /\ latest' = [latest EXCEPT ![b] = v]
  BY DEF Copy, Goto, At
<1>2. /\ TypeOK /\ TaskOK(t) /\ local[t] \in Locals /\ pc \in [Task -> Points]
      /\ local \in [Task -> Locals] /\ buf \in [Buf -> BufHead]
      /\ CountIsHolders /\ LockOK /\ OneBufferPerBlock /\ NamedOK /\ VersionOK
      /\ nversion \in Nat /\ latest \in [Block -> Version]
  BY DEF IInv, TypeOK, Version
<1>3. /\ x \in Buf /\ b \in Block /\ op(t) # "sync"
      /\ buf[x].blocknr = b /\ buf[x].blocknr # NULL
  BY <1>1, <1>2, NullAssumption DEF TaskOK, Scanning, Holding
<1>4. buf[x] \in BufHead /\ d \in BOOLEAN
  BY <1>2, <1>3 DEF BufHead, DirtyFirst
<1>5. buf' = [buf EXCEPT ![x] = h]
  BY DEF Copy, Copied
<1>6. \A u \in Task \ {t} : pc'[u] = pc[u] /\ local'[u] = local[u]
  BY <1>1, <1>2
<1>7. pc'[t] = "brelse" /\ local'[t] = local[t]
  BY <1>1, <1>2
<1>8. VersionOK' /\ v \in Version
  <2>1. t \in Writing /\ t \notin Writing'
    BY <1>1, <1>2, <1>7 DEF Writing, TaskOK, op
  <2>2. Writing' \subseteq Writing \ {t} /\ Writing \subseteq Task
    BY <1>6, <2>1 DEF Writing, op
  <2>3. IsFiniteSet(Writing)
    BY <2>2, FS_Subset, CacheAssumption
  <2>4. /\ Cardinality(Writing) \in Nat /\ IsFiniteSet(Writing \ {t})
        /\ Cardinality(Writing \ {t}) = Cardinality(Writing) - 1
    BY <2>1, <2>3, FS_RemoveElement, FS_CardinalityType
  <2>5. /\ Cardinality(Writing') \in Nat /\ Cardinality(Writing \ {t}) \in Nat
        /\ Cardinality(Writing') <= Cardinality(Writing \ {t})
    BY <2>2, <2>4, FS_Subset, FS_CardinalityType
  <2>6. nversion + Cardinality(Writing) <= MaxVersion
    BY <1>2 DEF VersionOK
  <2> QED BY <1>1, <1>2, <2>4, <2>5, <2>6, CacheAssumption DEF VersionOK,
          Version
<1> HIDE DEF x, d, b, v
<1>9. /\ h \in BufHead /\ h.count = buf[x].count /\ h.blocknr = buf[x].blocknr
      /\ h.dirt = d /\ h.lock = buf[x].lock /\ h.uptodate = buf[x].uptodate
  BY <1>4, <1>8 DEF BufHead
<1> HIDE DEF h
<1>10. buf'[x] = h /\ \A y \in Buf \ {x} : buf'[y] = buf[y]
  BY <1>2, <1>3, <1>5
<1>11. TypeOK'
  <2>1. buf' \in [Buf -> BufHead]
    BY <1>2, <1>5, <1>9
  <2>2. pc' \in [Task -> Points]
    BY <1>1, <1>2 DEF Points, WaitPoints
  <2>3. latest' \in [Block -> Version]
    BY <1>1, <1>2, <1>8
  <2> QED BY <1>1, <1>2, <1>8, <2>1, <2>2, <2>3 DEF TypeOK
<1>12. OneBufferPerBlock' /\ NamedOK'
  <2>1. \A y \in Buf : /\ buf'[y].blocknr = buf[y].blocknr /\ buf'[y].lock = buf[y].lock
                       /\ buf'[y].uptodate = buf[y].uptodate
                       /\ buf'[y].dirt => buf[y].dirt \/ buf[y].blocknr # NULL
    BY <1>3, <1>9, <1>10
  <2> QED BY <1>2, <2>1, HeadsStay
<1>13. Holding(t) = {x} /\ Holding(t)' = {x}
  BY <1>1, <1>7 DEF Holding, bh, x
<1>14. TaskOK(t)'
  BY <1>1, <1>2, <1>3, <1>7, <1>9, <1>10, <1>13
     DEF TaskOK, Scanning, op, bh, GetPoints, b
<1>15. LockOK'
  BY <1>1, <1>2, <1>6, <1>7, <1>9, <1>10, LocksStay
<1>16. \A y \in Buf : /\ buf'[y].count + Refs(t, y) = buf[y].count + Refs(t, y)'
                      /\ buf'[y].blocknr = buf[y].blocknr
  BY <1>7, <1>9, <1>10, <1>13 DEF Refs, FirstIs
<1> QED BY <1>6, <1>8, <1>11, <1>12, <1>14, <1>15, <1>16, TaskMoves

LEMMA BrelseKeeps ==
    ASSUME IInv, NEW t \in Task, Brelse(t)
    PROVE  IInv'
<1> DEFINE x == bh(t)
           n == buf[x].count - 1
           h == [buf[x] EXCEPT !.count = n]
<1>1. /\ pc[t] = "brelse" /\ pc' = [pc EXCEPT ![t] = "user"]
      /\ cpu' = NULL /\ asleep' = {u \in asleep : pc[u] # "getblk"}
      /\ local' = [local EXCEPT ![t] = NoLocals] /\ UNCHANGED <<request, data>>
      /\ buf' = [buf EXCEPT ![x] = h]
  BY DEF Brelse, Unlocked, Leave, At
<1>2. /\ TypeOK /\ TaskOK(t) /\ local[t] \in Locals /\ pc \in [Task -> Points]
      /\ local \in [Task -> Locals] /\ buf \in [Buf -> BufHead]
      /\ CountIsHolders /\ LockOK /\ OneBufferPerBlock /\ NamedOK /\ VersionOK
  BY DEF IInv, TypeOK
<1>3. x \in Buf /\ op(t) # "sync" /\ local[t].first = NULL
  BY <1>1, <1>2 DEF TaskOK, Scanning, GetPoints
<1>4. x \in Holding(t)
  BY <1>1 DEF Holding
<1> HIDE DEF x
<1>5. buf[x] \in BufHead /\ buf[x].count \in Nat /\ n \in Nat
  <2>1. buf[x] \in BufHead /\ buf[x].count \in Nat
    BY <1>2, <1>3 DEF BufHead
  <2>2. buf[x].count >= 1
    BY <1>2, <1>3, <1>4, UnusedIsFree
  <2> QED BY <2>1, <2>2
<1> HIDE DEF n
<1>6. /\ h \in BufHead /\ h.count = n /\ h.blocknr = buf[x].blocknr
      /\ h.dirt = buf[x].dirt /\ h.lock = buf[x].lock
      /\ h.uptodate = buf[x].uptodate
  BY <1>5 DEF BufHead
<1> HIDE DEF h
<1>7. /\ pc'[t] = "user" /\ local'[t] = NoLocals /\ buf'[x] = h
      /\ \A u \in Task \ {t} : pc'[u] = pc[u] /\ local'[u] = local[u]
      /\ \A y \in Buf \ {x} : buf'[y] = buf[y]
  BY <1>1, <1>2, <1>3
<1>8. TypeOK'
  <2>1. buf' \in [Buf -> BufHead]
    BY <1>1, <1>2, <1>6
  <2>2. NoLocals \in Locals
    BY CacheAssumption DEF NoLocals, Locals, Version
  <2>3. pc' \in [Task -> Points] /\ local' \in [Task -> Locals]
    BY <1>1, <1>2, <2>2 DEF Points
  <2> QED BY <1>1, <1>2, <2>1, <2>3 DEF TypeOK, data
<1>9. OneBufferPerBlock' /\ NamedOK'
  <2>1. \A y \in Buf : /\ buf'[y].blocknr = buf[y].blocknr /\ buf'[y].lock = buf[y].lock
                       /\ buf'[y].uptodate = buf[y].uptodate
                       /\ buf'[y].dirt = buf[y].dirt
    BY <1>6, <1>7
  <2> QED BY <1>2, <2>1, HeadsStay
<1>10. Holding(t) = {x} /\ Holding(t)' = {}
  BY <1>1, <1>7 DEF Holding, x
<1>11. TaskOK(t)'
  BY <1>7, <1>10, NullAssumption DEF TaskOK, Scanning, op, NoLocals
<1>12. VersionOK'
  <2>1. t \notin Writing'
    BY <1>7, NullAssumption DEF Writing, op, NoLocals
  <2> QED BY <1>1, <1>2, <1>7, <2>1, NoNewWriter DEF data
<1>13. LockOK'
  BY <1>1, <1>2, <1>6, <1>7, LocksStay
<1>14. \A y \in Buf : /\ buf'[y].count + Refs(t, y) = buf[y].count + Refs(t, y)'
                      /\ buf'[y].blocknr = buf[y].blocknr
  <2>1. \A y \in Buf : ~FirstIs(t, y) /\ ~FirstIs(t, y)'
    BY <1>3, <1>7 DEF FirstIs, NoLocals
  <2> SUFFICES ASSUME NEW y \in Buf
               PROVE  /\ buf'[y].count + Refs(t, y) = buf[y].count + Refs(t, y)'
                      /\ buf'[y].blocknr = buf[y].blocknr
    OBVIOUS
  <2>2. buf[y].count \in Nat
    BY <1>2 DEF BufHead
  <2> QED BY <1>5, <1>6, <1>7, <1>10, <2>1, <2>2 DEF Refs, One, n
<1> QED BY <1>7, <1>8, <1>9, <1>11, <1>12, <1>13, <1>14, TaskMoves

-----------------------------------------------------------------------------
(* make_request. *)

(* A task that can lock x, or has locked it, is alone with it.             *)
LEMMA AloneWith ==
    ASSUME LockOK, NEW t \in Task, NEW x \in Buf, ~buf[x].lock \/ Waits(t, x)
    PROVE  Pending(x) = {} /\ \A u \in Task \ {t} : ~Waits(u, x)
<1>1. CASE ~buf[x].lock
  BY <1>1 DEF LockOK
<1>2. CASE Waits(t, x)
  <2>1. Pending(x) = {}
    BY <1>2 DEF LockOK
  <2>2. ASSUME NEW u \in Task \ {t}, Waits(u, x) PROVE FALSE
    BY <1>2, <2>2 DEF LockOK
  <2> QED BY <2>1, <2>2
<1> QED BY <1>1, <1>2

(* The task t goes to sleep on wait_for_request with x locked.             *)
LEMMA LocksWait ==
    ASSUME LockOK, NEW t \in Task, NEW x \in Buf, request' = request,
           \A y \in Buf : buf'[y].lock <=> y = x \/ buf[y].lock,
           \A u \in Task \ {t} : pc'[u] = pc[u] /\ local'[u] = local[u],
           ~buf[x].lock \/ Waits(t, x),
           \A y \in Buf : Waits(t, y) => y = x,
           \A y \in Buf : Waits(t, y)' <=> y = x
    PROVE  LockOK'
<1>1. \A y \in Buf : Pending(y)' = Pending(y)
  BY DEF Pending
<1>2. \A y \in Buf, u \in Task \ {t} : Waits(u, y)' <=> Waits(u, y)
  BY DEF Waits, bh
<1>3. Pending(x) = {} /\ \A u \in Task \ {t} : ~Waits(u, x)
  BY AloneWith
<1>4. ASSUME NEW y \in Buf, y # x
      PROVE  \A u \in Task : Waits(u, y)' <=> Waits(u, y)
  BY <1>2, <1>4
<1> SUFFICES ASSUME NEW y \in Buf
             PROVE  /\ ~buf'[y].lock =>
                          Pending(y)' = {} /\ \A u \in Task : ~Waits(u, y)'
                    /\ \A s, r \in Pending(y)' : s = r
                    /\ \A u, w \in Task : Waits(u, y)' /\ Waits(w, y)' => u = w
                    /\ \A u \in Task : Waits(u, y)' => Pending(y)' = {}
                    /\ buf'[y].lock =>
                          Pending(y)' # {} \/ \E u \in Task : Waits(u, y)'
  BY DEF LockOK
<1>5. CASE y = x
  BY <1>1, <1>2, <1>3, <1>5
<1>6. CASE y # x
  BY <1>1, <1>4, <1>6 DEF LockOK
<1> QED BY <1>5, <1>6

(* The request of the task t for x enters the table. *)
LEMMA LocksSubmit ==
    ASSUME TypeOK, LockOK, NEW t \in Task, NEW x \in Buf, NEW s \in Slot,
           NEW rec \in Request, rec.buf = x, request[s] = NULL,
           request' = [request EXCEPT ![s] = rec],
           \A y \in Buf : buf'[y].lock <=> y = x \/ buf[y].lock,
           \A u \in Task \ {t} : pc'[u] = pc[u] /\ local'[u] = local[u],
           ~buf[x].lock \/ Waits(t, x),
           \A y \in Buf : Waits(t, y) => y = x,
           pc'[t] # "reqwait"
    PROVE  LockOK'
<1>1. rec # NULL
  BY NullAssumption
<1>2. request'[s] = rec /\ \A r \in Slot \ {s} : request'[r] = request[r]
  BY DEF TypeOK
<1>3. Pending(x) = {} /\ \A u \in Task \ {t} : ~Waits(u, x)
  BY AloneWith
<1>4. Pending(x)' = {s}
  BY <1>1, <1>2, <1>3 DEF Pending
<1>5. \A y \in Buf \ {x} : Pending(y)' = Pending(y)
  BY <1>1, <1>2 DEF Pending
<1>6. \A y \in Buf, u \in Task \ {t} : Waits(u, y)' <=> Waits(u, y)
  BY DEF Waits, bh
<1>7. \A y \in Buf : ~Waits(t, y)'
  BY DEF Waits
<1> SUFFICES ASSUME NEW y \in Buf
             PROVE  /\ ~buf'[y].lock =>
                          Pending(y)' = {} /\ \A u \in Task : ~Waits(u, y)'
                    /\ \A q, r \in Pending(y)' : q = r
                    /\ \A u, w \in Task : Waits(u, y)' /\ Waits(w, y)' => u = w
                    /\ \A u \in Task : Waits(u, y)' => Pending(y)' = {}
                    /\ buf'[y].lock =>
                          Pending(y)' # {} \/ \E u \in Task : Waits(u, y)'
  BY DEF LockOK
<1>8. CASE y = x
  BY <1>3, <1>4, <1>6, <1>7, <1>8
<1>9. CASE y # x
  <2>1. \A u \in Task : Waits(u, y)' <=> Waits(u, y)
    BY <1>6, <1>7, <1>9
  <2> QED BY <1>5, <1>9, <2>1 DEF LockOK
<1> QED BY <1>8, <1>9

(* make_request for the buffer a task holds, or that sync has come to.     *)
LEMMA SubmitKeeps ==
    ASSUME IInv, NEW t \in Task, NEW x \in Buf, NEW rw \in {"READ", "WRITE"},
           NEW after \in {"ahead", "readwait", "syncnext"}, Submit(t, x, rw, after),
           pc[t] \in {"have", "sync", "reqwait"},
           x = (IF local[t].next = 0 THEN bh(t) ELSE local[t].next),
           buf[x].blocknr # NULL, local[t].next = 0 => local[t].first = NULL,
           after = "syncnext" <=> local[t].next # 0
    PROVE  IInv'
<1>1. /\ TypeOK /\ TaskOK(t) /\ local[t] \in Locals /\ pc \in [Task -> Points]
      /\ local \in [Task -> Locals] /\ buf \in [Buf -> BufHead]
      /\ CountIsHolders /\ LockOK /\ OneBufferPerBlock /\ NamedOK /\ VersionOK
      /\ buf[x] \in BufHead
  BY DEF IInv, TypeOK
<1>2. /\ UNCHANGED <<data, local>>
      /\ ~buf[x].lock \/ pc[t] = "reqwait"
  BY DEF Submit
<1>3. ~buf[x].lock \/ Waits(t, x)
  BY <1>2 DEF Waits
<1>4. \A y \in Buf : Waits(t, y) => y = x
  BY DEF Waits
<1>5. PICK l \in {"reqwait", after}, d \in BOOLEAN :
        /\ pc' = [pc EXCEPT ![t] = l] /\ cpu' \in Task \cup {NULL}
        /\ asleep' \subseteq Task
        /\ buf' = [buf EXCEPT ![x] = [@ EXCEPT !.lock = TRUE, !.dirt = d]]
        /\ d => buf[x].dirt
        /\ \/ l = "reqwait" /\ request' = request
           \/ /\ l = after
              /\ \E s \in Slot, rec \in Request :
                    /\ request[s] = NULL /\ rec.buf = x
                    /\ request' = [request EXCEPT ![s] = rec]
  <2>1. CASE FreeSlots(rw) = {}
    <3>1. /\ buf' = [buf EXCEPT ![x].lock = TRUE] /\ UNCHANGED request
          /\ pc' = [pc EXCEPT ![t] = "reqwait"] /\ cpu' = NULL
          /\ asleep' = asleep \cup {t}
      BY <2>1 DEF Submit, Sleep
    <3>2. buf[x].dirt \in BOOLEAN
      BY <1>1 DEF BufHead
    <3>3. [buf[x] EXCEPT !.lock = TRUE, !.dirt = buf[x].dirt]
            = [buf[x] EXCEPT !.lock = TRUE]
      BY <1>1 DEF BufHead
    <3>4. buf' = [buf EXCEPT ![x] = [@ EXCEPT !.lock = TRUE, !.dirt = buf[x].dirt]]
      BY <3>1, <3>3
    <3> QED BY <1>1, <3>1, <3>2, <3>4 DEF TypeOK
  <2>2. CASE FreeSlots(rw) # {}
    <3> DEFINE s == Max(FreeSlots(rw))
               rec == [buf |-> x, cmd |-> rw, moved |-> FALSE]
    <3>1. s \in FreeSlots(rw) /\ FreeSlots(rw) \subseteq Slot
      BY <2>2, MaxIsFree DEF FreeSlots
    <3>2. s \in Slot /\ request[s] = NULL
      BY <3>1 DEF FreeSlots
    <3>3. rec \in Request /\ rec.buf = x
      BY DEF Request
    <3>4. /\ buf' = [buf EXCEPT ![x] = [@ EXCEPT !.lock = TRUE, !.dirt = FALSE]]
          /\ request' = [request EXCEPT ![s] = rec]
          /\ pc' = [pc EXCEPT ![t] = after] /\ cpu' = t
          /\ asleep' = asleep
      BY <2>2 DEF Submit, Goto
    <3> HIDE DEF s, rec
    <3> QED BY <1>1, <3>2, <3>3, <3>4 DEF TypeOK
  <2> QED BY <2>1, <2>2
<1> DEFINE h == [buf[x] EXCEPT !.lock = TRUE, !.dirt = d]
<1>6. /\ h \in BufHead /\ h.lock = TRUE /\ h.dirt = d /\ h.count = buf[x].count
      /\ h.blocknr = buf[x].blocknr /\ h.uptodate = buf[x].uptodate
  BY <1>1 DEF BufHead
<1>7. buf' = [buf EXCEPT ![x] = h]
  BY <1>5
<1> HIDE DEF h
<1>8. /\ pc'[t] = l /\ local'[t] = local[t] /\ buf'[x] = h
      /\ \A u \in Task \ {t} : pc'[u] = pc[u] /\ local'[u] = local[u]
      /\ \A y \in Buf \ {x} : buf'[y] = buf[y]
  BY <1>1, <1>2, <1>5, <1>7
<1>9. TypeOK'
  <2>1. buf' \in [Buf -> BufHead]
    BY <1>1, <1>6, <1>7
  <2>2. pc' \in [Task -> Points]
    BY <1>1, <1>5 DEF Points, WaitPoints
  <2>3. request' \in [Slot -> Request \cup {NULL}]
    BY <1>1, <1>5 DEF TypeOK
  <2> QED BY <1>1, <1>2, <1>5, <2>1, <2>2, <2>3 DEF TypeOK, data
<1>10. OneBufferPerBlock'
  BY <1>1, <1>6, <1>8 DEF OneBufferPerBlock
<1>11. NamedOK'
  BY <1>1, <1>6, <1>8 DEF NamedOK
<1>12. Holding(t)' = Holding(t)
  BY <1>1, <1>5, <1>8 DEF Holding, bh, TaskOK, Scanning
<1>13. \A y \in Buf : buf'[y].blocknr = buf[y].blocknr /\ buf'[y].count = buf[y].count
  BY <1>6, <1>8
<1>14. TaskOK(t)'
  <2>1. Holding(t) \subseteq Buf /\ (local[t].first # NULL => local[t].first.bh \in Buf)
    BY <1>1, HoldsBuffers
  <2> QED
    BY <1>1, <1>5, <1>8, <1>12, <1>13, <2>1 DEF TaskOK, Scanning, op, bh,
          GetPoints
<1>15. VersionOK'
  <2>1. t \in Writing' => t \in Writing
    BY <1>8 DEF Writing, op
  <2> QED BY <1>1, <1>2, <1>8, <2>1, NoNewWriter DEF data
<1>16. \A y \in Buf : buf'[y].lock <=> y = x \/ buf[y].lock
  BY <1>6, <1>8
<1>17. LockOK'
  <2>1. CASE l = "reqwait" /\ request' = request
    <3>1. \A y \in Buf : Waits(t, y)' <=> y = x
      BY <1>8, <2>1 DEF Waits, bh
    <3> QED BY <1>1, <1>3, <1>4, <1>8, <1>16, <2>1, <3>1, LocksWait
  <2>2. ASSUME l = after, NEW s \in Slot, NEW rec \in Request, request[s] = NULL,
               rec.buf = x, request' = [request EXCEPT ![s] = rec]
        PROVE  LockOK'
    <3>1. pc'[t] # "reqwait"
      BY <1>8, <2>2
    <3> QED BY <1>1, <1>3, <1>4, <1>8, <1>16, <2>2, <3>1, LocksSubmit
  <2> QED BY <1>5, <2>1, <2>2
<1>18. \A y \in Buf : Refs(t, y)' = Refs(t, y)
  BY <1>8, <1>12 DEF Refs, FirstIs
<1> QED
  BY <1>8, <1>9, <1>10, <1>11, <1>13, <1>14, <1>15, <1>17, <1>18, TaskMoves

LEMMA ReadBlockKeeps ==
    ASSUME IInv, NEW t \in Task, ReadBlock(t)
    PROVE  IInv'
<1>1. /\ pc[t] = "have" /\ local[t].first = NULL
      /\ Submit(t, bh(t), "READ", AfterRead(t))
  BY DEF ReadBlock, At
<1>2. TaskOK(t)
  BY DEF IInv
<1>3. /\ local[t].next = 0 /\ bh(t) \in Buf /\ buf[bh(t)].blocknr # NULL
  BY <1>1, <1>2, NullAssumption DEF TaskOK, Scanning, Holding
<1>4. AfterRead(t) \in {"ahead", "readwait", "syncnext"} /\ AfterRead(t) # "syncnext"
  BY DEF AfterRead
<1> QED BY <1>1, <1>3, <1>4, SubmitKeeps

LEMMA RetryRequestKeeps ==
    ASSUME IInv, NEW t \in Task, RetryRequest(t)
    PROVE  IInv'
<1>1. pc[t] = "reqwait" /\ TaskOK(t) /\ TypeOK
  BY DEF RetryRequest, At, IInv
<1>2. CASE local[t].next = 0
  <2>1. Submit(t, bh(t), "READ", AfterRead(t))
    BY <1>2 DEF RetryRequest
  <2>2. /\ bh(t) \in Buf /\ buf[bh(t)].blocknr # NULL /\ local[t].first = NULL
    BY <1>1, <1>2, NullAssumption DEF TaskOK, Scanning, Holding
  <2>3. AfterRead(t) \in {"ahead", "readwait", "syncnext"} /\ AfterRead(t) # "syncnext"
    BY DEF AfterRead
  <2> QED BY <1>1, <1>2, <2>1, <2>2, <2>3, SubmitKeeps
<1>3. CASE local[t].next # 0
  <2> DEFINE x == local[t].next
  <2>1. Submit(t, x, "WRITE", "syncnext")
    BY <1>3 DEF RetryRequest
  <2>2. x \in Buf
    <3>1. local[t] \in Locals
      BY <1>1 DEF TypeOK
    <3> QED BY <1>3, <3>1 DEF Locals, Buf
  <2>3. Waits(t, x)
    BY <1>1, <1>3 DEF Waits
  <2>4. buf[x].blocknr # NULL
    BY <2>2, <2>3 DEF IInv, LockOK, NamedOK
  <2> QED BY <1>1, <1>3, <2>1, <2>2, <2>4, SubmitKeeps
<1> QED BY <1>2, <1>3

LEMMA SyncBufferKeeps ==
    ASSUME IInv, NEW t \in Task, SyncBuffer(t)
    PROVE  IInv'
<1> DEFINE x == local[t].next
<1>1. /\ pc[t] = "sync" /\ At(t, "sync") /\ TaskOK(t) /\ TypeOK /\ NamedOK
  BY DEF SyncBuffer, Unlocked, At, IInv
<1>2. CASE buf[x].dirt
  <2>1. Submit(t, x, "WRITE", "syncnext")
    BY <1>2 DEF SyncBuffer
  <2>2. x \in Buf /\ x # 0
    <3>1. local[t] \in Locals
      BY <1>1 DEF TypeOK
    <3>2. x # 0
      BY <1>1 DEF TaskOK, Scanning
    <3> QED BY <3>1, <3>2 DEF Locals, Buf
  <2>3. buf[x].blocknr # NULL
    BY <1>1, <1>2, <2>2 DEF NamedOK
  <2> QED BY <1>1, <2>1, <2>2, <2>3, SubmitKeeps
<1>3. CASE ~buf[x].dirt
  BY <1>1, <1>3, SkipCleanKeeps DEF SyncBuffer
<1> QED BY <1>2, <1>3

(* breada gives back the buffer it read ahead, and may ask for the first   *)
(* one again.                                                              *)
LEMMA ReadAheadKeeps ==
    ASSUME IInv, NEW t \in Task, ReadAhead(t)
    PROVE  IInv'
<1> DEFINE tmp == bh(t)
           f == local[t].first
           x == f.bh
           n == buf[tmp].count - 1
           g == [buf[tmp] EXCEPT !.count = n]
           less == [buf EXCEPT ![tmp] = g]
           r == [local[t] EXCEPT !.bh = x, !.block = f.block, !.first = NULL]
           h == [less[x] EXCEPT !.lock = TRUE, !.dirt = FALSE]
           free == FreeSlots("READ")
           rec == [buf |-> x, cmd |-> "READ", moved |-> FALSE]
           s == Max(free)
<1>1. /\ pc[t] = "have" /\ pc' = [pc EXCEPT ![t] = "readwait"] /\ f # NULL
      /\ cpu' = t /\ asleep' = asleep /\ UNCHANGED data
      /\ local' = [local EXCEPT ![t] = r]
  BY DEF ReadAhead, Goto, At
<1>2. /\ TypeOK /\ TaskOK(t) /\ local[t] \in Locals /\ pc \in [Task -> Points]
      /\ local \in [Task -> Locals] /\ buf \in [Buf -> BufHead]
      /\ CountIsHolders /\ LockOK /\ OneBufferPerBlock /\ NamedOK /\ VersionOK
  BY DEF IInv, TypeOK
<1>3. /\ f \in First /\ x \in Buf /\ f.block \in Block
      /\ buf[x].blocknr = f.block /\ f.block # NULL
  BY <1>1, <1>2, HoldsBuffers, NullAssumption DEF TaskOK, First
<1>4. /\ tmp \in Buf /\ op(t) # "sync" /\ op(t) \in Ops \cup {"sync"}
      /\ local[t].next = 0 /\ Holding(t) = {tmp}
  BY <1>1, <1>2 DEF TaskOK, Scanning, Holding
<1>5. \/ buf' = less /\ UNCHANGED request
      \/ /\ buf' = [less EXCEPT ![x] = h] /\ ~buf[x].lock /\ free # {}
         /\ request' = [request EXCEPT ![s] = rec]
  BY <1>1 DEF ReadAhead
<1> HIDE DEF tmp, f, x
<1>6. /\ buf[tmp] \in BufHead /\ buf[tmp].count \in Nat /\ n \in Nat
  <2>1. buf[tmp] \in BufHead /\ buf[tmp].count \in Nat
    BY <1>2, <1>4 DEF BufHead
  <2>2. buf[tmp].count >= 1
    BY <1>2, <1>4, UnusedIsFree
  <2> QED BY <2>1, <2>2
<1> HIDE DEF n
<1>7. /\ g \in BufHead /\ g.count = n /\ g.blocknr = buf[tmp].blocknr
      /\ g.dirt = buf[tmp].dirt /\ g.lock = buf[tmp].lock
      /\ g.uptodate = buf[tmp].uptodate
  BY <1>6 DEF BufHead
<1> HIDE DEF g
<1>8. less \in [Buf -> BufHead] /\ less[x] \in BufHead
  BY <1>2, <1>3, <1>4, <1>7
<1>9. \A y \in Buf :
        /\ less[y].count = IF y = tmp THEN n ELSE buf[y].count
        /\ less[y].blocknr = buf[y].blocknr /\ less[y].lock = buf[y].lock
        /\ less[y].uptodate = buf[y].uptodate /\ less[y].dirt = buf[y].dirt
  BY <1>2, <1>4, <1>7
<1> HIDE DEF less
<1>10. /\ h \in BufHead /\ h.count = less[x].count
       /\ h.blocknr = less[x].blocknr
       /\ h.lock = TRUE /\ h.dirt = FALSE /\ h.uptodate = less[x].uptodate
  BY <1>8 DEF BufHead
<1> HIDE DEF h
<1>11. /\ buf' \in [Buf -> BufHead]
       /\ \A y \in Buf :
            /\ buf'[y].count = IF y = tmp THEN n ELSE buf[y].count
            /\ buf'[y].blocknr = buf[y].blocknr
            /\ buf'[y].uptodate = buf[y].uptodate
            /\ buf'[y].dirt => buf[y].dirt
            /\ buf'[y].lock => buf[y].lock \/ y = x
  <2>1. CASE buf' = less
    BY <1>8, <1>9, <2>1
  <2>2. CASE buf' = [less EXCEPT ![x] = h]
    <3>1. buf' \in [Buf -> BufHead] /\ buf'[x] = h /\ \A y \in Buf \ {x} : buf'[y] = less[y]
      BY <1>3, <1>8, <1>10, <2>2
    <3> QED BY <1>9, <1>10, <3>1
  <2> QED BY <1>5, <2>1, <2>2
<1>12. /\ r \in Locals /\ r.bh = x /\ r.op = local[t].op /\ r.block = f.block
       /\ r.first = NULL /\ r.next = local[t].next
  BY <1>2, <1>3 DEF Locals
<1> HIDE DEF r
<1>13. /\ pc'[t] = "readwait" /\ local'[t] = r
       /\ \A u \in Task \ {t} : pc'[u] = pc[u] /\ local'[u] = local[u]
  BY <1>1, <1>2
<1>14. free # {} => s \in Slot /\ request[s] = NULL
  BY MaxIsFree DEF FreeSlots
<1>15. rec \in Request /\ rec.buf = x
  BY <1>3 DEF Request
<1> HIDE DEF rec, s, free
<1>16. TypeOK'
  <2>1. local' \in [Task -> Locals]
    BY <1>1, <1>2, <1>12
  <2>2. pc' \in [Task -> Points]
    BY <1>1, <1>2 DEF Points, WaitPoints
  <2>3. request' \in [Slot -> Request \cup {NULL}]
    BY <1>2, <1>5, <1>15 DEF TypeOK
  <2> QED BY <1>1, <1>2, <1>11, <2>1, <2>2, <2>3 DEF TypeOK, data
<1>17. OneBufferPerBlock' /\ NamedOK'
  BY <1>2, <1>3, <1>11 DEF OneBufferPerBlock, NamedOK
<1>18. Holding(t)' = {x}
  BY <1>12, <1>13 DEF Holding, bh
<1>19. TaskOK(t)'
  BY <1>3, <1>4, <1>11, <1>12, <1>13, <1>18 DEF TaskOK, Scanning, op, bh
<1>20. VersionOK'
  <2>1. t \in Writing' => t \in Writing
    BY <1>1, <1>12, <1>13 DEF Writing, op
  <2> QED BY <1>1, <1>2, <1>13, <2>1, NoNewWriter DEF data
<1>21. LockOK'
  <2>1. CASE buf' = less /\ UNCHANGED request
    BY <1>1, <1>2, <1>9, <1>13, <2>1, LocksStay
  <2>2. CASE /\ buf' = [less EXCEPT ![x] = h] /\ ~buf[x].lock /\ free # {}
             /\ request' = [request EXCEPT ![s] = rec]
    <3>1. \A y \in Buf : buf'[y].lock <=> y = x \/ buf[y].lock
      BY <1>3, <1>8, <1>9, <1>10, <2>2
    <3>2. \A y \in Buf : ~Waits(t, y)
      BY <1>1 DEF Waits
    <3>3. PICK y \in Buf : y = x
      BY <1>3
    <3>4. /\ rec.buf = y /\ ~buf[y].lock
          /\ \A z \in Buf : buf'[z].lock <=> z = y \/ buf[z].lock
      BY <1>15, <2>2, <3>1, <3>3
    <3>5. PICK q \in Slot : q = s /\ request[q] = NULL
      BY <1>14, <2>2
    <3>6. PICK e \in Request : e = rec
      BY <1>15
    <3>7. e.buf = y /\ request' = [request EXCEPT ![q] = e]
      BY <2>2, <3>4, <3>5, <3>6
    <3>8. pc'[t] # "reqwait"
      BY <1>13
    <3> QED BY <1>2, <1>13, <3>2, <3>4, <3>5, <3>7, <3>8, LocksSubmit
  <2> QED BY <1>5, <2>1, <2>2
<1>22. \A y \in Buf : buf'[y].count + Refs(t, y) = buf[y].count + Refs(t, y)'
  <2>1. \A y \in Buf : (FirstIs(t, y) <=> y = x) /\ ~FirstIs(t, y)'
    BY <1>1, <1>12, <1>13 DEF FirstIs, x, f
  <2> SUFFICES ASSUME NEW y \in Buf
               PROVE  buf'[y].count + Refs(t, y) = buf[y].count + Refs(t, y)'
    OBVIOUS
  <2>2. buf[y].count \in Nat
    BY <1>2 DEF BufHead
  <2> QED BY <1>4, <1>6, <1>11, <1>18, <2>1, <2>2 DEF Refs, One, n
<1> QED BY <1>11, <1>13, <1>16, <1>17, <1>19, <1>20, <1>21, <1>22, TaskMoves

-----------------------------------------------------------------------------
(* The disk. *)

(* A step of the disk that changes no reference. *)
LEMMA DiskMoves ==
    ASSUME IInv, UNCHANGED <<pc, local, nversion>>, TypeOK', LockOK', NamedOK',
           \A x \in Buf : /\ buf'[x].count = buf[x].count
                          /\ buf'[x].blocknr = buf[x].blocknr
    PROVE  IInv'
<1>1. \A u \in Task : TaskOK(u)'
  BY OthersKeep DEF IInv
<1>2. VersionOK'
  BY DEF IInv, VersionOK, Writing, op
<1>3. OneBufferPerBlock'
  BY DEF IInv, OneBufferPerBlock
<1>4. CountIsHolders'
  <2>1. \A x \in Buf : Holders(x)' = Holders(x) /\ FirstHolders(x)' = FirstHolders(x)
    BY DEF Holders, FirstHolders, Holding, bh
  <2> QED BY <2>1 DEF IInv, CountIsHolders
<1> QED BY <1>1, <1>2, <1>3, <1>4 DEF IInv

(* The buffer a request is for. *)
LEMMA Requested ==
    ASSUME IInv, NEW s \in Slot, request[s] # NULL
    PROVE  LET x == request[s].buf IN
           /\ request[s] \in Request /\ x \in Buf /\ Pending(x) = {s}
           /\ buf[x] \in BufHead /\ buf[x].lock /\ buf[x].blocknr \in Block
           /\ \A t \in Task : ~Waits(t, x)
<1> DEFINE x == request[s].buf
<1>1. request[s] \in Request /\ x \in Buf
  BY DEF IInv, TypeOK, Request
<1>2. s \in Pending(x)
  BY DEF Pending
<1> HIDE DEF x
<1>3. Pending(x) = {s} /\ buf[x].lock /\ \A t \in Task : ~Waits(t, x)
  BY <1>1, <1>2 DEF IInv, LockOK
<1>4. buf[x] \in BufHead
  BY <1>1 DEF IInv, TypeOK
<1>5. buf[x].blocknr \in Block
  BY <1>1, <1>3, <1>4 DEF IInv, NamedOK, BufHead
<1> QED BY <1>1, <1>3, <1>4, <1>5 DEF x

LEMMA MoveOutKeeps ==
    ASSUME IInv, NEW s \in Slot, MoveOut(s)
    PROVE  IInv'
<1> DEFINE x == request[s].buf
           rec == [request[s] EXCEPT !.moved = TRUE]
<1>1. /\ request[s] # NULL
      /\ disk' = [disk EXCEPT ![buf[x].blocknr] = buf[x].data]
      /\ request' = [request EXCEPT ![s] = rec]
      /\ UNCHANGED <<buf, latest, nversion, cpu, pc, local, asleep>>
  BY DEF MoveOut
<1>2. /\ request[s] \in Request /\ x \in Buf /\ Pending(x) = {s}
      /\ buf[x] \in BufHead /\ buf[x].blocknr \in Block
  BY <1>1, Requested
<1>3. rec \in Request /\ rec.buf = x /\ rec # NULL
  <2>1. rec \in Request /\ rec.buf = x
    BY <1>2 DEF Request
  <2> QED BY <2>1, NullAssumption
<1>4. buf[x].data \in Version
  BY <1>2 DEF BufHead
<1> HIDE DEF x, rec
<1>5. TypeOK /\ LockOK /\ NamedOK
  BY DEF IInv
<1>6. request'[s] = rec /\ \A q \in Slot \ {s} : request'[q] = request[q]
  BY <1>1, <1>5 DEF TypeOK
<1>7. TypeOK'
  <2>1. disk' \in [Block -> Version]
    BY <1>1, <1>2, <1>4, <1>5 DEF TypeOK
  <2>2. request' \in [Slot -> Request \cup {NULL}]
    BY <1>1, <1>3, <1>5 DEF TypeOK
  <2> QED BY <1>1, <1>5, <2>1, <2>2 DEF TypeOK
<1>8. \A y \in Buf : Pending(y)' = Pending(y)
  BY <1>1, <1>3, <1>6 DEF Pending, x
<1>9. LockOK'
  BY <1>1, <1>5, <1>8 DEF LockOK, Waits, bh
<1>10. NamedOK'
  BY <1>1, <1>5 DEF NamedOK
<1> QED BY <1>1, <1>7, <1>9, <1>10, DiskMoves

LEMMA EndRequestKeeps ==
    ASSUME IInv, NEW s \in Slot, NEW ok \in BOOLEAN, EndRequest(s, ok)
    PROVE  IInv'
<1>0. PICK x \in Buf : x = request[s].buf
  BY Requested DEF EndRequest
<1> DEFINE v == IF ok /\ request[s].cmd = "READ" THEN disk[buf[x].blocknr]
                                                 ELSE buf[x].data
           h == [buf[x] EXCEPT !.uptodate = ok, !.lock = FALSE, !.data = v]
<1>1. /\ request[s] # NULL /\ request' = [request EXCEPT ![s] = NULL]
      /\ buf' = [buf EXCEPT ![x] = h] /\ asleep' \subseteq asleep
      /\ UNCHANGED <<data, cpu, pc, local>>
  BY <1>0 DEF EndRequest
<1>2. /\ request[s] \in Request /\ x \in Buf /\ Pending(x) = {s}
      /\ buf[x] \in BufHead /\ buf[x].lock /\ buf[x].blocknr \in Block
      /\ \A t \in Task : ~Waits(t, x)
  BY <1>0, <1>1, Requested
<1>3. TypeOK /\ LockOK /\ NamedOK
  BY DEF IInv
<1>4. v \in Version
  BY <1>2, <1>3 DEF BufHead, TypeOK
<1> HIDE DEF v
<1>5. /\ h \in BufHead /\ ~h.lock /\ h.count = buf[x].count
      /\ h.blocknr = buf[x].blocknr /\ h.dirt = buf[x].dirt
  BY <1>2, <1>4 DEF BufHead
<1> HIDE DEF h
<1>6. /\ request'[s] = NULL /\ \A q \in Slot \ {s} : request'[q] = request[q]
      /\ buf'[x] = h /\ \A y \in Buf \ {x} : buf'[y] = buf[y]
  BY <1>1, <1>2, <1>3 DEF TypeOK
<1>7. TypeOK'
  <2>1. buf' \in [Buf -> BufHead]
    BY <1>1, <1>3, <1>5 DEF TypeOK
  <2>2. request' \in [Slot -> Request \cup {NULL}]
    BY <1>1, <1>3 DEF TypeOK
  <2> QED BY <1>1, <1>3, <2>1, <2>2 DEF TypeOK, data
<1>8. Pending(x)' = {} /\ \A y \in Buf \ {x} : Pending(y)' = Pending(y)
  BY <1>2, <1>6 DEF Pending
<1>9. \A y \in Buf, t \in Task : Waits(t, y)' <=> Waits(t, y)
  BY <1>1 DEF Waits, bh
<1>10. LockOK'
  <2> SUFFICES ASSUME NEW y \in Buf
               PROVE  /\ ~buf'[y].lock =>
                            Pending(y)' = {} /\ \A u \in Task : ~Waits(u, y)'
                      /\ \A q, r \in Pending(y)' : q = r
                      /\ \A u, w \in Task :
                            Waits(u, y)' /\ Waits(w, y)' => u = w
                      /\ \A u \in Task : Waits(u, y)' => Pending(y)' = {}
                      /\ buf'[y].lock =>
                            Pending(y)' # {} \/ \E u \in Task : Waits(u, y)'
    BY DEF LockOK
  <2>1. CASE y = x
    BY <1>2, <1>5, <1>6, <1>8, <1>9, <2>1
  <2>2. CASE y # x
    BY <1>3, <1>6, <1>8, <1>9, <2>2 DEF LockOK
  <2> QED BY <2>1, <2>2
<1>11. NamedOK'
  BY <1>2, <1>3, <1>5, <1>6 DEF NamedOK
<1>12. \A y \in Buf : buf'[y].count = buf[y].count /\ buf'[y].blocknr = buf[y].blocknr
  BY <1>5, <1>6
<1> QED BY <1>1, <1>7, <1>10, <1>11, <1>12, DiskMoves DEF data

-----------------------------------------------------------------------------
(* The invariant holds at first and is kept. *)
LEMMA IInvInit == Init => IInv
<1> SUFFICES ASSUME Init PROVE IInv
  OBVIOUS
<1>1. 0 \in Nat /\ 0 \in Version /\ 0 \in 0..NBuf /\ 0 \in 0..2
  BY CacheAssumption DEF Version
<1>2. NoLocals \in Locals
  BY <1>1 DEF NoLocals, Locals
<1>3. TypeOK
  <2>1. buf \in [Buf -> BufHead]
    BY <1>1 DEF Init, BufHead
  <2>2. pc \in [Task -> Points]
    BY DEF Init, Points
  <2> QED BY <1>1, <1>2, <2>1, <2>2 DEF Init, TypeOK
<1>4. \A t \in Task : pc[t] = "user" /\ local[t] = NoLocals
  BY DEF Init
<1>5. \A t \in Task : TaskOK(t)
  BY <1>4, NullAssumption DEF TaskOK, Holding, Scanning, op, NoLocals
<1>6. VersionOK
  <2>1. Writing = {}
    BY <1>4, NullAssumption DEF Writing, op, NoLocals
  <2>2. Cardinality(Writing) = 0
    BY <2>1, FS_EmptySet
  <2> QED BY <2>2, CacheAssumption DEF Init, VersionOK
<1>7. \A x \in Buf :
        /\ buf[x].blocknr = NULL /\ buf[x].count = 0 /\ ~buf[x].dirt
        /\ ~buf[x].uptodate /\ ~buf[x].lock
  BY DEF Init
<1>8. OneBufferPerBlock /\ NamedOK
  BY <1>7 DEF OneBufferPerBlock, NamedOK
<1>9. CountIsHolders
  <2>1. \A x \in Buf : Holders(x) = {} /\ FirstHolders(x) = {}
    BY <1>4 DEF Holders, FirstHolders, Holding, NoLocals
  <2>2. Cardinality({}) = 0
    BY FS_EmptySet
  <2> QED BY <1>7, <2>1, <2>2 DEF CountIsHolders
<1>10. LockOK
  <2>1. \A x \in Buf : Pending(x) = {}
    BY DEF Init, Pending
  <2>2. \A x \in Buf, t \in Task : ~Waits(t, x)
    BY <1>4 DEF Waits
  <2> QED BY <1>7, <2>1, <2>2 DEF LockOK
<1> QED BY <1>3, <1>5, <1>6, <1>8, <1>9, <1>10 DEF IInv

LEMMA IInvInductive == IInv /\ [Next]_vars => IInv'
<1> SUFFICES ASSUME IInv, [Next]_vars PROVE IInv'
  OBVIOUS
<1>1. ASSUME NEW t \in Task, TaskStep(t) PROVE IInv'
  <2>1. CASE \E o \in Ops, b \in Block : Start(t, o, b)
    BY <2>1, StartKeeps
  <2>2. CASE StartSync(t)
    BY <2>2, StartSyncKeeps
  <2>3. CASE WaitOnBuffer(t)
    BY <2>3, WaitOnBufferKeeps
  <2>4. CASE GetBlock(t)
    BY <2>4, FindInHashKeeps, RecheckHashKeeps, ChooseVictimKeeps,
      SleepForBufferKeeps,
       VictimLostKeeps, VictimDirtyKeeps, TakeVictimKeeps DEF GetBlock
  <2>5. CASE UseCached(t) \/ ReadBlock(t) \/ RetryRequest(t) \/ ReadDone(t)
    BY <2>5, UseCachedKeeps, ReadBlockKeeps, RetryRequestKeeps, ReadDoneKeeps
  <2>6. CASE (\E b \in Block : StartAhead(t, b)) \/ ReadAhead(t)
    BY <2>6, StartAheadKeeps, ReadAheadKeeps
  <2>7. CASE SyncBuffer(t) \/ SyncNext(t) \/ SyncDevDone(t) \/ SysSyncDone(t)
    BY <2>7, SyncBufferKeeps, SyncNextKeeps, SyncDevDoneKeeps, SysSyncDoneKeeps
  <2>8. CASE Read(t) \/ StartCopy(t) \/ PageFault(t) \/ Copy(t) \/ Brelse(t)
    BY <2>8, ReadKeeps, StartCopyKeeps, PageFaultKeeps, CopyKeeps, BrelseKeeps
  <2> QED
    BY <1>1, <2>1, <2>2, <2>3, <2>4, <2>5, <2>6, <2>7, <2>8 DEF TaskStep,
          KernelStep
<1>2. ASSUME NEW s \in Slot, DiskStep(s) PROVE IInv'
  BY <1>2, MoveOutKeeps, EndRequestKeeps DEF DiskStep
<1>3. CASE UNCHANGED vars
  BY <1>3 DEF vars, data, IInv, TypeOK, TaskOK, VersionOK, OneBufferPerBlock,
     CountIsHolders, LockOK, NamedOK, Holders, FirstHolders, Holding, Scanning,
     Writing, Waits, Pending, op, bh
<1> QED BY <1>1, <1>2, <1>3 DEF Next

LEMMA Inductive == Spec => []IInv
BY IInvInit, IInvInductive, PTL DEF Spec

(* Counting the owners of a lock. *)
LEMMA LockOwnerCounts ==
    ASSUME TypeOK, LockOK
    PROVE  LockOwner
<1> SUFFICES ASSUME NEW x \in Buf
             PROVE  Cardinality(Pending(x)) + Cardinality({t \in Task : Waits(t, x)})
                      = IF buf[x].lock THEN 1 ELSE 0
  BY DEF LockOwner, Waits
<1> DEFINE P == Pending(x)
           W == {t \in Task : Waits(t, x)}
<1>1. Cardinality({}) = 0 /\ \A e : Cardinality({e}) = 1
  BY FS_EmptySet, FS_Singleton
<1>2. CASE ~buf[x].lock
  <2>1. P = {} /\ W = {}
    BY <1>2 DEF LockOK
  <2> QED BY <1>1, <1>2, <2>1
<1>3. CASE buf[x].lock
  <2>1. CASE P # {}
    <3>1. PICK s \in P : P = {s}
      BY <2>1 DEF LockOK
    <3>2. W = {}
      BY <2>1 DEF LockOK
    <3> HIDE DEF P, W
    <3>3. Cardinality(P) = 1 /\ Cardinality(W) = 0
      BY <1>1, <3>1, <3>2
    <3> QED BY <1>3, <3>3 DEF P, W
  <2>2. CASE P = {}
    <3>1. PICK t \in Task : Waits(t, x)
      BY <1>3, <2>2 DEF LockOK
    <3>2. W = {t}
      BY <3>1 DEF LockOK
    <3> QED BY <1>1, <1>3, <2>2, <3>2
  <2> QED BY <2>1, <2>2
<1> QED BY <1>2, <1>3

(* Every block has at most one buffer, b_count is the number of references *)
(* tasks have to a buffer, and a locked buffer has exactly one owner,      *)
(* whatever getblk and the others find changed when they wake up           *)
(* (fs/buffer.c, kernel/blk_drv/ll_rw_blk.c).                              *)
THEOREM CacheIsSound == Spec => []CacheInv
<1>1. IInv => CacheInv
  BY LockOwnerCounts DEF IInv, CacheInv
<1> QED BY <1>1, Inductive, PTL

-----------------------------------------------------------------------------
(* What the cache keeps of the data that tasks write.                      *)

(* The three ways the code has to lose data are left out: a block_write of *)
(* a whole block does not set b_uptodate, a write that fails is not tried  *)
(* again, and file_write sets b_dirt before it copies, which it may do     *)
(* while sync writes the buffer if the copy meets a page fault.            *)
Careful ==
    "block_write" \notin Ops /\ "WRITE" \notin Errors /\ "file_write" \notin Faults

(* The task t writes into a buffer that has the block, and file_write has  *)
(* the processor from b_dirt to the end of the copy.                       *)
UseOK(t) ==
    /\ pc[t] \in {"use", "copy"} => buf[bh(t)].uptodate
    /\ pc[t] = "copy" /\ op(t) = "file_write" => buf[bh(t)].dirt /\ cpu = t

(* What is written has its block, what is read has not.                    *)
DirtyOK == \A x \in Buf : buf[x].dirt => buf[x].uptodate
RequestOK ==
    \A s \in Slot : request[s] # NULL =>
        (buf[request[s].buf].uptodate <=> request[s].cmd = "WRITE")
WaitOK(t) ==
    pc[t] = "reqwait" =>
        /\ local[t].next = 0 => ~buf[bh(t)].uptodate
        /\ local[t].next # 0 => buf[local[t].next].uptodate

(* The last version of the block b is in the buffer x and will be written, *)
(* or its request is in the table.                                         *)
Fresh(x, b)  == buf[x].blocknr = b /\ buf[x].data = latest[b]
Dirty(x, b)  == Fresh(x, b) /\ buf[x].dirt
Queued(x, b) ==
    /\ Fresh(x, b)
    /\ \E s \in Pending(x) : request[s].cmd = "WRITE" /\ ~request[s].moved

(* sys_sync has not passed the buffer x. *)
ToCome(t, x) ==
    x > local[t].next \/ (x = local[t].next /\ pc[t] # "syncnext")

(* What sys_sync has seen to. *)
SyncOK(t) ==
    op(t) = "sync" =>
        /\ local[t].since <= nversion
        /\ \A b \in Block : latest[b] <= local[t].since =>
              \/ disk[b] = latest[b]
              \/ \E x \in Buf : Queued(x, b)
              \/ \E x \in Buf : Dirty(x, b) /\ ToCome(t, x)

DInv ==
    /\ DirtyOK /\ RequestOK /\ Coherent /\ NoLostWrite
    /\ \A t \in Task : UseOK(t) /\ WaitOK(t) /\ SyncOK(t)

-----------------------------------------------------------------------------
(* What a step does with the versions of the block b. *)
Carried(b) ==
    /\ latest'[b] = latest[b]
    /\ disk[b] = latest[b] => disk'[b] = latest[b]
    /\ \A x \in Buf : Queued(x, b) => Queued(x, b)' \/ disk'[b] = latest[b]
    /\ \A x \in Buf : Dirty(x, b) =>
          Dirty(x, b)' \/ Queued(x, b)' \/ disk'[b] = latest[b]

LEMMA NoLostWriteForm ==
    NoLostWrite <=> \A b \in Block :
        disk[b] = latest[b] \/ \E x \in Buf : Queued(x, b) \/ Dirty(x, b)
BY DEF NoLostWrite, OnItsWay, Cached, Queued, Dirty, Fresh

LEMMA CarriedIsKept ==
    ASSUME NoLostWrite, \A b \in Block : Carried(b)
    PROVE  NoLostWrite'
<1>1. \A b \in Block :
        disk'[b] = latest'[b] \/ \E x \in Buf : Queued(x, b)' \/ Dirty(x, b)'
  BY NoLostWriteForm DEF Carried
<1> QED BY <1>1 DEF NoLostWrite, OnItsWay, Cached, Queued, Dirty, Fresh

(* What another task has synced. *)
LEMMA OtherSyncs ==
    ASSUME NEW u \in Task, SyncOK(u), nversion' = nversion,
           pc'[u] = pc[u], local'[u] = local[u], \A b \in Block : Carried(b)
    PROVE  SyncOK(u)'
<1>1. \A x \in Buf : ToCome(u, x)' <=> ToCome(u, x)
  BY DEF ToCome
<1> QED BY <1>1 DEF SyncOK, Carried, op

(* Where a task that waits for a request has its buffer. *)
LEMMA WaitsFor ==
    ASSUME IInv, NEW u \in Task, pc[u] = "reqwait"
    PROVE  LET x == IF local[u].next = 0 THEN bh(u) ELSE local[u].next IN
           x \in Buf /\ buf[x].lock /\ Waits(u, x)
<1> DEFINE x == IF local[u].next = 0 THEN bh(u) ELSE local[u].next
<1>1. TypeOK /\ TaskOK(u) /\ LockOK /\ local[u] \in Locals
  BY DEF IInv, TypeOK
<1>2. x \in Buf
  BY <1>1 DEF TaskOK, Scanning, Locals, Buf
<1>3. Waits(u, x)
  BY DEF Waits
<1>4. buf[x].lock
  BY <1>1, <1>2, <1>3 DEF LockOK
<1> QED BY <1>2, <1>3, <1>4

LEMMA UsesBuffer ==
    ASSUME IInv, NEW u \in Task, pc[u] \in {"use", "copy"}
    PROVE  bh(u) \in Buf /\ buf[bh(u)].count # 0 /\ bh(u) \in Holding(u)
<1>1. TaskOK(u) /\ CountIsHolders
  BY DEF IInv
<1>2. bh(u) \in Buf /\ bh(u) \in Holding(u)
  BY <1>1 DEF TaskOK, Scanning, Holding
<1> QED BY <1>1, <1>2, UnusedIsFree

(* A step of the task t. *)
LEMMA DataMoves ==
    ASSUME IInv, DInv, NEW t \in Task, cpu \in {t, NULL},
           \A u \in Task \ {t} : pc'[u] = pc[u] /\ local'[u] = local[u],
           nversion' = nversion, \A b \in Block : Carried(b),
           \A x \in Buf : \/ buf'[x].uptodate = buf[x].uptodate
                          \/ buf[x].count = 0 /\ ~buf[x].lock,
           DirtyOK', RequestOK', Coherent', UseOK(t)', WaitOK(t)', SyncOK(t)'
    PROVE  DInv'
<1>1. NoLostWrite'
  BY CarriedIsKept DEF DInv
<1>2. ASSUME NEW u \in Task \ {t} PROVE UseOK(u)' /\ WaitOK(u)' /\ SyncOK(u)'
  <2>1. pc'[u] = pc[u] /\ local'[u] = local[u] /\ UseOK(u) /\ WaitOK(u) /\ SyncOK(u)
    BY DEF DInv
  <2>2. cpu # u
    BY NullAssumption
  <2>3. UseOK(u)'
    <3>1. CASE pc[u] \in {"use", "copy"}
      <4>1. bh(u) \in Buf /\ buf[bh(u)].count # 0
        BY <3>1, UsesBuffer
      <4>2. buf'[bh(u)].uptodate = buf[bh(u)].uptodate
        BY <4>1
      <4> QED BY <2>1, <2>2, <4>2 DEF UseOK, op, bh
    <3>2. CASE pc[u] \notin {"use", "copy"}
      BY <2>1, <3>2 DEF UseOK
    <3> QED BY <3>1, <3>2
  <2>4. WaitOK(u)'
    <3>1. CASE pc[u] = "reqwait"
      <4> DEFINE x == IF local[u].next = 0 THEN bh(u) ELSE local[u].next
      <4>1. x \in Buf /\ buf[x].lock
        BY <3>1, WaitsFor
      <4>2. buf'[x].uptodate = buf[x].uptodate
        BY <4>1
      <4> QED BY <2>1, <3>1, <4>2 DEF WaitOK, bh
    <3>2. CASE pc[u] # "reqwait"
      BY <2>1, <3>2 DEF WaitOK
    <3> QED BY <3>1, <3>2
  <2>5. SyncOK(u)'
    BY <2>1, OtherSyncs
  <2> QED BY <2>3, <2>4, <2>5
<1> QED BY <1>1, <1>2 DEF DInv

(* A step that changes no flag, no data and no request. *)
SameData ==
    /\ UNCHANGED <<request, disk, latest, nversion>>
    /\ \A x \in Buf :
          /\ buf'[x].blocknr = buf[x].blocknr /\ buf'[x].data = buf[x].data
          /\ buf'[x].dirt = buf[x].dirt /\ buf'[x].uptodate = buf[x].uptodate

LEMMA SameIsKept ==
    ASSUME IInv, DInv, SameData
    PROVE  /\ \A b \in Block : Carried(b)
           /\ DirtyOK' /\ RequestOK' /\ Coherent'
<1>1. \A x \in Buf : Pending(x)' = Pending(x)
  BY DEF SameData, Pending
<1>2. \A x \in Buf, b \in Block : /\ Queued(x, b)' <=> Queued(x, b)
                                  /\ Dirty(x, b)' <=> Dirty(x, b)
  BY <1>1 DEF SameData, Queued, Dirty, Fresh
<1>3. \A b \in Block : Carried(b)
  BY <1>2 DEF Carried, SameData
<1>4. DirtyOK'
  BY DEF DInv, DirtyOK, SameData
<1>5. \A s \in Slot : request[s] # NULL => request[s].buf \in Buf
  BY DEF IInv, TypeOK, Request
<1>6. RequestOK'
  BY <1>5 DEF DInv, RequestOK, SameData
<1>7. Coherent'
  BY DEF DInv, Coherent, SameData
<1> QED BY <1>3, <1>4, <1>6, <1>7

(* Such a step, outside of sys_sync. *)
LEMMA QuietStep ==
    ASSUME IInv, DInv, NEW t \in Task, cpu \in {t, NULL}, SameData,
           \A u \in Task \ {t} : pc'[u] = pc[u] /\ local'[u] = local[u],
           op(t)' # "sync", pc'[t] # "reqwait", UseOK(t)'
    PROVE  DInv'
<1>1. WaitOK(t)' /\ SyncOK(t)'
  BY DEF WaitOK, SyncOK
<1>2. nversion' = nversion /\ \A x \in Buf : buf'[x].uptodate = buf[x].uptodate
  BY DEF SameData
<1> QED BY <1>1, <1>2, SameIsKept, DataMoves

-----------------------------------------------------------------------------
(* Steps outside of sys_sync that touch no data. *)
LEMMA SleepForBufferData ==
    ASSUME IInv, DInv, NEW t \in Task, SleepForBuffer(t)
    PROVE  DInv'
<1>1. /\ pc[t] = "getblk" /\ pc' = [pc EXCEPT ![t] = "getblk"]
      /\ cpu \in {t, NULL}
      /\ UNCHANGED <<request, disk, latest, nversion>>
      /\ UNCHANGED <<buf, local>>
  BY DEF SleepForBuffer, Sleep, At, data
<1>2. /\ TaskOK(t) /\ pc \in [Task -> Points] /\ local \in [Task -> Locals]
      /\ buf \in [Buf -> BufHead] /\ local[t] \in Locals
  BY DEF IInv, TypeOK
<1>3. pc'[t] = "getblk" /\ op(t) # "sync"
  BY <1>1, <1>2 DEF TaskOK, Scanning
<1>4. SameData
  BY <1>1 DEF SameData
<1>5. \A u \in Task \ {t} : pc'[u] = pc[u] /\ local'[u] = local[u]
  BY <1>1, <1>2
<1>6. op(t)' # "sync" /\ pc'[t] # "reqwait" /\ UseOK(t)'
  BY <1>1, <1>3 DEF op, UseOK
<1> QED BY <1>1, <1>4, <1>5, <1>6, QuietStep

LEMMA VictimLostData ==
    ASSUME IInv, DInv, NEW t \in Task, VictimLost(t)
    PROVE  DInv'
<1>1. /\ pc[t] = "victim" /\ pc' = [pc EXCEPT ![t] = "getblk"]
      /\ cpu \in {t, NULL}
      /\ UNCHANGED <<request, disk, latest, nversion>>
      /\ UNCHANGED <<buf, local>>
  BY DEF VictimLost, Unlocked, Goto, At, data
<1>2. /\ TaskOK(t) /\ pc \in [Task -> Points] /\ local \in [Task -> Locals]
      /\ buf \in [Buf -> BufHead] /\ local[t] \in Locals
  BY DEF IInv, TypeOK
<1>3. pc'[t] = "getblk" /\ op(t) # "sync"
  BY <1>1, <1>2 DEF TaskOK, Scanning
<1>4. SameData
  BY <1>1 DEF SameData
<1>5. \A u \in Task \ {t} : pc'[u] = pc[u] /\ local'[u] = local[u]
  BY <1>1, <1>2
<1>6. op(t)' # "sync" /\ pc'[t] # "reqwait" /\ UseOK(t)'
  BY <1>1, <1>3 DEF op, UseOK
<1> QED BY <1>1, <1>4, <1>5, <1>6, QuietStep

LEMMA ReadData ==
    ASSUME IInv, DInv, NEW t \in Task, Read(t)
    PROVE  DInv'
<1>1. /\ pc[t] = "use" /\ pc' = [pc EXCEPT ![t] = "brelse"] /\ cpu \in {t, NULL}
      /\ UNCHANGED <<request, disk, latest, nversion>>
      /\ UNCHANGED <<buf, local>>
  BY DEF Read, Goto, At, data
<1>2. /\ TaskOK(t) /\ pc \in [Task -> Points] /\ local \in [Task -> Locals]
      /\ buf \in [Buf -> BufHead] /\ local[t] \in Locals
  BY DEF IInv, TypeOK
<1>3. pc'[t] = "brelse" /\ op(t) # "sync"
  BY <1>1, <1>2 DEF TaskOK, Scanning
<1>4. SameData
  BY <1>1 DEF SameData
<1>5. \A u \in Task \ {t} : pc'[u] = pc[u] /\ local'[u] = local[u]
  BY <1>1, <1>2
<1>6. op(t)' # "sync" /\ pc'[t] # "reqwait" /\ UseOK(t)'
  BY <1>1, <1>3 DEF op, UseOK
<1> QED BY <1>1, <1>4, <1>5, <1>6, QuietStep

LEMMA StartData ==
    ASSUME IInv, DInv, NEW t \in Task, NEW o \in Ops, NEW b \in Block, Start(t, o, b)
    PROVE  DInv'
<1>1. /\ pc[t] = "user" /\ pc' = [pc EXCEPT ![t] = "getblk"]
      /\ cpu \in {t, NULL}
      /\ UNCHANGED <<request, disk, latest, nversion>>
      /\ UNCHANGED buf
      /\ local' = [local EXCEPT ![t].op = o, ![t].block = b] /\ o # "sync"
  BY DEF Start, Goto, At, data
<1>2. /\ TaskOK(t) /\ pc \in [Task -> Points] /\ local \in [Task -> Locals]
      /\ buf \in [Buf -> BufHead] /\ local[t] \in Locals
  BY DEF IInv, TypeOK
<1>3. pc'[t] = "getblk" /\ local'[t].op # "sync"
  BY <1>1, <1>2 DEF TaskOK, Scanning, op, Locals
<1>4. SameData
  BY <1>1 DEF SameData
<1>5. \A u \in Task \ {t} : pc'[u] = pc[u] /\ local'[u] = local[u]
  BY <1>1, <1>2
<1>6. op(t)' # "sync" /\ pc'[t] # "reqwait" /\ UseOK(t)'
  BY <1>3 DEF op, UseOK
<1> QED BY <1>1, <1>4, <1>5, <1>6, QuietStep

LEMMA VictimDirtyData ==
    ASSUME IInv, DInv, NEW t \in Task, VictimDirty(t)
    PROVE  DInv'
<1>1. /\ pc[t] = "victim" /\ pc' = [pc EXCEPT ![t] = "sync"]
      /\ cpu \in {t, NULL}
      /\ UNCHANGED <<request, disk, latest, nversion>>
      /\ UNCHANGED buf
      /\ local' = [local EXCEPT ![t].next = 1, ![t].passes = 2]
  BY DEF VictimDirty, Unlocked, Goto, At, data
<1>2. /\ TaskOK(t) /\ pc \in [Task -> Points] /\ local \in [Task -> Locals]
      /\ buf \in [Buf -> BufHead] /\ local[t] \in Locals
  BY DEF IInv, TypeOK
<1>3. pc'[t] = "sync" /\ local'[t].op # "sync"
  BY <1>1, <1>2 DEF TaskOK, Scanning, op, Locals
<1>4. SameData
  BY <1>1 DEF SameData
<1>5. \A u \in Task \ {t} : pc'[u] = pc[u] /\ local'[u] = local[u]
  BY <1>1, <1>2
<1>6. op(t)' # "sync" /\ pc'[t] # "reqwait" /\ UseOK(t)'
  BY <1>3 DEF op, UseOK
<1> QED BY <1>1, <1>4, <1>5, <1>6, QuietStep

LEMMA StartAheadData ==
    ASSUME IInv, DInv, NEW t \in Task, NEW b \in Block, StartAhead(t, b)
    PROVE  DInv'
<1>1. /\ pc[t] = "ahead" /\ pc' = [pc EXCEPT ![t] = "getblk"]
      /\ cpu \in {t, NULL}
      /\ UNCHANGED <<request, disk, latest, nversion>>
      /\ UNCHANGED buf
      /\ local' = [local EXCEPT ![t].first = [bh |-> bh(t), block |-> local[t].block],
                                   ![t].block = b]
  BY DEF StartAhead, Goto, At, data
<1>2. /\ TaskOK(t) /\ pc \in [Task -> Points] /\ local \in [Task -> Locals]
      /\ buf \in [Buf -> BufHead] /\ local[t] \in Locals
  BY DEF IInv, TypeOK
<1>3. pc'[t] = "getblk" /\ local'[t].op # "sync"
  BY <1>1, <1>2 DEF TaskOK, Scanning, op, Locals
<1>4. SameData
  BY <1>1 DEF SameData
<1>5. \A u \in Task \ {t} : pc'[u] = pc[u] /\ local'[u] = local[u]
  BY <1>1, <1>2
<1>6. op(t)' # "sync" /\ pc'[t] # "reqwait" /\ UseOK(t)'
  BY <1>3 DEF op, UseOK
<1> QED BY <1>1, <1>4, <1>5, <1>6, QuietStep

LEMMA SyncDevDoneData ==
    ASSUME IInv, DInv, NEW t \in Task, SyncDevDone(t)
    PROVE  DInv'
<1>1. /\ pc[t] = "syncnext" /\ pc' = [pc EXCEPT ![t] = "victim"]
      /\ cpu \in {t, NULL}
      /\ UNCHANGED <<request, disk, latest, nversion>>
      /\ UNCHANGED buf
      /\ local' = [local EXCEPT ![t].next = 0, ![t].passes = 0]
      /\ op(t) # "sync"
  BY DEF SyncDevDone, LastPass, Goto, At, data
<1>2. /\ TaskOK(t) /\ pc \in [Task -> Points] /\ local \in [Task -> Locals]
      /\ buf \in [Buf -> BufHead] /\ local[t] \in Locals
  BY DEF IInv, TypeOK
<1>3. pc'[t] = "victim" /\ local'[t].op # "sync"
  BY <1>1, <1>2 DEF TaskOK, Scanning, op, Locals
<1>4. SameData
  BY <1>1 DEF SameData
<1>5. \A u \in Task \ {t} : pc'[u] = pc[u] /\ local'[u] = local[u]
  BY <1>1, <1>2
<1>6. op(t)' # "sync" /\ pc'[t] # "reqwait" /\ UseOK(t)'
  BY <1>3 DEF op, UseOK
<1> QED BY <1>1, <1>4, <1>5, <1>6, QuietStep

LEMMA SysSyncDoneData ==
    ASSUME IInv, DInv, NEW t \in Task, SysSyncDone(t)
    PROVE  DInv'
<1>1. /\ pc[t] = "syncnext" /\ pc' = [pc EXCEPT ![t] = "user"]
      /\ cpu \in {t, NULL}
      /\ UNCHANGED <<request, disk, latest, nversion>>
      /\ UNCHANGED buf
      /\ local' = [local EXCEPT ![t] = NoLocals]
  BY DEF SysSyncDone, LastPass, Leave, At, data
<1>2. /\ TaskOK(t) /\ pc \in [Task -> Points] /\ local \in [Task -> Locals]
      /\ buf \in [Buf -> BufHead] /\ local[t] \in Locals
  BY DEF IInv, TypeOK
<1>3. pc'[t] = "user" /\ local'[t].op # "sync"
  BY <1>1, <1>2, NullAssumption DEF NoLocals
<1>4. SameData
  BY <1>1 DEF SameData
<1>5. \A u \in Task \ {t} : pc'[u] = pc[u] /\ local'[u] = local[u]
  BY <1>1, <1>2
<1>6. op(t)' # "sync" /\ pc'[t] # "reqwait" /\ UseOK(t)'
  BY <1>3 DEF op, UseOK
<1> QED BY <1>1, <1>4, <1>5, <1>6, QuietStep

LEMMA ChooseVictimData ==
    ASSUME IInv, DInv, NEW t \in Task, ChooseVictim(t)
    PROVE  DInv'
<1>1. PICK x \in Buf :
        /\ pc[t] = "getblk" /\ pc' = [pc EXCEPT ![t] = "victim"]
        /\ cpu \in {t, NULL}
        /\ UNCHANGED <<buf, request, disk, latest, nversion>>
        /\ local' = [local EXCEPT ![t].bh = x]
  BY DEF ChooseVictim, Victims, Goto, At, data
<1>2. /\ TaskOK(t) /\ pc \in [Task -> Points] /\ local \in [Task -> Locals]
      /\ local[t] \in Locals
  BY DEF IInv, TypeOK
<1>3. pc'[t] = "victim" /\ local'[t].op # "sync"
  BY <1>1, <1>2 DEF TaskOK, Scanning, op, Locals
<1>4. SameData
  BY <1>1 DEF SameData
<1>5. \A u \in Task \ {t} : pc'[u] = pc[u] /\ local'[u] = local[u]
  BY <1>1, <1>2
<1>6. op(t)' # "sync" /\ pc'[t] # "reqwait" /\ UseOK(t)'
  BY <1>3 DEF op, UseOK
<1> QED BY <1>1, <1>4, <1>5, <1>6, QuietStep

LEMMA FindInHashData ==
    ASSUME IInv, DInv, NEW t \in Task, FindInHash(t)
    PROVE  DInv'
<1>1. PICK x \in Buf :
        /\ pc[t] = "getblk" /\ pc' = [pc EXCEPT ![t] = "hashwait"]
        /\ cpu \in {t, NULL} /\ UNCHANGED <<request, disk, latest, nversion>>
        /\ buf' = [buf EXCEPT ![x].count = @ + 1]
        /\ local' = [local EXCEPT ![t].bh = x]
  BY DEF FindInHash, Cached, Goto, At, data
<1>2. /\ TaskOK(t) /\ pc \in [Task -> Points] /\ local \in [Task -> Locals]
      /\ buf \in [Buf -> BufHead] /\ local[t] \in Locals
  BY DEF IInv, TypeOK
<1>3. pc'[t] = "hashwait" /\ local'[t].op # "sync"
  BY <1>1, <1>2 DEF TaskOK, Scanning, op, Locals
<1>4. SameData
  BY <1>1, <1>2 DEF SameData, BufHead
<1>5. \A u \in Task \ {t} : pc'[u] = pc[u] /\ local'[u] = local[u]
  BY <1>1, <1>2
<1>6. op(t)' # "sync" /\ pc'[t] # "reqwait" /\ UseOK(t)'
  BY <1>3 DEF op, UseOK
<1> QED BY <1>1, <1>4, <1>5, <1>6, QuietStep

LEMMA RecheckHashData ==
    ASSUME IInv, DInv, NEW t \in Task, RecheckHash(t)
    PROVE  DInv'
<1>1. PICK l \in {"have", "getblk"} :
        /\ pc[t] = "hashwait" /\ pc' = [pc EXCEPT ![t] = l]
        /\ cpu \in {t, NULL} /\ UNCHANGED <<request, disk, latest, nversion,
                                            local>>
        /\ buf' = buf \/ buf' = [buf EXCEPT ![bh(t)].count = @ - 1]
  BY DEF RecheckHash, Unlocked, Goto, At, data
<1>2. /\ TaskOK(t) /\ pc \in [Task -> Points] /\ buf \in [Buf -> BufHead]
  BY DEF IInv, TypeOK
<1>3. pc'[t] = l /\ op(t) # "sync"
  BY <1>1, <1>2 DEF TaskOK, Scanning
<1>4. SameData
  BY <1>1, <1>2 DEF SameData, BufHead
<1>5. \A u \in Task \ {t} : pc'[u] = pc[u] /\ local'[u] = local[u]
  BY <1>1, <1>2
<1>6. op(t)' # "sync" /\ pc'[t] # "reqwait" /\ UseOK(t)'
  BY <1>1, <1>3 DEF op, UseOK
<1> QED BY <1>1, <1>4, <1>5, <1>6, QuietStep

LEMMA BrelseData ==
    ASSUME IInv, DInv, NEW t \in Task, Brelse(t)
    PROVE  DInv'
<1>1. /\ pc[t] = "brelse" /\ pc' = [pc EXCEPT ![t] = "user"]
      /\ cpu \in {t, NULL}
      /\ UNCHANGED <<request, disk, latest, nversion>>
      /\ buf' = [buf EXCEPT ![bh(t)].count = @ - 1]
      /\ local' = [local EXCEPT ![t] = NoLocals]
  BY DEF Brelse, Unlocked, Leave, At, data
<1>2. /\ pc \in [Task -> Points] /\ local \in [Task -> Locals]
      /\ buf \in [Buf -> BufHead]
  BY DEF IInv, TypeOK
<1>3. pc'[t] = "user" /\ local'[t].op # "sync"
  BY <1>1, <1>2, NullAssumption DEF NoLocals
<1>4. SameData
  BY <1>1, <1>2 DEF SameData, BufHead
<1>5. \A u \in Task \ {t} : pc'[u] = pc[u] /\ local'[u] = local[u]
  BY <1>1, <1>2
<1>6. op(t)' # "sync" /\ pc'[t] # "reqwait" /\ UseOK(t)'
  BY <1>3 DEF op, UseOK
<1> QED BY <1>1, <1>4, <1>5, <1>6, QuietStep

-----------------------------------------------------------------------------
(* Other steps that touch no data. *)

(* What sys_sync itself has seen to after a step of its own. *)
LEMMA OwnSync ==
    ASSUME NEW t \in Task, SyncOK(t), nversion' = nversion,
           op(t)' = op(t), local'[t].since = local[t].since,
           \A b \in Block : Carried(b),
           \A x \in Buf, b \in Block :
              op(t) = "sync" /\ Dirty(x, b) /\ ToCome(t, x) =>
                  Queued(x, b)' \/ ToCome(t, x)'
    PROVE  SyncOK(t)'
<1> SUFFICES ASSUME op(t) = "sync",
                    NEW b \in Block, latest'[b] <= local[t].since
             PROVE  \/ disk'[b] = latest'[b]
                    \/ \E x \in Buf : Queued(x, b)'
                    \/ \E x \in Buf : Dirty(x, b)' /\ ToCome(t, x)'
  BY DEF SyncOK
<1>1. Carried(b)
  OBVIOUS
<1>2. latest[b] <= local[t].since
  BY <1>1 DEF Carried
<1>3. CASE disk[b] = latest[b]
  BY <1>1, <1>3 DEF Carried
<1>4. CASE \E x \in Buf : Queued(x, b)
  BY <1>1, <1>4 DEF Carried
<1>5. CASE \E x \in Buf : Dirty(x, b) /\ ToCome(t, x)
  BY <1>1, <1>5 DEF Carried
<1> QED BY <1>2, <1>3, <1>4, <1>5 DEF SyncOK

LEMMA WaitOnBufferData ==
    ASSUME IInv, DInv, NEW t \in Task, WaitOnBuffer(t)
    PROVE  DInv'
<1>1. /\ pc[t] \in WaitPoints /\ cpu \in {t, NULL}
      /\ pc' = [pc EXCEPT ![t] = pc[t]]
      /\ UNCHANGED <<buf, request, disk, latest, nversion, local>>
  BY DEF WaitOnBuffer, Sleep, At, data
<1>2. pc' = pc /\ SyncOK(t)
  BY <1>1 DEF IInv, TypeOK, DInv
<1>3. SameData
  BY <1>1 DEF SameData
<1>4. UseOK(t)' /\ WaitOK(t)'
  BY <1>1, <1>2 DEF UseOK, WaitOK, WaitPoints
<1>5. SyncOK(t)'
  BY <1>1, <1>2, <1>3, SameIsKept, OtherSyncs
<1> QED BY <1>1, <1>2, <1>3, <1>4, <1>5, SameIsKept, DataMoves

LEMMA UseCachedData ==
    ASSUME Careful, IInv, DInv, NEW t \in Task, UseCached(t)
    PROVE  DInv'
<1>1. PICK l \in {"ahead", "use"} :
        /\ pc[t] = "have" /\ pc' = [pc EXCEPT ![t] = l] /\ cpu \in {t, NULL}
        /\ UNCHANGED <<buf, request, disk, latest, nversion, local>>
        /\ buf[bh(t)].uptodate \/ op(t) = "block_write"
  BY DEF UseCached, Goto, At, data
<1>2. pc \in [Task -> Points] /\ TaskOK(t)
  BY DEF IInv, TypeOK
<1>3. op(t) # "sync" /\ buf[bh(t)].uptodate
  BY <1>1, <1>2 DEF TaskOK, Scanning, Careful
<1>4. SameData
  BY <1>1 DEF SameData
<1>5. pc'[t] = l /\ \A u \in Task \ {t} : pc'[u] = pc[u] /\ local'[u] = local[u]
  BY <1>1, <1>2
<1>6. op(t)' # "sync" /\ pc'[t] # "reqwait" /\ UseOK(t)'
  BY <1>1, <1>3, <1>5 DEF op, bh, UseOK
<1> QED BY <1>1, <1>4, <1>5, <1>6, QuietStep

LEMMA ReadDoneData ==
    ASSUME IInv, DInv, NEW t \in Task, ReadDone(t)
    PROVE  DInv'
<1>1. PICK l \in {"use", "brelse"} :
        /\ pc[t] = "readwait" /\ pc' = [pc EXCEPT ![t] = l] /\ cpu \in {t, NULL}
        /\ UNCHANGED <<buf, request, disk, latest, nversion, local>>
        /\ l = "use" => buf[bh(t)].uptodate
  BY DEF ReadDone, Unlocked, Goto, At, data
<1>2. pc \in [Task -> Points] /\ TaskOK(t)
  BY DEF IInv, TypeOK
<1>3. op(t) # "sync"
  BY <1>1, <1>2 DEF TaskOK, Scanning
<1>4. SameData
  BY <1>1 DEF SameData
<1>5. pc'[t] = l /\ \A u \in Task \ {t} : pc'[u] = pc[u] /\ local'[u] = local[u]
  BY <1>1, <1>2
<1>6. op(t)' # "sync" /\ pc'[t] # "reqwait" /\ UseOK(t)'
  BY <1>1, <1>3, <1>5 DEF op, bh, UseOK
<1> QED BY <1>1, <1>4, <1>5, <1>6, QuietStep

LEMMA PageFaultData ==
    ASSUME Careful, IInv, DInv, NEW t \in Task, PageFault(t)
    PROVE  DInv'
<1>1. /\ pc[t] = "copy" /\ cpu \in {t, NULL} /\ op(t) \in Faults
      /\ UNCHANGED <<buf, request, disk, latest, nversion, local, pc>>
  BY DEF PageFault, At, data
<1>2. TaskOK(t) /\ UseOK(t)
  BY DEF IInv, DInv
<1>3. op(t) # "sync" /\ op(t) # "file_write"
  BY <1>1, <1>2 DEF TaskOK, Scanning, Careful
<1>4. SameData
  BY <1>1 DEF SameData
<1>5. op(t)' # "sync" /\ pc'[t] # "reqwait" /\ UseOK(t)'
  BY <1>1, <1>2, <1>3 DEF op, bh, UseOK
<1> QED BY <1>1, <1>4, <1>5, QuietStep

LEMMA StartSyncData ==
    ASSUME IInv, DInv, NEW t \in Task, StartSync(t)
    PROVE  DInv'
<1>1. /\ pc[t] = "user" /\ pc' = [pc EXCEPT ![t] = "sync"] /\ cpu \in {t, NULL}
      /\ UNCHANGED <<buf, request, disk, latest, nversion>>
      /\ local' = [local EXCEPT ![t].op = "sync", ![t].next = 1, ![t].passes = 1,
                                ![t].since = nversion]
  BY DEF StartSync, Goto, At, data
<1>2. /\ pc \in [Task -> Points] /\ local \in [Task -> Locals]
      /\ local[t] \in Locals /\ nversion \in Nat /\ NoLostWrite
  BY DEF IInv, TypeOK, DInv, Version
<1>3. SameData
  BY <1>1 DEF SameData
<1>4. pc'[t] = "sync" /\ \A u \in Task \ {t} : pc'[u] = pc[u] /\ local'[u] = local[u]
  BY <1>1, <1>2
<1>5. local'[t].next = 1 /\ local'[t].since = nversion
  BY <1>1, <1>2 DEF Locals
<1>6. UseOK(t)' /\ WaitOK(t)'
  BY <1>4 DEF UseOK, WaitOK
<1>7. SyncOK(t)'
  <2>1. \A x \in Buf : ToCome(t, x)'
    BY <1>4, <1>5, CacheAssumption DEF ToCome, Buf
  <2>2. nversion <= nversion
    BY <1>2
  <2>3. ASSUME NEW b \in Block
        PROVE  \/ disk'[b] = latest'[b]
               \/ \E x \in Buf : Queued(x, b)'
               \/ \E x \in Buf : Dirty(x, b)' /\ ToCome(t, x)'
    <3>1. Carried(b)
      BY <1>3, SameIsKept
    <3> QED BY <1>2, <2>1, <3>1, NoLostWriteForm DEF Carried
  <2> QED BY <1>1, <1>5, <2>2, <2>3 DEF SyncOK
<1>8. \A x \in Buf : buf'[x].uptodate = buf[x].uptodate
  BY <1>1
<1> QED BY <1>1, <1>3, <1>4, <1>6, <1>7, <1>8, SameIsKept, DataMoves

LEMMA SyncNextData ==
    ASSUME IInv, DInv, NEW t \in Task, SyncNext(t)
    PROVE  DInv'
<1>1. /\ pc[t] = "syncnext" /\ pc' = [pc EXCEPT ![t] = "sync"]
      /\ cpu \in {t, NULL}
      /\ UNCHANGED <<buf, request, disk, latest, nversion>>
      /\ local[t].next < NBuf \/ local[t].passes > 1
      /\ local' = IF local[t].next < NBuf
                    THEN [local EXCEPT ![t].next = @ + 1]
                    ELSE [local EXCEPT ![t].next = 1, ![t].passes = @ - 1]
  BY DEF SyncNext, Goto, At, data
<1>2. /\ pc \in [Task -> Points] /\ local \in [Task -> Locals]
      /\ local[t] \in Locals /\ TaskOK(t) /\ SyncOK(t)
  BY DEF IInv, TypeOK, DInv
<1>3. SameData
  BY <1>1 DEF SameData
<1>4. pc'[t] = "sync" /\ \A u \in Task \ {t} : pc'[u] = pc[u] /\ local'[u] = local[u]
  BY <1>1, <1>2
<1>5. local'[t].op = local[t].op /\ local'[t].since = local[t].since
  BY <1>1, <1>2 DEF Locals
<1>6. op(t) = "sync" => local'[t].next = local[t].next + 1 /\ local[t].next \in Nat
  <2>1. op(t) = "sync" => local[t].passes = 1
    BY <1>2 DEF TaskOK
  <2>2. op(t) = "sync" => local[t].next < NBuf
    BY <1>1, <2>1
  <2>3. local[t].next \in Nat
    BY <1>2, CacheAssumption DEF Locals
  <2>4. local[t].next < NBuf => local'[t].next = local[t].next + 1
    BY <1>1, <1>2 DEF Locals
  <2> QED BY <2>2, <2>3, <2>4
<1>7. UseOK(t)' /\ WaitOK(t)'
  BY <1>4 DEF UseOK, WaitOK
<1>8. \A x \in Buf : op(t) = "sync" /\ ToCome(t, x) => ToCome(t, x)'
  BY <1>1, <1>4, <1>6, CacheAssumption DEF ToCome, Buf
<1>9. SyncOK(t)'
  <2>1. op(t)' = op(t)
    BY <1>5 DEF op
  <2> QED BY <1>1, <1>2, <1>3, <1>5, <1>8, <2>1, SameIsKept, OwnSync
<1>10. \A x \in Buf : buf'[x].uptodate = buf[x].uptodate
  BY <1>1
<1> QED BY <1>1, <1>3, <1>4, <1>7, <1>9, <1>10, SameIsKept, DataMoves

LEMMA SkipCleanData ==
    ASSUME IInv, DInv, NEW t \in Task, At(t, "sync"), Goto(t, "syncnext"),
           ~buf[local[t].next].dirt, UNCHANGED <<buf, request, data, local>>
    PROVE  DInv'
<1>1. /\ pc[t] = "sync" /\ pc' = [pc EXCEPT ![t] = "syncnext"]
      /\ cpu \in {t, NULL}
      /\ UNCHANGED <<buf, request, disk, latest, nversion, local>>
  BY DEF Goto, At, data
<1>2. pc \in [Task -> Points] /\ SyncOK(t)
  BY DEF IInv, TypeOK, DInv
<1>3. SameData
  BY <1>1 DEF SameData
<1>4. pc'[t] = "syncnext" /\ \A u \in Task \ {t} : pc'[u] = pc[u] /\ local'[u] = local[u]
  BY <1>1, <1>2
<1>5. UseOK(t)' /\ WaitOK(t)'
  BY <1>4 DEF UseOK, WaitOK
<1>6. \A x \in Buf, b \in Block : Dirty(x, b) /\ ToCome(t, x) => ToCome(t, x)'
  BY <1>1 DEF Dirty, ToCome
<1>7. SyncOK(t)'
  <2>1. op(t)' = op(t) /\ local'[t].since = local[t].since
    BY <1>1 DEF op
  <2> QED BY <1>1, <1>2, <1>3, <1>6, <2>1, SameIsKept, OwnSync
<1>8. \A x \in Buf : buf'[x].uptodate = buf[x].uptodate
  BY <1>1
<1> QED BY <1>1, <1>3, <1>4, <1>5, <1>7, <1>8, SameIsKept, DataMoves

-----------------------------------------------------------------------------
(* getblk takes a buffer that nobody uses, clean and unlocked.             *)
LEMMA TakeVictimData ==
    ASSUME IInv, DInv, NEW t \in Task, TakeVictim(t)
    PROVE  DInv'
<1>0. PICK x \in Buf : x = bh(t)
  BY DEF TakeVictim, Unlocked, At, IInv, TaskOK, Scanning
<1> DEFINE c == local[t].block
<1>1. /\ pc[t] = "victim" /\ pc' = [pc EXCEPT ![t] = "have"]
      /\ cpu \in {t, NULL}
      /\ UNCHANGED <<request, disk, latest, nversion, local>>
      /\ ~buf[x].lock /\ buf[x].count = 0 /\ ~buf[x].dirt /\ Cached(c) = {}
      /\ buf' = [[buf EXCEPT ![x].count = 1, ![x].uptodate = FALSE]
                    EXCEPT ![x].blocknr = c]
  BY <1>0 DEF TakeVictim, Requeued, Unlocked, Awaited, Goto, At, data
<1>2. /\ pc \in [Task -> Points] /\ buf \in [Buf -> BufHead] /\ TaskOK(t)
      /\ LockOK /\ request \in [Slot -> Request \cup {NULL}]
  BY DEF IInv, TypeOK
<1>3. Pending(x) = {}
  BY <1>1, <1>2 DEF LockOK
<1>4. /\ ~buf'[x].uptodate /\ ~buf'[x].dirt
      /\ \A y \in Buf \ {x} : buf'[y] = buf[y]
  BY <1>1, <1>2 DEF BufHead
<1>5. \A y \in Buf : Pending(y)' = Pending(y)
  BY <1>1 DEF Pending
<1>6. ASSUME NEW b \in Block PROVE Carried(b)
  <2>1. ~Queued(x, b) /\ ~Dirty(x, b)
    BY <1>1, <1>3 DEF Queued, Dirty
  <2>2. \A y \in Buf \ {x} : (Queued(y, b) => Queued(y, b)') /\ (Dirty(y, b) => Dirty(y, b)')
    BY <1>1, <1>4, <1>5 DEF Queued, Dirty, Fresh
  <2> QED BY <1>1, <2>1, <2>2 DEF Carried
<1>7. pc'[t] = "have" /\ \A u \in Task \ {t} : pc'[u] = pc[u] /\ local'[u] = local[u]
  BY <1>1, <1>2
<1>8. DirtyOK'
  BY <1>4 DEF DInv, DirtyOK
<1>9. RequestOK'
  <2>1. \A s \in Slot : request[s] # NULL => request[s].buf \in Buf \ {x}
    BY <1>2, <1>3 DEF Pending, Request
  <2> QED BY <1>1, <1>4, <2>1 DEF DInv, RequestOK
<1>10. Coherent'
  BY <1>1, <1>4 DEF DInv, Coherent
<1>11. UseOK(t)' /\ WaitOK(t)' /\ SyncOK(t)'
  <2>1. op(t)' # "sync"
    BY <1>1, <1>2 DEF TaskOK, Scanning, op
  <2> QED BY <1>7, <2>1 DEF UseOK, WaitOK, SyncOK
<1>12. \A y \in Buf : \/ buf'[y].uptodate = buf[y].uptodate
                      \/ buf[y].count = 0 /\ ~buf[y].lock
  <2>1. ~buf[x].lock /\ buf[x].count = 0
    BY <1>1
  <2> QED BY <1>4, <2>1
<1> QED BY <1>1, <1>6, <1>7, <1>8, <1>9, <1>10, <1>11, <1>12, DataMoves

-----------------------------------------------------------------------------
(* make_request. *)

(* A request for the buffer x enters the table, and b_dirt is cleared: to  *)
(* write x if x has its block, to read it if not.                          *)
Submitted(x, s, rec) ==
    /\ request[s] = NULL /\ request' = [request EXCEPT ![s] = rec]
    /\ rec.buf = x /\ ~rec.moved /\ (rec.cmd = "WRITE" <=> buf[x].uptodate)
    /\ UNCHANGED <<disk, latest, nversion>>
    /\ \A y \in Buf :
          /\ buf'[y].blocknr = buf[y].blocknr /\ buf'[y].data = buf[y].data
          /\ buf'[y].uptodate = buf[y].uptodate
          /\ buf'[y].dirt <=> buf[y].dirt /\ y # x

LEMMA SubmittedIsKept ==
    ASSUME IInv, DInv, NEW x \in Buf, NEW s \in Slot, NEW rec \in Request,
           Submitted(x, s, rec)
    PROVE  /\ \A b \in Block : Carried(b)
           /\ \A b \in Block : Dirty(x, b) => Queued(x, b)'
           /\ DirtyOK' /\ RequestOK' /\ Coherent'
<1>1. /\ rec # NULL /\ request'[s] = rec
      /\ \A q \in Slot \ {s} : request'[q] = request[q]
      /\ \A q \in Slot : request[q] # NULL => request[q].buf \in Buf
  BY NullAssumption DEF IInv, TypeOK, Submitted, Request
<1>2. ASSUME NEW b \in Block
      PROVE  /\ \A y \in Buf : Queued(y, b) => Queued(y, b)'
             /\ \A y \in Buf \ {x} : Dirty(y, b) => Dirty(y, b)'
             /\ Dirty(x, b) => Queued(x, b)'
  <2>1. \A y \in Buf : Fresh(y, b)' <=> Fresh(y, b)
    BY DEF Fresh, Submitted
  <2>2. ASSUME NEW y \in Buf, Queued(y, b) PROVE Queued(y, b)'
    <3>1. PICK q \in Pending(y) : request[q].cmd = "WRITE" /\ ~request[q].moved
      BY <2>2 DEF Queued
    <3>2. q \in Slot /\ q # s /\ request[q] # NULL /\ request[q].buf = y
      BY DEF Pending, Submitted
    <3>3. q \in Pending(y)' /\ request'[q].cmd = "WRITE" /\ ~request'[q].moved
      BY <1>1, <3>1, <3>2 DEF Pending
    <3> QED BY <2>1, <2>2, <3>3 DEF Queued
  <2>3. \A y \in Buf \ {x} : Dirty(y, b) => Dirty(y, b)'
    BY <2>1 DEF Dirty, Submitted
  <2>4. ASSUME Dirty(x, b) PROVE Queued(x, b)'
    <3>1. rec.cmd = "WRITE"
      BY <2>4 DEF Dirty, DInv, DirtyOK, Submitted
    <3>2. s \in Pending(x)' /\ request'[s].cmd = "WRITE" /\ ~request'[s].moved
      BY <1>1, <3>1 DEF Pending, Submitted
    <3> QED BY <2>1, <2>4, <3>2 DEF Queued, Dirty
  <2> QED BY <2>2, <2>3, <2>4
<1>3. \A b \in Block : Carried(b)
  BY <1>2 DEF Carried, Submitted
<1>4. DirtyOK' /\ Coherent'
  BY DEF DInv, DirtyOK, Coherent, Submitted
<1>5. RequestOK'
  BY <1>1 DEF DInv, RequestOK, Submitted
<1> QED BY <1>2, <1>3, <1>4, <1>5

LEMMA SubmitData ==
    ASSUME IInv, DInv, NEW t \in Task, NEW x \in Buf, NEW rw \in {"READ", "WRITE"},
           NEW after \in {"ahead", "readwait", "syncnext"}, Submit(t, x, rw, after),
           cpu \in {t, NULL}, pc[t] \in {"have", "sync", "reqwait"},
           x = (IF local[t].next = 0 THEN bh(t) ELSE local[t].next),
           rw = "WRITE" <=> buf[x].uptodate, rw = "WRITE" <=> local[t].next # 0
    PROVE  DInv'
<1>1. /\ pc \in [Task -> Points] /\ TaskOK(t) /\ buf \in [Buf -> BufHead]
      /\ SyncOK(t) /\ LockOK
  BY DEF IInv, TypeOK, DInv
<1>2. UNCHANGED <<disk, latest, nversion, local>>
  BY DEF Submit, data
<1>3. op(t)' = op(t) /\ local'[t].since = local[t].since
  BY <1>2 DEF op
<1>4. CASE FreeSlots(rw) = {}
  <2>1. /\ buf' = [buf EXCEPT ![x].lock = TRUE] /\ UNCHANGED request
        /\ pc' = [pc EXCEPT ![t] = "reqwait"]
    BY <1>4 DEF Submit, Sleep
  <2>2. SameData
    BY <1>1, <1>2, <2>1 DEF SameData, BufHead
  <2>3. /\ pc'[t] = "reqwait"
        /\ \A u \in Task \ {t} : pc'[u] = pc[u] /\ local'[u] = local[u]
        /\ \A y \in Buf : buf'[y].uptodate = buf[y].uptodate
    BY <1>1, <1>2, <2>1, <2>2 DEF SameData
  <2>4. UseOK(t)' /\ WaitOK(t)'
    BY <1>2, <2>3 DEF UseOK, WaitOK, bh
  <2>5. \A y \in Buf : op(t) = "sync" /\ ToCome(t, y) => ToCome(t, y)'
    BY <1>2, <2>3 DEF ToCome
  <2>6. SyncOK(t)'
    BY <1>1, <1>2, <1>3, <2>2, <2>5, SameIsKept, OwnSync
  <2> QED BY <1>2, <2>2, <2>3, <2>4, <2>6, SameIsKept, DataMoves
<1>5. CASE FreeSlots(rw) # {}
  <2>1. PICK s \in Slot : s = Max(FreeSlots(rw)) /\ request[s] = NULL
    <3>1. Max(FreeSlots(rw)) \in FreeSlots(rw) /\ FreeSlots(rw) \subseteq Slot
      BY <1>5, MaxIsFree DEF FreeSlots
    <3>2. \A s \in FreeSlots(rw) : request[s] = NULL
      BY DEF FreeSlots
    <3> QED BY <3>1, <3>2
  <2>2. PICK rec \in Request : rec = [buf |-> x, cmd |-> rw, moved |-> FALSE]
    BY DEF Request
  <2>3. /\ buf' = [buf EXCEPT ![x].lock = TRUE, ![x].dirt = FALSE]
        /\ request' = [request EXCEPT ![s] = rec]
        /\ pc' = [pc EXCEPT ![t] = after]
    BY <1>5, <2>1, <2>2 DEF Submit, Goto
  <2>4. \A y \in Buf :
          /\ buf'[y].blocknr = buf[y].blocknr /\ buf'[y].data = buf[y].data
          /\ buf'[y].uptodate = buf[y].uptodate
          /\ buf'[y].dirt <=> buf[y].dirt /\ y # x
    BY <1>1, <2>3 DEF BufHead
  <2>5. rec.buf = x /\ rec.cmd = rw /\ ~rec.moved
    BY <2>2
  <2>6. Submitted(x, s, rec)
    BY <1>2, <2>1, <2>3, <2>4, <2>5 DEF Submitted
  <2>7. /\ pc'[t] = after
        /\ \A u \in Task \ {t} : pc'[u] = pc[u] /\ local'[u] = local[u]
    BY <1>1, <1>2, <2>3
  <2>8. UseOK(t)' /\ WaitOK(t)'
    BY <2>7 DEF UseOK, WaitOK
  <2>9. \A y \in Buf, b \in Block : op(t) = "sync" /\ Dirty(y, b) /\ ToCome(t, y) =>
          Queued(y, b)' \/ ToCome(t, y)'
    <3>1. op(t) = "sync" => x = local[t].next
      BY <1>1 DEF TaskOK, Scanning
    <3>2. \A b \in Block : Dirty(x, b) => Queued(x, b)'
      BY <2>6, SubmittedIsKept
    <3> QED BY <1>2, <3>1, <3>2 DEF ToCome
  <2>10. SyncOK(t)'
    BY <1>1, <1>2, <1>3, <2>6, <2>9, SubmittedIsKept, OwnSync
  <2> QED BY <1>2, <2>4, <2>6, <2>7, <2>8, <2>10, SubmittedIsKept, DataMoves
<1> QED BY <1>4, <1>5

LEMMA ReadBlockData ==
    ASSUME IInv, DInv, NEW t \in Task, ReadBlock(t)
    PROVE  DInv'
<1>1. /\ pc[t] = "have" /\ cpu \in {t, NULL} /\ ~buf[bh(t)].uptodate
      /\ Submit(t, bh(t), "READ", AfterRead(t))
  BY DEF ReadBlock, At
<1>2. local[t].next = 0 /\ bh(t) \in Buf
  BY <1>1 DEF IInv, TaskOK, Scanning
<1>3. AfterRead(t) \in {"ahead", "readwait", "syncnext"}
  BY DEF AfterRead
<1> QED BY <1>1, <1>2, <1>3, SubmitData

LEMMA RetryRequestData ==
    ASSUME IInv, DInv, NEW t \in Task, RetryRequest(t)
    PROVE  DInv'
<1>1. pc[t] = "reqwait" /\ cpu \in {t, NULL} /\ WaitOK(t)
  BY DEF RetryRequest, At, DInv
<1> DEFINE x == IF local[t].next = 0 THEN bh(t) ELSE local[t].next
<1>2. x \in Buf
  BY <1>1, WaitsFor
<1>3. CASE local[t].next = 0
  <2>1. Submit(t, bh(t), "READ", AfterRead(t)) /\ ~buf[bh(t)].uptodate
    BY <1>1, <1>3 DEF RetryRequest, WaitOK
  <2>2. AfterRead(t) \in {"ahead", "readwait", "syncnext"}
    BY DEF AfterRead
  <2> QED BY <1>1, <1>2, <1>3, <2>1, <2>2, SubmitData
<1>4. CASE local[t].next # 0
  <2>1. Submit(t, local[t].next, "WRITE", "syncnext") /\ buf[local[t].next].uptodate
    BY <1>1, <1>4 DEF RetryRequest, WaitOK
  <2> QED BY <1>1, <1>2, <1>4, <2>1, SubmitData
<1> QED BY <1>3, <1>4

LEMMA SyncBufferData ==
    ASSUME IInv, DInv, NEW t \in Task, SyncBuffer(t)
    PROVE  DInv'
<1> DEFINE x == local[t].next
<1>1. pc[t] = "sync" /\ cpu \in {t, NULL} /\ At(t, "sync") /\ DirtyOK
  BY DEF SyncBuffer, Unlocked, At, DInv
<1>2. x \in Buf /\ x # 0
  <2>1. local[t] \in Locals /\ TaskOK(t)
    BY DEF IInv, TypeOK
  <2>2. x # 0
    BY <1>1, <2>1 DEF TaskOK, Scanning
  <2> QED BY <2>1, <2>2 DEF Locals, Buf
<1>3. CASE buf[x].dirt
  <2>1. Submit(t, x, "WRITE", "syncnext")
    BY <1>3 DEF SyncBuffer
  <2>2. buf[x].uptodate
    BY <1>1, <1>2, <1>3 DEF DirtyOK
  <2> QED BY <1>1, <1>2, <2>1, <2>2, SubmitData
<1>4. CASE ~buf[x].dirt
  BY <1>1, <1>4, SkipCleanData DEF SyncBuffer
<1> QED BY <1>3, <1>4

LEMMA ReadAheadData ==
    ASSUME IInv, DInv, NEW t \in Task, ReadAhead(t)
    PROVE  DInv'
<1>1. /\ TaskOK(t) /\ local[t] \in Locals /\ pc \in [Task -> Points]
      /\ local \in [Task -> Locals] /\ buf \in [Buf -> BufHead] /\ TypeOK
  BY DEF IInv, TypeOK
<1>2. /\ pc[t] = "have" /\ local[t].first # NULL /\ cpu \in {t, NULL}
      /\ pc' = [pc EXCEPT ![t] = "readwait"]
      /\ local' = [local EXCEPT ![t].bh = local[t].first.bh,
                                ![t].block = local[t].first.block, ![t].first = NULL]
      /\ UNCHANGED <<disk, latest, nversion>>
  BY DEF ReadAhead, Goto, At, data
<1>3. PICK tmp \in Buf : tmp = bh(t)
  BY <1>1, <1>2 DEF TaskOK, Scanning
<1>4. PICK x \in Buf : x = local[t].first.bh
  BY <1>1, <1>2, HoldsBuffers
<1> DEFINE less == [buf EXCEPT ![tmp].count = @ - 1]
<1>5. \A y \in Buf :
        /\ less[y].blocknr = buf[y].blocknr /\ less[y].data = buf[y].data
        /\ less[y].uptodate = buf[y].uptodate /\ less[y].dirt = buf[y].dirt
  BY <1>1 DEF BufHead
<1>6. /\ pc'[t] = "readwait" /\ op(t)' # "sync"
      /\ \A u \in Task \ {t} : pc'[u] = pc[u] /\ local'[u] = local[u]
  BY <1>1, <1>2 DEF TaskOK, Scanning, op, Locals
<1>7. UseOK(t)' /\ WaitOK(t)' /\ SyncOK(t)'
  BY <1>6 DEF UseOK, WaitOK, SyncOK
<1>8. CASE buf' = less /\ UNCHANGED request
  <2>1. SameData
    BY <1>2, <1>5, <1>8 DEF SameData
  <2>2. \A y \in Buf : buf'[y].uptodate = buf[y].uptodate
    BY <1>5, <1>8
  <2> QED BY <1>2, <1>6, <1>7, <2>1, <2>2, SameIsKept, DataMoves
<1>9. CASE ~(buf' = less /\ UNCHANGED request)
  <2> DEFINE free == FreeSlots("READ")
  <2>1. /\ ~buf[x].uptodate /\ free # {}
        /\ buf' = [less EXCEPT ![x].lock = TRUE, ![x].dirt = FALSE]
        /\ request' = [request EXCEPT ![Max(free)] =
                          [buf |-> x, cmd |-> "READ", moved |-> FALSE]]
    BY <1>2, <1>3, <1>4, <1>9 DEF ReadAhead
  <2>2. PICK s \in Slot : s = Max(free) /\ request[s] = NULL
    BY <2>1, MaxIsFree DEF FreeSlots
  <2>3. PICK rec \in Request : rec = [buf |-> x, cmd |-> "READ", moved |-> FALSE]
    BY DEF Request
  <2>4. \A y \in Buf :
          /\ buf'[y].blocknr = buf[y].blocknr /\ buf'[y].data = buf[y].data
          /\ buf'[y].uptodate = buf[y].uptodate
          /\ buf'[y].dirt <=> buf[y].dirt /\ y # x
    <3>1. less \in [Buf -> [blocknr : Block \cup {NULL}, count : Int, dirt : BOOLEAN,
                            uptodate : BOOLEAN, lock : BOOLEAN, data : Version]]
      BY <1>1 DEF BufHead
    <3> HIDE DEF less
    <3> QED BY <1>5, <2>1, <3>1
  <2>5. rec.buf = x /\ rec.cmd = "READ" /\ ~rec.moved
    BY <2>3
  <2>6. Submitted(x, s, rec)
    BY <1>2, <2>1, <2>2, <2>3, <2>4, <2>5 DEF Submitted
  <2> QED BY <1>2, <1>6, <1>7, <2>4, <2>6, SubmittedIsKept, DataMoves
<1> QED BY <1>8, <1>9

-----------------------------------------------------------------------------
(* Writing into the cache. *)
LEMMA StartCopyData ==
    ASSUME IInv, DInv, NEW t \in Task, StartCopy(t)
    PROVE  DInv'
<1>0. PICK x \in Buf : x = bh(t)
  BY UsesBuffer DEF StartCopy, At
<1> DEFINE d == buf[x].dirt \/ DirtyFirst(op(t))
<1>1. /\ pc[t] = "use" /\ pc' = [pc EXCEPT ![t] = "copy"] /\ cpu' = t
      /\ cpu \in {t, NULL} /\ op(t) \in WriteOps
      /\ UNCHANGED <<request, disk, latest, nversion, local>>
      /\ buf' = [buf EXCEPT ![x].dirt = d]
  BY <1>0 DEF StartCopy, Goto, At, data
<1>2. /\ pc \in [Task -> Points] /\ buf \in [Buf -> BufHead] /\ UseOK(t)
  BY DEF IInv, TypeOK, DInv
<1>3. buf[x].uptodate
  BY <1>0, <1>1, <1>2 DEF UseOK
<1>4. \A y \in Buf :
        /\ buf'[y].blocknr = buf[y].blocknr /\ buf'[y].data = buf[y].data
        /\ buf'[y].uptodate = buf[y].uptodate
        /\ buf'[y].dirt = IF y = x THEN d ELSE buf[y].dirt
  BY <1>1, <1>2 DEF BufHead
<1>5. /\ pc'[t] = "copy" /\ bh(t)' = x /\ op(t)' = op(t) /\ op(t) # "sync"
      /\ \A u \in Task \ {t} : pc'[u] = pc[u] /\ local'[u] = local[u]
  BY <1>0, <1>1, <1>2 DEF bh, op, WriteOps
<1>6. \A y \in Buf : Pending(y)' = Pending(y)
  BY <1>1 DEF Pending
<1>7. ASSUME NEW b \in Block PROVE Carried(b)
  <2>1. \A y \in Buf : Fresh(y, b)' <=> Fresh(y, b)
    BY <1>1, <1>4 DEF Fresh
  <2>2. \A y \in Buf : Queued(y, b) => Queued(y, b)'
    BY <1>1, <1>6, <2>1 DEF Queued
  <2>3. \A y \in Buf : Dirty(y, b) => Dirty(y, b)'
    BY <1>4, <2>1 DEF Dirty
  <2> QED BY <1>1, <2>2, <2>3 DEF Carried
<1>8. DirtyOK' /\ Coherent'
  BY <1>1, <1>3, <1>4 DEF DInv, DirtyOK, Coherent
<1>9. RequestOK'
  <2>1. \A s \in Slot : request[s] # NULL => request[s].buf \in Buf
    BY DEF IInv, TypeOK, Request
  <2> QED BY <1>1, <1>4, <2>1 DEF DInv, RequestOK
<1>10. UseOK(t)'
  BY <1>1, <1>3, <1>4, <1>5 DEF UseOK, DirtyFirst
<1>11. WaitOK(t)' /\ SyncOK(t)'
  BY <1>5 DEF WaitOK, SyncOK
<1> QED BY <1>1, <1>4, <1>5, <1>7, <1>8, <1>9, <1>10, <1>11, DataMoves

LEMMA CopyData ==
    ASSUME IInv, DInv, NEW t \in Task, Copy(t)
    PROVE  DInv'
<1>0. PICK x \in Buf : x = bh(t)
  BY UsesBuffer DEF Copy, At
<1>1. PICK c \in Block : c = local[t].block /\ buf[x].blocknr = c
  <2>1. pc[t] = "copy" /\ TaskOK(t) /\ x \in Holding(t)
    BY <1>0, UsesBuffer DEF IInv, Copy, At
  <2> QED BY <2>1 DEF TaskOK, Scanning, WriteOps
<1> DEFINE v == nversion + 1
           d == buf[x].dirt \/ ~DirtyFirst(op(t))
<1>2. /\ pc[t] = "copy" /\ pc' = [pc EXCEPT ![t] = "brelse"]
      /\ cpu \in {t, NULL}
      /\ UNCHANGED <<request, disk, local>>
      /\ nversion' = v /\ latest' = [latest EXCEPT ![c] = v]
      /\ buf' = [buf EXCEPT ![x].data = v, ![x].dirt = d]
  BY <1>0, <1>1 DEF Copy, Copied, Goto, At
<1>3. /\ pc \in [Task -> Points] /\ buf \in [Buf -> BufHead] /\ UseOK(t) /\ TaskOK(t)
      /\ latest \in [Block -> Version] /\ nversion \in Nat /\ OneBufferPerBlock
      /\ \A u \in Task : local[u].since \in Nat
      /\ \A b \in Block : latest[b] \in Nat
  BY CacheAssumption DEF IInv, TypeOK, DInv, Version, Locals
<1>4. buf[x].uptodate /\ d
  BY <1>0, <1>2, <1>3 DEF UseOK, DirtyFirst
<1>5. \A y \in Buf :
        /\ buf'[y].blocknr = buf[y].blocknr
        /\ buf'[y].uptodate = buf[y].uptodate
        /\ buf'[y].data = IF y = x THEN v ELSE buf[y].data
        /\ buf'[y].dirt = IF y = x THEN d ELSE buf[y].dirt
  BY <1>2, <1>3 DEF BufHead
<1> HIDE DEF d
<1>6. latest'[c] = v /\ \A b \in Block \ {c} : latest'[b] = latest[b]
  BY <1>2, <1>3
<1>7. \A y \in Buf \ {x} : buf[y].blocknr # c
  BY <1>1, <1>3, NullAssumption DEF OneBufferPerBlock
<1>8. /\ pc'[t] = "brelse" /\ op(t)' # "sync"
      /\ \A u \in Task \ {t} : pc'[u] = pc[u] /\ local'[u] = local[u]
  BY <1>2, <1>3 DEF TaskOK, Scanning, op
<1>9. \A y \in Buf : Pending(y)' = Pending(y)
  BY <1>2 DEF Pending
<1>10. Fresh(x, c)' /\ Dirty(x, c)'
  BY <1>1, <1>4, <1>5, <1>6 DEF Fresh, Dirty
<1>11. ASSUME NEW b \in Block \ {c}, NEW y \in Buf
       PROVE  (Queued(y, b) => Queued(y, b)') /\ (Dirty(y, b) => Dirty(y, b)')
  <2>1. Fresh(y, b) => Fresh(y, b)' /\ y # x
    BY <1>1, <1>5, <1>6 DEF Fresh
  <2>2. Queued(y, b) => Queued(y, b)'
    BY <1>2, <1>9, <2>1 DEF Queued
  <2>3. Dirty(y, b) => Dirty(y, b)'
    BY <1>5, <2>1 DEF Dirty
  <2> QED BY <2>2, <2>3
<1>12. NoLostWrite'
  <2>1. ASSUME NEW b \in Block
        PROVE  disk'[b] = latest'[b] \/ \E y \in Buf : Queued(y, b)' \/ Dirty(y, b)'
    <3>1. CASE b = c
      BY <1>10, <3>1
    <3>2. CASE b # c
      <4>1. disk[b] = latest[b] \/ \E y \in Buf : Queued(y, b) \/ Dirty(y, b)
        BY NoLostWriteForm DEF DInv
      <4> QED BY <1>2, <1>6, <1>11, <3>2, <4>1
    <3> QED BY <3>1, <3>2
  <2> QED BY <2>1 DEF NoLostWrite, OnItsWay, Cached, Queued, Dirty, Fresh
<1>13. DirtyOK'
  BY <1>4, <1>5 DEF DInv, DirtyOK
<1>14. Coherent'
  <2>1. ASSUME NEW y \in Buf, buf'[y].uptodate
        PROVE  buf'[y].data = latest'[buf'[y].blocknr]
    <3>1. CASE y = x
      BY <1>1, <1>5, <1>6, <3>1
    <3>2. CASE y # x
      <4>1. /\ buf[y].uptodate /\ buf[y].data = latest[buf[y].blocknr]
            /\ buf[y].blocknr # NULL
        BY <1>5, <2>1 DEF DInv, Coherent, IInv, NamedOK
      <4>2. buf[y].blocknr \in Block \ {c}
        BY <1>3, <1>7, <3>2, <4>1 DEF BufHead
      <4> QED BY <1>5, <1>6, <3>2, <4>1, <4>2
    <3> QED BY <3>1, <3>2
  <2> QED BY <2>1 DEF Coherent
<1>15. RequestOK'
  <2>1. \A s \in Slot : request[s] # NULL => request[s].buf \in Buf
    BY DEF IInv, TypeOK, Request
  <2>2. request' = request /\ RequestOK
    BY <1>2 DEF DInv
  <2>3. ASSUME NEW s \in Slot, request[s] # NULL
        PROVE  buf'[request[s].buf].uptodate = buf[request[s].buf].uptodate
    BY <1>5, <2>1, <2>3
  <2> QED BY <2>2, <2>3 DEF RequestOK
<1>16. ASSUME NEW u \in Task PROVE UseOK(u)' /\ WaitOK(u)' /\ SyncOK(u)'
  <2>1. CASE u = t
    BY <1>8, <2>1 DEF UseOK, WaitOK, SyncOK
  <2>2. CASE u # t
    <3>1. pc'[u] = pc[u] /\ local'[u] = local[u] /\ UseOK(u) /\ WaitOK(u) /\ SyncOK(u)
      BY <1>8, <2>2 DEF DInv
    <3>2. cpu # u
      BY <1>2, <2>2, NullAssumption
    <3>3. UseOK(u)'
      <4>1. CASE pc[u] \in {"use", "copy"}
        <5>1. bh(u) \in Buf
          BY <4>1, UsesBuffer
        <5> QED BY <1>5, <3>1, <3>2, <5>1 DEF UseOK, op, bh
      <4>2. CASE pc[u] \notin {"use", "copy"}
        BY <3>1, <4>2 DEF UseOK
      <4> QED BY <4>1, <4>2
    <3>4. WaitOK(u)'
      <4>1. CASE pc[u] = "reqwait"
        <5> DEFINE y == IF local[u].next = 0 THEN bh(u) ELSE local[u].next
        <5>1. y \in Buf
          BY <4>1, WaitsFor
        <5>2. buf'[y].uptodate = buf[y].uptodate
          BY <1>5, <5>1
        <5> QED BY <3>1, <4>1, <5>2 DEF WaitOK, bh
      <4>2. CASE pc[u] # "reqwait"
        BY <3>1, <4>2 DEF WaitOK
      <4> QED BY <4>1, <4>2
    <3>5. ASSUME op(u) = "sync" PROVE local[u].since <= nversion'
      BY <1>2, <1>3, <3>1, <3>5 DEF SyncOK
    <3>6. ASSUME op(u) = "sync", NEW b \in Block, latest'[b] <= local[u].since
          PROVE  \/ disk'[b] = latest'[b]
                 \/ \E y \in Buf : Queued(y, b)'
                 \/ \E y \in Buf : Dirty(y, b)' /\ ToCome(u, y)
      <4>1. b # c
        <5>1. local[u].since <= nversion /\ local[u].since \in Nat
          BY <1>3, <3>1, <3>6 DEF SyncOK
        <5>2. ~(v <= local[u].since)
          BY <1>3, <5>1
        <5> QED BY <1>6, <3>6, <5>2
      <4>2. \/ disk[b] = latest[b]
            \/ \E y \in Buf : Queued(y, b)
            \/ \E y \in Buf : Dirty(y, b) /\ ToCome(u, y)
        BY <1>6, <3>1, <3>6, <4>1 DEF SyncOK
      <4> QED BY <1>2, <1>6, <1>11, <4>1, <4>2
    <3>7. \A y \in Buf : ToCome(u, y)' <=> ToCome(u, y)
      BY <3>1 DEF ToCome
    <3>8. SyncOK(u)'
      BY <3>1, <3>5, <3>6, <3>7 DEF SyncOK, op
    <3> QED BY <3>3, <3>4, <3>8
  <2> QED BY <2>1, <2>2
<1> QED BY <1>12, <1>13, <1>14, <1>15, <1>16 DEF DInv

-----------------------------------------------------------------------------
(* The disk. *)
LEMMA MoveOutData ==
    ASSUME IInv, DInv, NEW s \in Slot, MoveOut(s)
    PROVE  DInv'
<1>0. PICK x \in Buf : x = request[s].buf
  BY Requested DEF MoveOut
<1>1. /\ request[s] \in Request /\ Pending(x) = {s} /\ buf[x].blocknr \in Block
      /\ request[s] # NULL
  BY <1>0, Requested DEF MoveOut
<1>2. PICK c \in Block : c = buf[x].blocknr
  BY <1>1
<1>3. PICK rec \in Request : rec = [request[s] EXCEPT !.moved = TRUE]
  BY <1>1 DEF Request
<1>4. /\ request[s].cmd = "WRITE" /\ disk' = [disk EXCEPT ![c] = buf[x].data]
      /\ request' = [request EXCEPT ![s] = rec]
      /\ UNCHANGED <<buf, latest, nversion, cpu, pc, local>>
  BY <1>0, <1>2, <1>3 DEF MoveOut
<1>5. /\ rec.buf = x /\ rec.cmd = "WRITE" /\ rec # NULL
  BY <1>0, <1>1, <1>3, <1>4, NullAssumption DEF Request
<1>6. request'[s] = rec /\ \A q \in Slot \ {s} : request'[q] = request[q]
  BY <1>4 DEF IInv, TypeOK
<1>7. buf[x].data = latest[c]
  BY <1>0, <1>1, <1>2, <1>4 DEF DInv, RequestOK, Coherent
<1>8. disk'[c] = latest[c] /\ \A b \in Block \ {c} : disk'[b] = disk[b]
  BY <1>4, <1>7 DEF IInv, TypeOK
<1>9. ASSUME NEW b \in Block PROVE Carried(b)
  <2>1. CASE b = c
    BY <1>4, <1>8, <2>1 DEF Carried
  <2>2. CASE b # c
    <3>1. \A y \in Buf : Fresh(y, b)' <=> Fresh(y, b)
      BY <1>4 DEF Fresh
    <3>2. ASSUME NEW y \in Buf, Queued(y, b) PROVE Queued(y, b)'
      <4>1. PICK q \in Pending(y) : request[q].cmd = "WRITE" /\ ~request[q].moved
        BY <3>2 DEF Queued
      <4>2. y # x
        BY <1>2, <2>2, <3>2 DEF Queued, Fresh
      <4>3. q \in Slot \ {s} /\ request[q] # NULL /\ request[q].buf = y
        BY <1>0, <4>2 DEF Pending
      <4>4. q \in Pending(y)' /\ request'[q].cmd = "WRITE" /\ ~request'[q].moved
        BY <1>6, <4>1, <4>3 DEF Pending
      <4> QED BY <3>1, <3>2, <4>4 DEF Queued
    <3>3. \A y \in Buf : Dirty(y, b) => Dirty(y, b)'
      BY <1>4, <3>1 DEF Dirty
    <3> QED BY <1>4, <1>8, <2>2, <3>2, <3>3 DEF Carried
  <2> QED BY <2>1, <2>2
<1>10. NoLostWrite'
  BY <1>9, CarriedIsKept DEF DInv
<1>11. DirtyOK' /\ Coherent'
  BY <1>4 DEF DInv, DirtyOK, Coherent
<1>12. RequestOK'
  <2>1. buf' = buf /\ buf[x].uptodate
    BY <1>0, <1>1, <1>4 DEF DInv, RequestOK
  <2> QED BY <1>5, <1>6, <2>1 DEF DInv, RequestOK
<1>13. ASSUME NEW u \in Task PROVE UseOK(u)' /\ WaitOK(u)' /\ SyncOK(u)'
  <2>1. UseOK(u) /\ WaitOK(u) /\ SyncOK(u)
    BY DEF DInv
  <2>2. UseOK(u)' /\ WaitOK(u)'
    BY <1>4, <2>1 DEF UseOK, WaitOK, op, bh
  <2>3. SyncOK(u)'
    BY <1>4, <1>9, <2>1, OtherSyncs
  <2> QED BY <2>2, <2>3
<1> QED BY <1>10, <1>11, <1>12, <1>13 DEF DInv

LEMMA EndRequestData ==
    ASSUME Careful, IInv, DInv, NEW s \in Slot, NEW ok \in BOOLEAN, EndRequest(s, ok)
    PROVE  DInv'
<1>0. PICK x \in Buf : x = request[s].buf
  BY Requested DEF EndRequest
<1>1. /\ request[s] \in Request /\ Pending(x) = {s} /\ buf[x].blocknr \in Block
      /\ request[s] # NULL /\ \A t \in Task : ~Waits(t, x)
  BY <1>0, Requested DEF EndRequest
<1>2. PICK c \in Block : c = buf[x].blocknr
  BY <1>1
<1> DEFINE w == request[s].cmd = "WRITE"
           v == IF ok /\ request[s].cmd = "READ" THEN disk[c] ELSE buf[x].data
<1>3. /\ request' = [request EXCEPT ![s] = NULL]
      /\ buf' = [buf EXCEPT ![x].uptodate = ok, ![x].lock = FALSE, ![x].data = v]
      /\ UNCHANGED <<disk, latest, nversion, cpu, pc, local>>
      /\ IF ok THEN request[s].cmd = "WRITE" => request[s].moved
               ELSE request[s].cmd \in Errors
  BY <1>0, <1>2 DEF EndRequest, data
<1>4. /\ buf \in [Buf -> BufHead] /\ request \in [Slot -> Request \cup {NULL}]
      /\ request[s].cmd \in {"READ", "WRITE"} /\ OneBufferPerBlock
  BY <1>1 DEF IInv, TypeOK, Request
<1>5. /\ request'[s] = NULL /\ \A q \in Slot \ {s} : request'[q] = request[q]
  BY <1>3, <1>4
<1>6. \A y \in Buf :
        /\ buf'[y].blocknr = buf[y].blocknr /\ buf'[y].dirt = buf[y].dirt
        /\ buf'[y].uptodate = IF y = x THEN ok ELSE buf[y].uptodate
        /\ buf'[y].data = IF y = x THEN v ELSE buf[y].data
  BY <1>3, <1>4 DEF BufHead
(* A write ends well after it has moved its sectors. *)
<1>7. w => /\ ok /\ request[s].moved /\ buf[x].uptodate
           /\ v = buf[x].data
  BY <1>0, <1>1, <1>3, <1>4 DEF Careful, DInv, RequestOK
<1>8. ~w => ~buf[x].uptodate /\ ~buf[x].dirt
  BY <1>0, <1>1, <1>4 DEF DInv, RequestOK, DirtyOK
<1>9. ~Queued(x, c)
  BY <1>1, <1>7 DEF Queued
<1>10. \A y \in Buf \ {x} : buf[y].blocknr # c
  BY <1>2, <1>4, NullAssumption DEF OneBufferPerBlock
(* What a read brings is what was written last. *)
<1>11. ~w => disk[c] = latest[c]
  <2>1. \A y \in Buf : ~Queued(y, c) /\ (~w => ~Dirty(y, c))
    BY <1>8, <1>9, <1>10 DEF Queued, Dirty, Fresh
  <2> QED BY <2>1, NoLostWriteForm DEF DInv
<1>12. ~w /\ ok => v = latest[c]
  BY <1>4, <1>11
<1> HIDE DEF v, w
<1>13. \A y \in Buf \ {x} : Pending(y)' = Pending(y)
  BY <1>0, <1>5 DEF Pending
<1>14. ASSUME NEW b \in Block PROVE Carried(b)
  <2>1. ASSUME NEW y \in Buf, Queued(y, b) PROVE Queued(y, b)'
    <3>1. y # x
      BY <1>2, <1>9, <2>1 DEF Queued, Fresh
    <3>2. Fresh(y, b)' <=> Fresh(y, b)
      BY <1>3, <1>6, <3>1 DEF Fresh
    <3>3. PICK q \in Pending(y) : request[q].cmd = "WRITE" /\ ~request[q].moved
      BY <2>1 DEF Queued
    <3>4. q \in Slot \ {s}
      BY <1>0, <3>1 DEF Pending
    <3>5. q \in Pending(y)' /\ request'[q].cmd = "WRITE" /\ ~request'[q].moved
      BY <1>5, <1>13, <3>1, <3>3, <3>4
    <3> QED BY <2>1, <3>2, <3>5 DEF Queued
  <2>2. ASSUME NEW y \in Buf, Dirty(y, b) PROVE Dirty(y, b)'
    <3>1. y = x => w
      BY <1>8, <2>2 DEF Dirty
    <3>2. buf'[y].data = buf[y].data
      BY <1>6, <1>7, <3>1
    <3> QED BY <1>3, <1>6, <2>2, <3>2 DEF Dirty, Fresh
  <2> QED BY <1>3, <2>1, <2>2 DEF Carried
<1>15. NoLostWrite'
  BY <1>14, CarriedIsKept DEF DInv
<1>16. DirtyOK'
  <2>1. buf[x].dirt => ok
    BY <1>7, <1>8
  <2> QED BY <1>6, <2>1 DEF DInv, DirtyOK
<1>17. Coherent'
  <2>1. ASSUME NEW y \in Buf, buf'[y].uptodate
        PROVE  buf'[y].data = latest'[buf'[y].blocknr]
    <3>1. CASE y = x
      <4>1. ok /\ buf'[y].data = v /\ buf'[y].blocknr = c
        BY <1>2, <1>6, <2>1, <3>1
      <4>2. w => buf[x].data = latest[c]
        BY <1>2, <1>7 DEF DInv, Coherent
      <4> QED BY <1>3, <1>7, <1>12, <4>1, <4>2
    <3>2. CASE y # x
      <4>1. buf[y].uptodate /\ buf'[y].data = buf[y].data
        BY <1>6, <2>1, <3>2
      <4>2. buf[y].data = latest[buf[y].blocknr]
        BY <4>1 DEF DInv, Coherent
      <4>3. buf'[y].blocknr = buf[y].blocknr /\ latest' = latest
        BY <1>3, <1>6
      <4> QED BY <4>1, <4>2, <4>3
    <3> QED BY <3>1, <3>2
  <2> QED BY <2>1 DEF Coherent
<1>18. RequestOK'
  <2>1. \A q \in Slot \ {s} : request[q] # NULL => request[q].buf \in Buf \ {x}
    BY <1>1, <1>4 DEF Pending, Request
  <2> QED BY <1>5, <1>6, <2>1 DEF DInv, RequestOK
<1>19. ASSUME NEW u \in Task PROVE UseOK(u)' /\ WaitOK(u)' /\ SyncOK(u)'
  <2>1. UseOK(u) /\ WaitOK(u) /\ SyncOK(u)
    BY DEF DInv
  <2>2. UseOK(u)'
    <3>1. CASE pc[u] \in {"use", "copy"}
      <4>1. bh(u) \in Buf /\ buf[bh(u)].uptodate
        BY <2>1, <3>1, UsesBuffer DEF UseOK
      <4>2. buf'[bh(u)].uptodate /\ buf'[bh(u)].dirt = buf[bh(u)].dirt
        BY <1>6, <1>7, <1>8, <4>1
      <4> QED BY <1>3, <2>1, <4>2 DEF UseOK, op, bh
    <3>2. CASE pc[u] \notin {"use", "copy"}
      BY <1>3, <3>2 DEF UseOK
    <3> QED BY <3>1, <3>2
  <2>3. WaitOK(u)'
    <3>1. CASE pc[u] = "reqwait"
      <4> DEFINE y == IF local[u].next = 0 THEN bh(u) ELSE local[u].next
      <4>1. y \in Buf /\ Waits(u, y)
        BY <3>1, WaitsFor
      <4>2. y # x
        BY <1>1, <4>1
      <4>3. buf'[y].uptodate = buf[y].uptodate
        BY <1>6, <4>1, <4>2
      <4> QED BY <1>3, <2>1, <3>1, <4>3 DEF WaitOK, bh
    <3>2. CASE pc[u] # "reqwait"
      BY <1>3, <3>2 DEF WaitOK
    <3> QED BY <3>1, <3>2
  <2>4. SyncOK(u)'
    BY <1>3, <1>14, <2>1, OtherSyncs
  <2> QED BY <2>2, <2>3, <2>4
<1> QED BY <1>15, <1>16, <1>17, <1>18, <1>19 DEF DInv

-----------------------------------------------------------------------------
LEMMA DInvInit == Init => DInv
<1> SUFFICES ASSUME Init PROVE DInv
  OBVIOUS
<1>1. \A x \in Buf : ~buf[x].dirt /\ ~buf[x].uptodate
  BY DEF Init
<1>2. DirtyOK /\ RequestOK /\ Coherent
  BY <1>1 DEF DirtyOK, RequestOK, Coherent, Init
<1>3. NoLostWrite
  BY DEF NoLostWrite, Init
<1>4. ASSUME NEW t \in Task PROVE UseOK(t) /\ WaitOK(t) /\ SyncOK(t)
  <2>1. pc[t] = "user" /\ local[t] = NoLocals
    BY DEF Init
  <2> QED BY <2>1, NullAssumption DEF UseOK, WaitOK, SyncOK, op, NoLocals
<1> QED BY <1>2, <1>3, <1>4 DEF DInv

LEMMA DInvInductive == Careful /\ IInv /\ DInv /\ [Next]_vars => DInv'
<1> SUFFICES ASSUME Careful, IInv, DInv, [Next]_vars PROVE DInv'
  OBVIOUS
<1>1. ASSUME NEW t \in Task, TaskStep(t) PROVE DInv'
  <2>1. CASE \E o \in Ops, b \in Block : Start(t, o, b)
    BY <2>1, StartData
  <2>2. CASE StartSync(t) \/ WaitOnBuffer(t)
    BY <2>2, StartSyncData, WaitOnBufferData
  <2>3. CASE GetBlock(t)
    BY <2>3, FindInHashData, RecheckHashData, ChooseVictimData,
      SleepForBufferData,
       VictimLostData, VictimDirtyData, TakeVictimData DEF GetBlock
  <2>4. CASE UseCached(t) \/ ReadBlock(t) \/ RetryRequest(t) \/ ReadDone(t)
    BY <2>4, UseCachedData, ReadBlockData, RetryRequestData, ReadDoneData
  <2>5. CASE (\E b \in Block : StartAhead(t, b)) \/ ReadAhead(t)
    BY <2>5, StartAheadData, ReadAheadData
  <2>6. CASE SyncBuffer(t) \/ SyncNext(t) \/ SyncDevDone(t) \/ SysSyncDone(t)
    BY <2>6, SyncBufferData, SyncNextData, SyncDevDoneData, SysSyncDoneData
  <2>7. CASE Read(t) \/ StartCopy(t) \/ PageFault(t) \/ Copy(t) \/ Brelse(t)
    BY <2>7, ReadData, StartCopyData, PageFaultData, CopyData, BrelseData
  <2> QED
    BY <1>1, <2>1, <2>2, <2>3, <2>4, <2>5, <2>6, <2>7 DEF TaskStep, KernelStep
<1>2. ASSUME NEW s \in Slot, DiskStep(s) PROVE DInv'
  BY <1>2, MoveOutData, EndRequestData DEF DiskStep
<1>3. CASE UNCHANGED vars
  BY <1>3 DEF vars, data, DInv, DirtyOK, RequestOK, Coherent, NoLostWrite,
        OnItsWay,
     Cached, Pending, UseOK, WaitOK, SyncOK, Queued, Dirty, Fresh, ToCome, op, bh
<1> QED BY <1>1, <1>2, <1>3 DEF Next

LEMMA DataInductive == ASSUME Careful PROVE Spec => [](IInv /\ DInv)
<1>1. Init => IInv /\ DInv
  BY IInvInit, DInvInit
<1>2. IInv /\ DInv /\ [Next]_vars => (IInv /\ DInv)'
  BY IInvInductive, DInvInductive
<1> QED BY <1>1, <1>2, PTL DEF Spec

(* A buffer with b_uptodate set holds what was written last, so that every *)
(* read returns it (bread, breada and getblk of fs/buffer.c).              *)
THEOREM CacheIsCoherent == ASSUME Careful PROVE Spec => []Coherent
<1>1. IInv /\ DInv => Coherent
  BY DEF DInv
<1> QED BY <1>1, DataInductive, PTL

(* What a write put in the cache is on the disk, or the cache still knows  *)
(* that it has to write it (getblk never takes a dirty buffer, end_request *)
(* and add_request clear b_dirt only for what will be moved).              *)
THEOREM NoWriteIsLost == ASSUME Careful PROVE Spec => []NoLostWrite
<1>1. IInv /\ DInv => NoLostWrite
  BY DEF DInv
<1> QED BY <1>1, DataInductive, PTL

(* When sys_sync returns, everything written before it was called is on    *)
(* the disk or in the request table, whatever other tasks did meanwhile.   *)
THEOREM SyncIsComplete == ASSUME Careful PROVE Spec => SyncComplete
<1> DEFINE Seen(t) == SysSyncDone(t) =>
                        \A b \in Block : latest[b] <= local[t].since =>
                            disk[b] = latest[b] \/ InTable(b)
<1>1. ASSUME IInv, DInv, NEW t \in Task PROVE Seen(t)
  <2> SUFFICES ASSUME SysSyncDone(t), NEW b \in Block, latest[b] <= local[t].since
               PROVE  disk[b] = latest[b] \/ InTable(b)
    OBVIOUS
  <2>1. op(t) = "sync" /\ pc[t] = "syncnext" /\ local[t].next = NBuf
    BY DEF SysSyncDone, LastPass, At
  <2>2. \A x \in Buf : ~ToCome(t, x)
    BY <2>1, CacheAssumption DEF ToCome, Buf
  <2>3. disk[b] = latest[b] \/ \E x \in Buf : Queued(x, b)
    <3>1. SyncOK(t)
      BY <1>1 DEF DInv
    <3> QED BY <2>1, <2>2, <3>1 DEF SyncOK
  <2>4. (\E x \in Buf : Queued(x, b)) => InTable(b)
    BY DEF Queued, Fresh, InTable, Cached, Pending
  <2> QED BY <2>3, <2>4
<1>2. IInv /\ DInv /\ [Next]_vars => [\A t \in Task : Seen(t)]_vars
  BY <1>1
<1>3. Spec => [][\A t \in Task : Seen(t)]_vars
  BY <1>2, DataInductive, PTL DEF Spec
<1> QED BY <1>3 DEF SyncComplete
=============================================================================
