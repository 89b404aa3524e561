----------------------------- MODULE BufferCache -----------------------------
(***************************************************************************)
(* The buffer cache of fs/buffer.c for one block device, with its callers  *)
(* file_read, file_write, block_read, block_write and sync, and the        *)
(* request table of kernel/blk_drv/ll_rw_blk.c.                            *)
(*                                                                         *)
(* The kernel is not preemptive: cpu holds the task that executes kernel   *)
(* code and is released only where the code sleeps.  The disk interrupt    *)
(* comes at any time.  sleep_on puts a task to sleep and wake_up makes the *)
(* sleepers of its channel runnable, which WaitQueue shows they amount to. *)
(***************************************************************************)
EXTENDS Naturals, FiniteSets, FiniteSetsExt

CONSTANTS
    Task,
    Block,      \* blocks of the device
    NULL,
    NBuf,       \* NR_BUFFERS
    NReq,       \* NR_REQUEST
    MaxVersion, \* bound on the number of writes
    Ops,        \* the operations tasks call
    Errors,     \* the commands that can fail, of READ and WRITE
    Faults      \* the operations in which get_fs_byte can meet a page fault

(* file_read and file_write use bread; block_read, and block_write for a   *)
(* part of a block, use breada; block_write of a whole block uses getblk.  *)
AheadOps == {"block_read", "part_write"}
WriteOps == {"file_write", "part_write", "block_write"}

ASSUME CacheAssumption ==
    /\ NBuf \in Nat \ {0} /\ NReq \in Nat \ {0} /\ MaxVersion \in Nat
    /\ Ops \subseteq {"file_read", "sync"} \cup AheadOps \cup WriteOps
    /\ Errors \subseteq {"READ", "WRITE"} /\ Faults \subseteq WriteOps
    /\ IsFiniteSet(Task)

Buf == 1..NBuf
Slot == 0..NReq - 1
Request == [buf : Buf, cmd : {"READ", "WRITE"}, moved : BOOLEAN]
First == [bh : Buf, block : Block]

ASSUME NullAssumption ==
    NULL \notin Task \cup Block \cup Nat \cup Request \cup First
                  \cup WriteOps \cup {"sync"}

Version == 0..MaxVersion

VARIABLES
    buf,        \* the buffer heads, with the version of the block in b_data
    request,    \* the request table: NULL (dev = -1) or a record
    disk,       \* the version of each block on the device
    latest,     \* history: the last version of each block a task wrote
    nversion,   \* history: number of writes so far
    cpu,        \* the task in kernel code that has the processor, or NULL
    pc,
    local,      \* the local variables of the functions a task is in
    asleep      \* tasks asleep: on buffer_wait if at "getblk", on
                \* wait_for_request if at "reqwait", else on a b_wait

vars == <<buf, request, disk, latest, nversion, cpu, pc, local, asleep>>
data == <<disk, latest, nversion>>

FreeSlots(rw) ==
    LET limit == IF rw = "READ" THEN NReq ELSE (NReq * 2) \div 3
    IN  {s \in Slot : s < limit /\ request[s] = NULL}

NoLocals ==
    [op |-> NULL, block |-> NULL, bh |-> NULL,
     first |-> NULL,    \* the buffer breada keeps while it reads ahead
     next |-> 0,        \* the buffer sync_dev or sys_sync has come to
     passes |-> 0,      \* loops over the buffers left to it
     since |-> 0]       \* history: nversion when sys_sync began

Init ==
    /\ buf = [x \in Buf |-> [blocknr |-> NULL, count |-> 0, dirt |-> FALSE,
                             uptodate |-> FALSE, lock |-> FALSE, data |-> 0]]
    /\ request = [s \in Slot |-> NULL]
    /\ disk = [b \in Block |-> 0]
    /\ latest = [b \in Block |-> 0]
    /\ nversion = 0
    /\ cpu = NULL
    /\ pc = [t \in Task |-> "user"]
    /\ local = [t \in Task |-> NoLocals]
    /\ asleep = {}

(* t executes, and goes on executing or gives up the processor. *)
At(t, l) == pc[t] = l /\ t \notin asleep /\ cpu \in {t, NULL}
Goto(t, l) == pc' = [pc EXCEPT ![t] = l] /\ cpu' = t /\ UNCHANGED asleep
Leave(t) == pc' = [pc EXCEPT ![t] = "user"] /\ cpu' = NULL
Sleep(t, l) ==
    pc' = [pc EXCEPT ![t] = l] /\ cpu' = NULL /\ asleep' = asleep \cup {t}

op(t) == local[t].op
bh(t) == local[t].bh

(* What find_buffer(dev, b) can return. *)
Cached(b) == {x \in Buf : buf[x].blocknr = b}

Badness(x) == (IF buf[x].dirt THEN 2 ELSE 0) + (IF buf[x].lock THEN 1 ELSE 0)

(* The buffers the scan of the free list in getblk can end with; the list  *)
(* is in any order.                                                        *)
Victims ==
    LET free == {x \in Buf : buf[x].count = 0}
    IN  {x \in free : \A y \in free : Badness(x) <= Badness(y)}

-----------------------------------------------------------------------------
(* System calls enter the kernel. *)

(* A write starts only if MaxVersion leaves room for it. *)
Room == nversion + Cardinality({t \in Task : op(t) \in WriteOps}) < MaxVersion

Start(t, o, b) ==
    /\ At(t, "user") /\ o # "sync"
    /\ o \in WriteOps => Room
    /\ local' = [local EXCEPT ![t].op = o, ![t].block = b]
    /\ Goto(t, "getblk")
    /\ UNCHANGED <<buf, request, data>>

StartSync(t) ==
    /\ At(t, "user") /\ "sync" \in Ops
    /\ local' = [local EXCEPT ![t].op = "sync", ![t].next = 1, ![t].passes = 1,
                              ![t].since = nversion]
    /\ Goto(t, "sync")
    /\ UNCHANGED <<buf, request, data>>

-----------------------------------------------------------------------------
(* wait_on_buffer, in the functions that call it *)

Awaited(t) == IF pc[t] = "sync" THEN local[t].next ELSE bh(t)
WaitPoints == {"hashwait", "victim", "readwait", "brelse", "sync"}
Unlocked(t, l) == At(t, l) /\ ~buf[Awaited(t)].lock

WaitOnBuffer(t) ==
    /\ pc[t] \in WaitPoints /\ At(t, pc[t])
    /\ buf[Awaited(t)].lock
    /\ Sleep(t, pc[t])
    /\ UNCHANGED <<buf, request, data, local>>

-----------------------------------------------------------------------------
(* getblk *)

(* get_hash_table finds the block: b_count++, then wait_on_buffer. *)
FindInHash(t) ==
    /\ At(t, "getblk")
    /\ \E x \in Cached(local[t].block) :
        /\ buf' = [buf EXCEPT ![x].count = @ + 1]
        /\ local' = [local EXCEPT ![t].bh = x]
    /\ Goto(t, "hashwait")
    /\ UNCHANGED <<request, data>>

(* get_hash_table after wait_on_buffer: is it still the same block? *)
RecheckHash(t) ==
    /\ Unlocked(t, "hashwait")
    /\ IF bh(t) \in Cached(local[t].block)
         THEN Goto(t, "have") /\ UNCHANGED buf
         ELSE Goto(t, "getblk") /\ buf' = [buf EXCEPT ![bh(t)].count = @ - 1]
    /\ UNCHANGED <<request, data, local>>

(* The block is not cached: choose the least bad buffer of the free list.  *)
ChooseVictim(t) ==
    /\ At(t, "getblk") /\ Cached(local[t].block) = {}
    /\ \E x \in Victims : local' = [local EXCEPT ![t].bh = x]
    /\ Goto(t, "victim")
    /\ UNCHANGED <<buf, request, data>>

(* All buffers are in use: sleep_on(&buffer_wait). *)
SleepForBuffer(t) ==
    /\ At(t, "getblk") /\ Cached(local[t].block) = {}
    /\ Victims = {}
    /\ Sleep(t, "getblk")
    /\ UNCHANGED <<buf, request, data, local>>

(* The victim is in use, or somebody added the block while we slept.       *)
VictimLost(t) ==
    LET x == bh(t) IN
    /\ Unlocked(t, "victim")
    /\ buf[x].count # 0 \/ (~buf[x].dirt /\ Cached(local[t].block) # {})
    /\ Goto(t, "getblk")
    /\ UNCHANGED <<buf, request, data, local>>

(* The victim is dirty: sync_dev, then look at it again. *)
VictimDirty(t) ==
    /\ Unlocked(t, "victim")
    /\ buf[bh(t)].count = 0 /\ buf[bh(t)].dirt
    /\ local' = [local EXCEPT ![t].next = 1, ![t].passes = 2]
    /\ Goto(t, "sync")
    /\ UNCHANGED <<buf, request, data>>

(* remove_from_queues and insert_into_queues: the buffer leaves the hash   *)
(* queue of its old block and enters that of b.                            *)
Requeued(heads, x, b) == [heads EXCEPT ![x].blocknr = b]

(* Mutants: getblk takes the victim without looking for the block again,   *)
(* or leaves b_uptodate as it was.                                         *)
Retarget(t, stale) ==
    /\ Unlocked(t, "victim") /\ buf[bh(t)].count = 0 /\ ~buf[bh(t)].dirt
    /\ buf' = [buf EXCEPT ![bh(t)].count = 1, ![bh(t)].uptodate = @ /\ stale,
                          ![bh(t)].blocknr = local[t].block]
    /\ Goto(t, "have")
    /\ UNCHANGED <<request, data, local>>
TakeTwice(t) == Retarget(t, FALSE)
TakeStale(t) == Cached(local[t].block) = {} /\ Retarget(t, TRUE)

(* The victim is "the only one of it's kind", unused, unlocked and clean.  *)
TakeVictim(t) ==
    LET x == bh(t)
        b == local[t].block
    IN
    /\ Unlocked(t, "victim")
    /\ buf[x].count = 0 /\ ~buf[x].dirt /\ Cached(b) = {}
    /\ buf' = Requeued([buf EXCEPT ![x].count = 1, ![x].uptodate = FALSE], x, b)
    /\ Goto(t, "have")
    /\ UNCHANGED <<request, data, local>>

-----------------------------------------------------------------------------
(* Mutant: make_request clears b_dirt before a free request is found. *)
SubmitEarly(t, x, rw, after) ==
    LET free == FreeSlots(rw) IN
    /\ buf' = [buf EXCEPT ![x].lock = TRUE, ![x].dirt = FALSE]
    /\ IF free = {}
         THEN Sleep(t, "reqwait") /\ UNCHANGED request
         ELSE /\ request' = [request EXCEPT ![Max(free)] =
                                [buf |-> x, cmd |-> rw, moved |-> FALSE]]
              /\ Goto(t, after)
    /\ UNCHANGED <<data, local>>

(* make_request for the buffer x: lock it, fill a free request, and let    *)
(* add_request clear b_dirt; or sleep on wait_for_request.                 *)
Submit(t, x, rw, after) ==
    LET free == FreeSlots(rw) IN
    /\ ~buf[x].lock \/ pc[t] = "reqwait"
    /\ IF free = {}
         THEN /\ buf' = [buf EXCEPT ![x].lock = TRUE]
              /\ Sleep(t, "reqwait")
              /\ UNCHANGED request
         ELSE /\ buf' = [buf EXCEPT ![x].lock = TRUE, ![x].dirt = FALSE]
              /\ request' = [request EXCEPT ![Max(free)] =
                                [buf |-> x, cmd |-> rw, moved |-> FALSE]]
              /\ Goto(t, after)
    /\ UNCHANGED <<data, local>>

AfterRead(t) == IF op(t) \in AheadOps THEN "ahead" ELSE "readwait"

(* getblk has returned and the data are there, or are not needed. *)
UseCached(t) ==
    /\ At(t, "have") /\ local[t].first = NULL
    /\ buf[bh(t)].uptodate \/ op(t) = "block_write"
    /\ Goto(t, IF op(t) \in AheadOps THEN "ahead" ELSE "use")
    /\ UNCHANGED <<buf, request, data, local>>

(* ll_rw_block(READ, bh).  getblk returns an unlocked buffer and nobody    *)
(* else has run since, so that lock_buffer does not sleep.                 *)
ReadBlock(t) ==
    /\ At(t, "have") /\ local[t].first = NULL
    /\ ~buf[bh(t)].uptodate /\ op(t) # "block_write"
    /\ Submit(t, bh(t), "READ", AfterRead(t))

(* make_request after sleep_on(&wait_for_request): goto repeat. *)
RetryRequest(t) ==
    /\ At(t, "reqwait")
    /\ IF local[t].next = 0
         THEN Submit(t, bh(t), "READ", AfterRead(t))
         ELSE Submit(t, local[t].next, "WRITE", "syncnext")

(* bread or breada after wait_on_buffer: NULL if the read failed. *)
ReadDone(t) ==
    /\ Unlocked(t, "readwait")
    /\ Goto(t, IF buf[bh(t)].uptodate THEN "use" ELSE "brelse")
    /\ UNCHANGED <<buf, request, data, local>>

(* breada: getblk for a block to read ahead. *)
StartAhead(t, b) ==
    /\ At(t, "ahead") /\ b # local[t].block
    /\ local' = [local EXCEPT ![t].first = [bh |-> bh(t), block |-> local[t].block],
                              ![t].block = b]
    /\ Goto(t, "getblk")
    /\ UNCHANGED <<buf, request, data>>

(* breada has the buffer tmp: ll_rw_block(READA, bh), which names bh and   *)
(* not tmp, and is forgotten if bh is locked or no request is free; then   *)
(* tmp->b_count--, without a wake_up.                                      *)
ReadAhead(t) ==
    LET tmp == bh(t)
        x == local[t].first.bh
        lessTmp == [buf EXCEPT ![tmp].count = @ - 1]
        free == FreeSlots("READ")
    IN
    /\ At(t, "have") /\ local[t].first # NULL
    /\ IF buf[tmp].uptodate \/ buf[x].lock \/ buf[x].uptodate \/ free = {}
         THEN buf' = lessTmp /\ UNCHANGED request
         ELSE /\ buf' = [lessTmp EXCEPT ![x].lock = TRUE, ![x].dirt = FALSE]
              /\ request' = [request EXCEPT ![Max(free)] =
                                [buf |-> x, cmd |-> "READ", moved |-> FALSE]]
    /\ local' = [local EXCEPT ![t].bh = x, ![t].block = local[t].first.block,
                              ![t].first = NULL]
    /\ Goto(t, "readwait")
    /\ UNCHANGED data

-----------------------------------------------------------------------------
(* sync_dev (twice over the buffers) and sys_sync (once) *)

(* Mutant: sync does not wait for locked buffers but skips them. *)
SyncSkipsLocked(t) ==
    LET x == local[t].next IN
    /\ At(t, "sync")
    /\ IF buf[x].dirt /\ ~buf[x].lock
         THEN Submit(t, x, "WRITE", "syncnext")
         ELSE Goto(t, "syncnext") /\ UNCHANGED <<buf, request, data, local>>

SyncBuffer(t) ==
    LET x == local[t].next IN
    /\ Unlocked(t, "sync")
    /\ IF buf[x].dirt
         THEN Submit(t, x, "WRITE", "syncnext")
         ELSE Goto(t, "syncnext") /\ UNCHANGED <<buf, request, data, local>>

SyncNext(t) ==
    /\ At(t, "syncnext")
    /\ local[t].next < NBuf \/ local[t].passes > 1
    /\ local' = IF local[t].next < NBuf
                  THEN [local EXCEPT ![t].next = @ + 1]
                  ELSE [local EXCEPT ![t].next = 1, ![t].passes = @ - 1]
    /\ Goto(t, "sync")
    /\ UNCHANGED <<buf, request, data>>

LastPass(t) == At(t, "syncnext") /\ local[t].next = NBuf /\ local[t].passes = 1

(* sync_dev returns to getblk. *)
SyncDevDone(t) ==
    /\ LastPass(t) /\ op(t) # "sync"
    /\ local' = [local EXCEPT ![t].next = 0, ![t].passes = 0]
    /\ Goto(t, "victim")
    /\ UNCHANGED <<buf, request, data>>

SysSyncDone(t) ==
    /\ LastPass(t) /\ op(t) = "sync"
    /\ local' = [local EXCEPT ![t] = NoLocals]
    /\ Leave(t)
    /\ UNCHANGED <<buf, request, data, asleep>>

-----------------------------------------------------------------------------
(* The callers use the data, then brelse. *)

Read(t) ==
    /\ At(t, "use") /\ op(t) \notin WriteOps
    /\ Goto(t, "brelse")
    /\ UNCHANGED <<buf, request, data, local>>

(* file_write sets b_dirt before it copies, block_write afterwards. *)
DirtyFirst(o) == o = "file_write"

StartCopy(t) ==
    /\ At(t, "use") /\ op(t) \in WriteOps
    /\ buf' = [buf EXCEPT ![bh(t)].dirt = @ \/ DirtyFirst(op(t))]
    /\ Goto(t, "copy")
    /\ UNCHANGED <<request, data, local>>

(* get_fs_byte(buf) touches a page that is not present: others run. *)
PageFault(t) ==
    /\ op(t) \in Faults /\ At(t, "copy") /\ cpu = t
    /\ cpu' = NULL
    /\ UNCHANGED <<buf, request, data, pc, local, asleep>>

(* The data are in the buffer, and b_dirt is set, if it was not before. *)
Copied(t, v) == [buf EXCEPT ![bh(t)].data = v, ![bh(t)].dirt = @ \/ ~DirtyFirst(op(t))]

Copy(t) ==
    LET v == nversion + 1 IN
    /\ At(t, "copy")
    /\ nversion' = v
    /\ buf' = Copied(t, v)
    /\ latest' = [latest EXCEPT ![local[t].block] = v]
    /\ Goto(t, "brelse")
    /\ UNCHANGED <<request, disk, local>>

(* Mutant: brelse without wake_up(&buffer_wait). *)
BrelseSilently(t) ==
    /\ Unlocked(t, "brelse")
    /\ buf' = [buf EXCEPT ![bh(t)].count = @ - 1]
    /\ local' = [local EXCEPT ![t] = NoLocals]
    /\ Leave(t)
    /\ UNCHANGED <<request, data, asleep>>

(* brelse, wake_up(&buffer_wait), and the return from the system call. *)
Brelse(t) ==
    /\ Unlocked(t, "brelse")
    /\ buf' = [buf EXCEPT ![bh(t)].count = @ - 1]
    /\ asleep' = {u \in asleep : pc[u] # "getblk"}
    /\ local' = [local EXCEPT ![t] = NoLocals]
    /\ Leave(t)
    /\ UNCHANGED <<request, data>>

-----------------------------------------------------------------------------
(* The disk serves the requests in some order. *)

(* The sectors of a write are moved to the disk. *)
MoveOut(s) ==
    /\ request[s] # NULL
    /\ request[s].cmd = "WRITE" /\ ~request[s].moved
    /\ disk' = [disk EXCEPT ![buf[request[s].buf].blocknr] = buf[request[s].buf].data]
    /\ request' = [request EXCEPT ![s].moved = TRUE]
    /\ UNCHANGED <<buf, latest, nversion, cpu, pc, local, asleep>>

(* end_request(ok): b_uptodate = ok, unlock the buffer and wake those that *)
(* wait for it, free the request and wake those that wait for one.         *)
EndRequest(s, ok) ==
    /\ request[s] # NULL
    /\ LET x == request[s].buf IN
        /\ IF ok THEN request[s].cmd = "WRITE" => request[s].moved
                 ELSE request[s].cmd \in Errors
        /\ buf' = [buf EXCEPT ![x].uptodate = ok, ![x].lock = FALSE,
                              ![x].data = IF ok /\ request[s].cmd = "READ"
                                            THEN disk[buf[x].blocknr] ELSE @]
        /\ asleep' = {t \in asleep : /\ pc[t] # "reqwait"
                                     /\ pc[t] \in WaitPoints => Awaited(t) # x}
    /\ request' = [request EXCEPT ![s] = NULL]
    /\ UNCHANGED <<data, cpu, pc, local>>

-----------------------------------------------------------------------------
GetBlock(t) ==
    \/ FindInHash(t) \/ RecheckHash(t) \/ ChooseVictim(t) \/ SleepForBuffer(t)
    \/ VictimLost(t) \/ VictimDirty(t) \/ TakeVictim(t)

KernelStep(t) ==
    \/ WaitOnBuffer(t) \/ GetBlock(t)
    \/ UseCached(t) \/ ReadBlock(t) \/ RetryRequest(t) \/ ReadDone(t)
    \/ (\E b \in Block : StartAhead(t, b)) \/ ReadAhead(t)
    \/ SyncBuffer(t) \/ SyncNext(t) \/ SyncDevDone(t) \/ SysSyncDone(t)
    \/ Read(t) \/ StartCopy(t) \/ PageFault(t) \/ Copy(t) \/ Brelse(t)

TaskStep(t) ==
    \/ \E o \in Ops, b \in Block : Start(t, o, b)
    \/ StartSync(t)
    \/ KernelStep(t)

DiskStep(s) == MoveOut(s) \/ \E ok \in BOOLEAN : EndRequest(s, ok)

Next ==
    \/ \E t \in Task : TaskStep(t)
    \/ \E s \in Slot : DiskStep(s)

Spec == Init /\ [][Next]_vars

(* The scheduler lets every runnable task run, and the disk answers.       *)
FairSpec ==
    /\ Spec
    /\ \A t \in Task : SF_vars(KernelStep(t))
    /\ \A s \in Slot : WF_vars(DiskStep(s))

-----------------------------------------------------------------------------
BufHead ==
    [blocknr : Block \cup {NULL}, count : Nat, dirt : BOOLEAN, uptodate : BOOLEAN,
     lock : BOOLEAN, data : Version]
Locals ==
    [op : Ops \cup {NULL}, block : Block \cup {NULL}, bh : Buf \cup {NULL},
     first : First \cup {NULL}, next : 0..NBuf,
     passes : 0..2, since : Version]
Points == {"user", "getblk", "have", "ahead", "reqwait", "syncnext", "use",
           "copy"} \cup WaitPoints

(* Types; the version counter stays within its bound (buffer.c, fs.h:72).  *)
TypeOK ==
    /\ buf \in [Buf -> BufHead]
    /\ request \in [Slot -> Request \cup {NULL}]
    /\ disk \in [Block -> Version] /\ latest \in [Block -> Version]
    /\ nversion \in Version
    /\ cpu \in Task \cup {NULL}
    /\ pc \in [Task -> Points]
    /\ local \in [Task -> Locals]
    /\ asleep \subseteq Task

Pending(x) == {s \in Slot : request[s] # NULL /\ request[s].buf = x}

(* buffer.c:280: "this buffer is the only one of it's kind", whatever      *)
(* happened while getblk slept.                                            *)
OneBufferPerBlock ==
    \A x, y \in Buf :
        buf[x].blocknr = buf[y].blocknr /\ buf[x].blocknr # NULL => x = y

(* References to the buffer x on the kernel stacks of tasks: the task got  *)
(* it from getblk and has not released it.                                 *)
Holding(t) ==
    (IF pc[t] \in {"hashwait", "have", "ahead", "readwait", "use", "copy", "brelse"}
        \/ (pc[t] = "reqwait" /\ local[t].next = 0) THEN {bh(t)} ELSE {})
Holders(x) == {t \in Task : x \in Holding(t)}
FirstHolders(x) ==
    {t \in Task : local[t].first # NULL /\ local[t].first.bh = x}

(* b_count (fs.h:80: users using this block) is the number of references   *)
(* tasks have: getblk, get_hash_table, breada and brelse agree on it on    *)
(* all paths, and "Trying to free free buffer" (brelse) is never printed.  *)
CountIsHolders ==
    \A x \in Buf :
        buf[x].count = Cardinality(Holders(x)) + Cardinality(FirstHolders(x))

(* A buffer is locked exactly while one request is in the table for it, or *)
(* one task waits for a request for it: the device never works on a        *)
(* buffer anybody else can lock, and no lock is forgotten.                 *)
LockOwner ==
    \A x \in Buf :
        Cardinality(Pending(x)) + Cardinality({t \in Task :
            pc[t] = "reqwait" /\ x = IF local[t].next = 0 THEN bh(t) ELSE local[t].next})
          = IF buf[x].lock THEN 1 ELSE 0

(* What the handlers of the cache rely on and do not check again. *)
CacheInv == TypeOK /\ OneBufferPerBlock /\ CountIsHolders /\ LockOwner

(* A buffer with b_uptodate set holds what was written last.               *)
Coherent ==
    \A x \in Buf : buf[x].uptodate => buf[x].data = latest[buf[x].blocknr]

OnItsWay(b) ==
    \E x \in Cached(b) :
        /\ buf[x].data = latest[b]
        /\ buf[x].dirt \/ \E s \in Pending(x) :
                              request[s].cmd = "WRITE" /\ ~request[s].moved

(* block_dev.c:23-24, file_dev.c:58: what a write put in the cache is on   *)
(* the device, or the cache still knows that it has to write it.           *)
NoLostWrite == \A b \in Block : disk[b] = latest[b] \/ OnItsWay(b)

(* sync puts everything that was written before it was called on the disk  *)
(* or in the request table before it returns.                              *)
InTable(b) ==
    \E x \in Cached(b), s \in Slot :
        s \in Pending(x) /\ request[s].cmd = "WRITE" /\ buf[x].data = latest[b]
SyncComplete ==
    [][\A t \in Task : SysSyncDone(t) =>
          \A b \in Block : latest[b] <= local[t].since =>
              disk[b] = latest[b] \/ InTable(b)]_vars

(* From some point on no system call is made. *)
NoNewCalls == <>[][\A t \in Task : pc[t] = "user" => pc'[t] = "user"]_vars

(* Calls in progress never wait for each other for ever, nor repeat for    *)
(* ever: when no new ones come, all of them return.                        *)
CallsReturn == NoNewCalls => \A t \in Task : (pc[t] # "user") ~> (pc[t] = "user")
=============================================================================
