------------------------------- MODULE Inodes -------------------------------
(***************************************************************************)
(* The table of inodes in memory (fs/inode.c), the bitmaps of blocks and   *)
(* inodes (fs/bitmap.c), truncation (fs/truncate.c), and super blocks with *)
(* mounting (fs/super.c): the root file system and a second device that is *)
(* mounted on one directory and unmounted again.                           *)
(*                                                                         *)
(* The kernel is not preemptive: cpu holds the task that executes kernel   *)
(* code, and is given up only where the code can sleep: in wait_on_inode,  *)
(* and wherever a buffer is asked for (bread, getblk, get_hash_table).     *)
(***************************************************************************)
EXTENDS Naturals, FiniteSets

CONSTANTS
    Task, Admin,   \* the tasks; those that call sync and umount
    File,              \* inodes of regular files of the root file system
    Dir, MountRoot,    \* directories of it; the root inode of the other device
    Last,              \* the inode written by index -1 of a block of inodes
    Slot,              \* inode_table; its order matters nowhere
    Block,             \* data blocks
    NULL,
    Races      \* which of the races below the runs may meet

Id == File \cup Dir \cup {MountRoot}

ASSUME InodesAssumption ==
    /\ Admin \subseteq Task /\ Last \in Id
    /\ IsFiniteSet(Task) /\ File \cap Dir = {} /\ MountRoot \notin File \cup Dir
    /\ NULL \notin Task \cup Id \cup Slot \cup Block \cup {"trunc", "free", "umount"}
    /\ Races \subseteq {"sync_truncate",   \* sync comes to an inode iput truncates
                       "unlink_lookup",   \* a name goes while it is looked up
                       "umount_lookup"}   \* so does the mounted device

VARIABLES
    inode,      \* inode_table
    dinode,     \* the inodes on the device, or in its buffers
    imap, zmap, \* the inodes and the blocks whose bit is set
    stuck,      \* blocks whose buffer free_block has left counted
    names,      \* the inodes some directory entry names
    super,      \* the super block of the second device
    cpu, pc, local

vars == <<inode, dinode, imap, zmap, stuck, names, super, cpu, pc, local>>
maps == <<imap, zmap, stuck>>

Data(links) == [nlinks |-> links, zone |-> NULL]
Empty == [id |-> NULL, count |-> 0, dirt |-> FALSE, lock |-> FALSE,
          mount |-> FALSE, data |-> Data(0)]
NoLocals == [slot |-> NULL, empty |-> NULL, id |-> NULL, block |-> NULL,
             todo |-> {}, op |-> NULL]

Init ==
    /\ inode = [s \in Slot |-> Empty]
    /\ dinode = [i \in Id |-> IF i \in File THEN Data(0) ELSE Data(1)]
    /\ imap = Dir \cup {MountRoot} /\ zmap = {} /\ stuck = {}
    /\ names = Dir
    /\ super = [dev |-> FALSE, lock |-> FALSE, imount |-> NULL]
    /\ cpu = NULL
    /\ pc = [t \in Task |-> "user"]
    /\ local = [t \in Task |-> NoLocals]

At(t, l) == pc[t] = l /\ cpu \in {t, NULL}
Goto(t, l) == pc' = [pc EXCEPT ![t] = l] /\ cpu' = t
(* t goes on at l after it has been asleep, or others have been running. *)
Sleep(t, l) == pc' = [pc EXCEPT ![t] = l] /\ cpu' = NULL
Return(t) == Sleep(t, "user") /\ local' = [local EXCEPT ![t] = NoLocals]

slot(t) == local[t].slot
held(t) == inode[slot(t)]
Free == {s \in Slot : inode[s].count = 0}
Cached(i) == {s \in Slot : inode[s].id = i}

-----------------------------------------------------------------------------
(* get_empty_inode, iget, read_inode *)

(* get_empty_inode: a free slot, emptied.  Free slots are never dirty nor  *)
(* locked (FreeIsClean), so that it never writes one back.                 *)
Take(t, s) ==
    /\ inode' = [inode EXCEPT ![s] = [Empty EXCEPT !.count = 1]]
    /\ local' = [local EXCEPT ![t].empty = s]

(* A directory entry has been read; brelse and iput of the directory may   *)
(* sleep before iget.                                                      *)
Lookup(t, i) ==
    /\ At(t, "user") /\ i \in names
    /\ local' = [local EXCEPT ![t].id = i]
    /\ Sleep(t, "iget")
    /\ UNCHANGED <<inode, dinode, maps, names, super>>

Iget(t, s) ==
    /\ At(t, "iget") /\ s \in Free
    /\ Take(t, s)
    /\ Goto(t, "scan")
    /\ UNCHANGED <<dinode, maps, names, super>>

(* wait_on_inode, which every call sleeps in while the inode is locked. *)
Awaited(t) ==
    IF pc[t] = "scan" THEN Cached(local[t].id)
    ELSE IF pc[t] = "iput" THEN {slot(t)} ELSE {}
WaitOnInode(t) ==
    /\ cpu = t /\ \E s \in Awaited(t) : inode[s].lock
    /\ Sleep(t, pc[t])
    /\ UNCHANGED <<inode, dinode, maps, names, super, local>>

(* The inode is in the table: i_count++ and iput(empty).                   *)
Hit(t, s) ==
    /\ At(t, "scan") /\ s \in Cached(local[t].id)
    /\ ~inode[s].lock /\ ~inode[s].mount
    /\ inode' = [inode EXCEPT ![s].count = @ + 1, ![local[t].empty].count = @ - 1]
    /\ local' = [local EXCEPT ![t].slot = s, ![t].empty = NULL]
    /\ Sleep(t, "use")
    /\ UNCHANGED <<dinode, maps, names, super>>

(* It is a mount point: iput it again, which leaves the count of the mount *)
(* and does not sleep, and look for the root of the other device.          *)
Redirect(t) ==
    /\ At(t, "scan")
    /\ \E s \in Cached(local[t].id) : ~inode[s].lock /\ inode[s].mount
    /\ local' = [local EXCEPT ![t].id = MountRoot]
    /\ Goto(t, "scan")
    /\ UNCHANGED <<inode, dinode, maps, names, super>>

(* Mutant: iget does not look through the table before it reads.           *)
MissAlways(t) ==
    /\ At(t, "scan")
    /\ inode' = [inode EXCEPT ![local[t].empty].id = local[t].id,
                              ![local[t].empty].lock = TRUE]
    /\ local' = [local EXCEPT ![t].slot = local[t].empty, ![t].empty = NULL]
    /\ Sleep(t, "read")
    /\ UNCHANGED <<dinode, maps, names, super>>

(* It is not in the table: read it into the empty slot. *)
Miss(t) ==
    /\ At(t, "scan") /\ Cached(local[t].id) = {}
    /\ inode' = [inode EXCEPT ![local[t].empty].id = local[t].id,
                              ![local[t].empty].lock = TRUE]
    /\ local' = [local EXCEPT ![t].slot = local[t].empty, ![t].empty = NULL]
    /\ Sleep(t, "read")
    /\ UNCHANGED <<dinode, maps, names, super>>

(* read_inode after bread. *)
ReadInode(t) ==
    /\ At(t, "read")
    /\ inode' = [inode EXCEPT ![slot(t)].data = dinode[local[t].id],
                              ![slot(t)].lock = FALSE]
    /\ Sleep(t, "use")
    /\ UNCHANGED <<dinode, maps, names, super, local>>

-----------------------------------------------------------------------------
(* What the holder of an inode does with it *)

InUse(t, ids) == At(t, "use") /\ held(t).id \in ids
Change(t, data) ==
    inode' = [inode EXCEPT ![slot(t)].data = data, ![slot(t)].dirt = TRUE]

(* Mutant: new_block sets the bit after getblk has slept.                  *)
NewBlockLate(t, b) ==
    /\ InUse(t, File) /\ held(t).data.zone = NULL /\ b \notin zmap
    /\ local' = [local EXCEPT ![t].block = b]
    /\ Sleep(t, "newblock")
    /\ UNCHANGED <<inode, dinode, maps, names, super>>

(* create_block for a block that is missing: new_block takes the first     *)
(* zero bit, here any, and sleeps in getblk.                               *)
NewBlock(t, b) ==
    /\ InUse(t, File) /\ held(t).data.zone = NULL
    /\ b \notin zmap
    /\ zmap' = zmap \cup {b}
    /\ local' = [local EXCEPT ![t].block = b]
    /\ Sleep(t, "newblock")
    /\ UNCHANGED <<inode, dinode, imap, stuck, names, super>>

(* Two tasks that extend one file get two blocks, and one of them is lost. *)
BlockMade(t) ==
    /\ At(t, "newblock")
    /\ Change(t, [held(t).data EXCEPT !.zone = local[t].block])
    /\ local' = [local EXCEPT ![t].block = NULL]
    /\ Sleep(t, "use")
    /\ UNCHANGED <<dinode, maps, names, super>>

(* O_TRUNC *)
StartTruncate(t) ==
    /\ InUse(t, File)
    /\ local' = [local EXCEPT ![t].op = "trunc", ![t].block = held(t).data.zone]
    /\ Sleep(t, "truncate")
    /\ UNCHANGED <<inode, dinode, maps, names, super>>

(* Nobody looks for inode i, or the race is let happen. *)
Undisturbed(i, race) ==
    race \in Races \/ \A u \in Task : local[u].id = i => pc[u] \notin {"iget", "scan"}

(* sys_unlink: the entry goes, and the link. *)
Unlink(t) ==
    /\ InUse(t, File \cap names)
    /\ Undisturbed(held(t).id, "unlink_lookup")
    /\ names' = names \ {held(t).id}
    /\ Change(t, [held(t).data EXCEPT !.nlinks = 0])
    /\ Goto(t, "iput")
    /\ UNCHANGED <<dinode, maps, super, local>>

(* new_inode: a free slot and the first zero bit of the map, here any.     *)
NewInode(t, s, i) ==
    /\ At(t, "user") /\ s \in Free /\ i \in File \ imap
    /\ imap' = imap \cup {i}
    /\ inode' = [inode EXCEPT ![s] =
          [Empty EXCEPT !.id = i, !.count = 1, !.dirt = TRUE, !.data = Data(1)]]
    /\ local' = [local EXCEPT ![t].slot = s, ![t].id = i]
    /\ Sleep(t, "entry")
    /\ UNCHANGED <<dinode, zmap, stuck, names, super>>

(* add_entry has slept, and put the name in the directory or failed. *)
AddEntry(t, ok) ==
    /\ At(t, "entry")
    /\ IF ok
         THEN names' = names \cup {local[t].id} /\ Sleep(t, "use") /\ UNCHANGED inode
         ELSE /\ inode' = [inode EXCEPT ![slot(t)].data.nlinks = 0]
              /\ Goto(t, "iput") /\ UNCHANGED names
    /\ UNCHANGED <<dinode, maps, super, local>>

Close(t) ==
    /\ At(t, "use")
    /\ Goto(t, "iput")
    /\ UNCHANGED <<inode, dinode, maps, names, super, local>>

-----------------------------------------------------------------------------
(* iput, write_inode, sync_inodes *)

Iput(t) == At(t, "iput") /\ ~held(t).lock

AfterIput(t) ==
    IF local[t].op = "umount"
      THEN Goto(t, "umounted") /\ UNCHANGED local
      ELSE Return(t)

(* Others hold it, or it is clean: i_count--. *)
Drop(t) ==
    /\ Iput(t)
    /\ held(t).count > 1 \/ (held(t).data.nlinks > 0 /\ ~held(t).dirt)
    /\ inode' = [inode EXCEPT ![slot(t)].count = @ - 1]
    /\ AfterIput(t)
    /\ UNCHANGED <<dinode, maps, names, super>>

(* Mutant: iput gives a dirty inode up without writing it.                 *)
DropDirty(t) ==
    /\ Iput(t) /\ held(t).count = 1 /\ held(t).data.nlinks > 0 /\ held(t).dirt
    /\ inode' = [inode EXCEPT ![slot(t)].count = 0, ![slot(t)].dirt = FALSE]
    /\ AfterIput(t)
    /\ UNCHANGED <<dinode, maps, names, super>>

(* No links: truncate, which can sleep, then free_inode. *)
DropLast(t) ==
    /\ Iput(t) /\ held(t).count = 1 /\ held(t).data.nlinks = 0
    /\ local' = [local EXCEPT ![t].op = "free", ![t].block = held(t).data.zone]
    /\ Sleep(t, "truncate")
    /\ UNCHANGED <<inode, dinode, maps, names, super>>

Write(t, s, l) ==
    /\ inode' = [inode EXCEPT ![s].lock = TRUE]
    /\ local' = [local EXCEPT ![t].slot = s, ![t].id = inode[s].id]
    /\ Sleep(t, l)
    /\ UNCHANGED <<dinode, maps, names, super>>

(* Dirty: write_inode, and look at it again. *)
DropWriting(t) ==
    /\ Iput(t) /\ held(t).count = 1 /\ held(t).data.nlinks > 0 /\ held(t).dirt
    /\ Write(t, slot(t), "write")

(* write_inode after bread.  The block has been computed before, the index *)
(* in it is computed now.                                                  *)
WriteInode(t) ==
    LET index == IF held(t).id = NULL THEN Last ELSE held(t).id IN
    /\ At(t, "write") \/ At(t, "syncwrite")
    /\ dinode' = [dinode EXCEPT ![index] = held(t).data]
    /\ inode' = [inode EXCEPT ![slot(t)].dirt = FALSE, ![slot(t)].lock = FALSE]
    /\ IF pc[t] = "write" THEN Goto(t, "iput") ELSE Sleep(t, "sync")
    /\ UNCHANGED <<maps, names, super, local>>

(* Is the buffer of block b held by a task asleep in truncate, other than  *)
(* t, or left counted by an earlier free_block?                            *)
Counted(t, b) ==
    b \in stuck \/ \E u \in Task \ {t} : pc[u] = "truncate" /\ local[u].block = b

(* free_block does nothing if somebody else holds the buffer, and leaves   *)
(* it counted; truncate forgets the block all the same.                    *)
FreeBlock(t) ==
    LET b == local[t].block IN
    IF b = NULL THEN UNCHANGED <<zmap, stuck>>
    ELSE IF Counted(t, b) THEN stuck' = stuck \cup {b} /\ UNCHANGED zmap
    ELSE zmap' = zmap \ {b} /\ UNCHANGED stuck

(* free_inode: the bit in the bitmap, and the slot.                        *)
FreeInode(t) ==
    /\ imap' = imap \ {held(t).id}
    /\ inode' = [inode EXCEPT ![slot(t)] = Empty]

(* The end of truncate; then open goes on, or free_inode empties the slot. *)
Truncated(t) ==
    /\ At(t, "truncate")
    /\ FreeBlock(t)
    /\ IF local[t].op = "free"
         THEN FreeInode(t) /\ Return(t)
         ELSE /\ Change(t, [held(t).data EXCEPT !.zone = NULL])
              /\ local' = [local EXCEPT ![t].op = NULL, ![t].block = NULL]
              /\ Sleep(t, "use") /\ UNCHANGED imap
    /\ UNCHANGED <<dinode, names, super>>

StartSync(t) ==
    /\ t \in Admin /\ At(t, "user")
    /\ local' = [local EXCEPT ![t].todo = Slot]
    /\ Sleep(t, "sync")
    /\ UNCHANGED <<inode, dinode, maps, names, super>>

Truncating(s) == \E u \in Task : pc[u] = "truncate" /\ slot(u) = s /\ local[u].op = "free"

SyncInode(t, s) ==
    /\ At(t, "sync") /\ s \in local[t].todo
    /\ ~inode[s].lock /\ ("sync_truncate" \in Races \/ ~Truncating(s))
    /\ IF inode[s].dirt
         THEN /\ inode' = [inode EXCEPT ![s].lock = TRUE]
              /\ local' = [local EXCEPT ![t].slot = s, ![t].todo = @ \ {s}]
              /\ Sleep(t, "syncwrite")
         ELSE /\ local' = [local EXCEPT ![t].todo = @ \ {s}]
              /\ Sleep(t, "sync") /\ UNCHANGED inode
    /\ UNCHANGED <<dinode, maps, names, super>>

SyncDone(t) ==
    /\ At(t, "sync") /\ local[t].todo = {}
    /\ Return(t)
    /\ UNCHANGED <<inode, dinode, maps, names, super>>

-----------------------------------------------------------------------------
(* sys_mount and sys_umount, read_super and put_super *)

(* sys_mount after read_super has returned the super block. *)
SetMount(t) ==
    IF super.imount # NULL \/ held(t).mount
      THEN Goto(t, "iput") /\ super' = [super EXCEPT !.lock = FALSE] /\ UNCHANGED <<inode, local>>
      ELSE /\ super' = [super EXCEPT !.imount = slot(t), !.lock = FALSE]
           /\ inode' = [inode EXCEPT ![slot(t)].mount = TRUE, ![slot(t)].dirt = TRUE]
           /\ Return(t)

(* namei has returned the directory, which nobody else may hold. *)
StartMount(t) ==
    /\ InUse(t, Dir)
    /\ Goto(t, IF held(t).count = 1 THEN "get_super" ELSE "iput")
    /\ UNCHANGED <<inode, dinode, maps, names, super, local>>

(* get_super: another task reads the same super block. *)
WaitOnSuper(t) ==
    /\ cpu = t /\ pc[t] = "get_super" /\ super.lock
    /\ Sleep(t, "get_super")
    /\ UNCHANGED <<inode, dinode, maps, names, super, local>>

GetSuper(t) ==
    /\ At(t, "get_super") /\ super.dev /\ ~super.lock
    /\ SetMount(t)
    /\ UNCHANGED <<dinode, maps, names>>

(* read_super: lock an empty super block and read it. *)
ReadSuper(t) ==
    /\ At(t, "get_super") /\ ~super.dev
    /\ super' = [dev |-> TRUE, lock |-> TRUE, imount |-> NULL]
    /\ Sleep(t, "super")
    /\ UNCHANGED <<inode, dinode, maps, names, local>>

(* The end of read_super, which gives the super block up if it cannot be   *)
(* read or is none.                                                        *)
SuperRead(t, ok) ==
    /\ At(t, "super")
    /\ IF ok THEN SetMount(t)
             ELSE /\ super' = [dev |-> FALSE, lock |-> FALSE, imount |-> NULL]
                  /\ Goto(t, "iput") /\ UNCHANGED <<inode, local>>
    /\ UNCHANGED <<dinode, maps, names>>

Busy == \E s \in Slot : inode[s].id = MountRoot /\ inode[s].count > 0
Mounted ==
    /\ super.dev /\ ~super.lock /\ super.imount # NULL
    /\ Undisturbed(MountRoot, "umount_lookup")

(* Mutant: umount does not look for inodes in use.                         *)
UmountBusy(t) ==
    /\ t \in Admin /\ At(t, "user") /\ Mounted
    /\ inode' = [inode EXCEPT ![super.imount].mount = FALSE]
    /\ local' = [local EXCEPT ![t].slot = super.imount, ![t].id = inode[super.imount].id,
                              ![t].op = "umount"]
    /\ Goto(t, "iput")
    /\ UNCHANGED <<dinode, maps, names, super>>

(* sys_umount, unless an inode of the device is in use.                    *)
Umount(t) ==
    /\ t \in Admin /\ At(t, "user") /\ Mounted /\ ~Busy
    /\ inode' = [inode EXCEPT ![super.imount].mount = FALSE]
    /\ local' = [local EXCEPT ![t].slot = super.imount, ![t].id = inode[super.imount].id,
                              ![t].op = "umount"]
    /\ Goto(t, "iput")
    /\ UNCHANGED <<dinode, maps, names, super>>

(* put_super, once s_imount is NULL: the device is not the root's. *)
PutSuper == super' = [dev |-> FALSE, lock |-> FALSE, imount |-> NULL]

(* iput of the directory has returned: s_imount = NULL and put_super.      *)
Umounted(t) ==
    /\ At(t, "umounted")
    /\ PutSuper
    /\ Return(t)
    /\ UNCHANGED <<inode, dinode, maps, names>>

-----------------------------------------------------------------------------
Step(t) ==
    \/ \E i \in Id : Lookup(t, i)
    \/ \E s \in Slot : Iget(t, s) \/ Hit(t, s) \/ SyncInode(t, s)
    \/ WaitOnInode(t) \/ Redirect(t) \/ Miss(t) \/ ReadInode(t)
    \/ \E b \in Block : NewBlock(t, b)
    \/ BlockMade(t) \/ StartTruncate(t) \/ Unlink(t) \/ Close(t)
    \/ \E s \in Slot, i \in File : NewInode(t, s, i)
    \/ \E ok \in BOOLEAN : AddEntry(t, ok) \/ SuperRead(t, ok)
    \/ Drop(t) \/ DropLast(t) \/ DropWriting(t) \/ WriteInode(t) \/ Truncated(t)
    \/ StartSync(t) \/ SyncDone(t)
    \/ StartMount(t) \/ WaitOnSuper(t) \/ GetSuper(t) \/ ReadSuper(t)
    \/ Umount(t) \/ Umounted(t)

Next == \E t \in Task : Step(t)

Spec == Init /\ [][Next]_vars

-----------------------------------------------------------------------------
Points == {"user", "iget", "scan", "read", "use", "newblock", "truncate", "entry",
           "iput", "write", "sync", "syncwrite", "get_super", "super", "umounted"}
TypeOK ==
    /\ inode \in [Slot -> [id : Id \cup {NULL}, count : Nat, dirt : BOOLEAN,
          lock : BOOLEAN, mount : BOOLEAN,
          data : [nlinks : {0, 1}, zone : Block \cup {NULL}]]]
    /\ imap \subseteq Id /\ zmap \subseteq Block /\ stuck \subseteq zmap
    /\ pc \in [Task -> Points] /\ names \subseteq Id \ {MountRoot}

Holds(t, s) ==
    \/ local[t].empty = s
    \/ slot(t) = s /\ pc[t] \notin {"sync", "syncwrite", "umounted"}
MountRef(s) == IF super.imount = s /\ \A t \in Task : local[t].op # "umount" THEN 1 ELSE 0

(* i_count is the number of references tasks and the mount have to the     *)
(* slot (fs.h: i_count), an inode is in one slot only, who holds a slot    *)
(* finds the inode there it asked for, and a free slot is clean and        *)
(* unlocked, so that get_empty_inode may take it.                          *)
FreeIsClean == \A s \in Free : ~inode[s].dirt /\ ~inode[s].lock /\ ~inode[s].mount
CountIsRefs ==
    /\ TypeOK /\ FreeIsClean
    /\ \A s \in Slot :
          inode[s].count = Cardinality({t \in Task : Holds(t, s)}) + MountRef(s)
    /\ \A i \in Id : Cardinality(Cached(i)) <= 1
    /\ \A t \in Task : slot(t) # NULL /\ Holds(t, slot(t)) => held(t).id = local[t].id

(* What is known of inode i: its slot counts before the device. *)
Known(i) ==
    IF \E s \in Cached(i) : \A t \in Task : ~(pc[t] = "read" /\ slot(t) = s)
      THEN inode[CHOOSE s \in Cached(i) : TRUE].data ELSE dinode[i]

(* A name exists exactly for the inodes with a link: no change of an inode *)
(* is lost on its way through the table, and none is freed that a name     *)
(* still leads to, or kept that nothing leads to and nobody holds.         *)
NamesMatch ==
    /\ \A i \in File :
          i \in names <=> /\ i \in imap /\ Known(i).nlinks = 1
                          /\ \A t \in Task : ~(pc[t] = "entry" /\ local[t].id = i)
    /\ \A i \in imap \ {MountRoot} : i \in names \/ \E t \in Task : local[t].id = i

(* No block has two owners, nor one while it is free (bitmap.c:83, 107).   *)
Owned(i) == IF i \in imap THEN {Known(i).zone} \ {NULL} ELSE {}
OneOwner ==
    /\ \A i, j \in File : i # j => Owned(i) \cap Owned(j) = {}
    /\ \A i \in File : Owned(i) \subseteq zmap
    /\ \A t \in Task : pc[t] = "newblock" =>
          local[t].block \in zmap \ UNION {Owned(i) : i \in File}

(* None of the panics the code has for states that "cannot happen":        *)
(* freeing a free inode (inode.c:173), free_inode of an inode in use or    *)
(* with links (bitmap.c:138, 141), the bit of a block cleared twice        *)
(* (bitmap.c:83), reading or writing an inode of a device without super    *)
(* block (inode.c:332, 357), and no free slot (inode.c:235).               *)
NoPanic ==
    \A t \in Task :
        /\ Iput(t) => held(t).count > 0
        /\ pc[t] = "truncate" /\ local[t].op = "free" =>
              held(t).count = 1 /\ held(t).data.nlinks = 0
        /\ pc[t] = "truncate" =>
              local[t].block \in zmap \cup {NULL}
        /\ pc[t] \in {"read", "write", "syncwrite"} /\ held(t).id = MountRoot => super.dev
        /\ pc[t] = "iget" \/ At(t, "user") => Free # {}
=============================================================================
