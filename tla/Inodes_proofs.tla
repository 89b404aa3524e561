---------------------------- MODULE Inodes_proofs ----------------------------
(***************************************************************************)
(* Counts, names and blocks of inodes, for any number of tasks, inodes,    *)
(* slots and blocks.                                                       *)
(***************************************************************************)
EXTENDS Inodes, FiniteSetTheorems, TLAPS

NoRaces == Races = {}
OneAdmin == \A a, b \in Admin : a = b
EnoughSlots == Cardinality(Slot) > Cardinality(Task)

(* Where a task has an inode, and where it has locked one. *)
Having == {"read", "use", "newblock", "truncate", "entry", "iput", "write",
           "get_super", "super"}
Locking == {"read", "write", "syncwrite"}
Freeing(t) == pc[t] = "truncate" /\ local[t].op = "free"
Umounting == \E t \in Task : local[t].op = "umount"

Zone == Block \cup {NULL}
DataRec == [nlinks : {0, 1}, zone : Zone]
InodeRec == [id : Id \cup {NULL}, count : Nat, dirt : BOOLEAN, lock : BOOLEAN,
             mount : BOOLEAN, data : DataRec]
Locals == [slot : Slot \cup {NULL}, empty : Slot \cup {NULL}, id : Id \cup {NULL},
           block : Zone, todo : SUBSET Slot, op : {NULL, "trunc", "free", "umount"}]

Typed ==
    /\ inode \in [Slot -> InodeRec] /\ dinode \in [Id -> DataRec]
    /\ imap \subseteq Id /\ zmap \subseteq Block /\ stuck \subseteq zmap
    /\ names \subseteq Id \ {MountRoot}
    /\ super \in [dev : BOOLEAN, lock : BOOLEAN, imount : Slot \cup {NULL}]
    /\ pc \in [Task -> Points] /\ local \in [Task -> Locals]

(* What a task knows by itself. *)
SelfOK(t) ==
    /\ pc[t] = "user" => local[t] = NoLocals
    /\ local[t].empty # NULL <=> pc[t] = "scan"
    /\ pc[t] \in Having \cup {"syncwrite"} => slot(t) \in Slot
    /\ pc[t] \in {"iget", "scan"} =>
          slot(t) = NULL /\ local[t].id \in names \cup {MountRoot}
    /\ pc[t] \in Having => local[t].id \in Id
    /\ pc[t] \in {"newblock", "truncate", "entry"} => local[t].id \in File
    /\ pc[t] \in {"get_super", "super"} => local[t].id \in Dir
    /\ pc[t] \in {"sync", "syncwrite"} => local[t].id = NULL
    /\ pc[t] = "newblock" => local[t].block \in Block
    /\ pc[t] = "truncate" <=> local[t].op \in {"trunc", "free"}
    /\ pc[t] = "umounted" => local[t].op = "umount"
    /\ pc[t] = "super" => super.dev /\ super.lock /\ super.imount = NULL
    /\ local[t].op = "umount" =>
          /\ t \in Admin /\ pc[t] \in {"iput", "write", "umounted"} /\ slot(t) \in Slot
          /\ super.dev /\ ~super.lock /\ slot(t) = super.imount /\ local[t].id \in Dir
    /\ local[t].id = MountRoot => super.dev /\ ~super.lock /\ ~Umounting

(* What it knows of the inode x it has or has locked. *)
HeldOK(t, x) ==
    /\ pc[t] \in Having => x.id = local[t].id
    /\ Freeing(t) => x.count = 1 /\ x.data.nlinks = 0 /\ ~x.lock
    /\ pc[t] = "read" => x.count = 1 /\ ~x.dirt
    /\ pc[t] = "entry" => x.count = 1 /\ x.data.nlinks = 1
    /\ pc[t] \in Locking => x.lock
    /\ pc[t] \in {"write", "syncwrite"} => x.dirt

TaskOK(t) ==
    /\ SelfOK(t)
    /\ slot(t) # NULL => HeldOK(t, held(t))
    /\ pc[t] = "scan" => inode[local[t].empty] = [Empty EXCEPT !.count = 1]

Apart ==
    \A t, u \in Task : t # u =>
        /\ pc[t] \in Locking /\ pc[u] \in Locking => slot(t) # slot(u)
        /\ ~(pc[t] = "super" /\ pc[u] = "super")

Refs(s) == {t \in Task : Holds(t, s)}
RefsCounted == \A s \in Slot : inode[s].count = Cardinality(Refs(s)) + MountRef(s)
IdsUnique == \A s, r \in Slot : inode[s].id # NULL /\ inode[s].id = inode[r].id => s = r
SlotOK(s, x) ==
    /\ x.count = 0 => ~x.dirt /\ ~x.lock /\ ~x.mount
    /\ x.dirt => x.id \in File \cup Dir
    /\ x.mount => super.imount = s /\ ~Umounting
    /\ super.imount = s => super.dev /\ ~super.lock /\ (~Umounting => x.id \in Dir)
SlotsOK ==
    \A s \in Slot : SlotOK(s, inode[s])

RefInv == Typed /\ RefsCounted /\ IdsUnique /\ SlotsOK /\ Apart /\ \A t \in Task : TaskOK(t)

Reading(s) == \E t \in Task : pc[t] = "read" /\ slot(t) = s
Entering(i) == \E t \in Task : pc[t] = "entry" /\ local[t].id = i
Asked(i) == \E t \in Task : local[t].id = i
NameSlot(s, x) ==
    x.id # NULL =>
        /\ x.id \in imap
        /\ x.count = 0 => x.data.nlinks = 1
        /\ ~x.dirt /\ ~Reading(s) /\ x.data.nlinks = 1 => x.data = dinode[x.id]
Named(i) == i \in names <=> i \in imap /\ Known(i).nlinks = 1 /\ ~Entering(i)
NameInv ==
    /\ Dir \subseteq names /\ Dir \cup {MountRoot} \subseteq imap
    /\ \A s \in Slot : NameSlot(s, inode[s])
    /\ \A i \in Id \ File : Known(i).nlinks = 1
    /\ \A i \in File : Named(i)
    /\ \A i \in imap \ {MountRoot} : i \in names \/ Asked(i)

BlockOK(t) ==
    /\ pc[t] = "newblock" => \A i \in File : local[t].block \notin Owned(i)
    /\ pc[t] = "truncate" => \A i \in File \ {local[t].id} : local[t].block \notin Owned(i)
    /\ pc[t] \in {"newblock", "truncate"} => local[t].block \in zmap \cup {NULL}
    /\ pc[t] = "newblock" => \A u \in Task \ {t} :
          pc[u] \in {"newblock", "truncate"} => local[u].block # local[t].block

BlockInv ==
    /\ \A i, j \in File : i # j => Owned(i) \cap Owned(j) = {}
    /\ \A i \in File : Owned(i) \subseteq zmap
    /\ \A t \in Task : BlockOK(t)

IInv == RefInv /\ NameInv /\ BlockInv

-----------------------------------------------------------------------------
(* The constants, and counting. *)
One(p) == IF p THEN 1 ELSE 0

LEMMA Constants ==
    /\ IsFiniteSet(Task)
    /\ NULL \notin Task /\ NULL \notin Id /\ NULL \notin Slot /\ NULL \notin Block
    /\ NULL \notin {"trunc", "free", "umount"}
    /\ File \cap Dir = {} /\ MountRoot \notin File /\ MountRoot \notin Dir
    /\ Id = File \cup Dir \cup {MountRoot}
BY InodesAssumption DEF Id

(* Two subsets of a finite set that differ in one element at most. *)
LEMMA OneCounts ==
    ASSUME NEW K, IsFiniteSet(K), NEW A \in SUBSET K, NEW B \in SUBSET K, NEW k \in K,
           A \ {k} = B \ {k}
    PROVE  /\ Cardinality(A) \in Nat /\ Cardinality(B) \in Nat
           /\ Cardinality(B) = Cardinality(A) - One(k \in A) + One(k \in B)
<1>1. IsFiniteSet(A) /\ IsFiniteSet(B) /\ IsFiniteSet(A \ {k})
  BY FS_Subset
<1>2. /\ Cardinality(A) \in Nat /\ Cardinality(B) \in Nat
      /\ Cardinality(A \ {k}) \in Nat
  BY <1>1, FS_CardinalityType
<1>3. Cardinality(A \ {k}) = Cardinality(A) - One(k \in A)
  <2>1. CASE k \in A
    BY <1>1, <1>2, <2>1, FS_RemoveElement DEF One
  <2>2. CASE k \notin A
    <3>1. A \ {k} = A
      BY <2>2
    <3> QED BY <1>2, <2>2, <3>1 DEF One
  <2> QED BY <2>1, <2>2
<1>4. Cardinality(B \ {k}) = Cardinality(B) - One(k \in B)
  <2>1. CASE k \in B
    BY <1>1, <1>2, <2>1, FS_RemoveElement DEF One
  <2>2. CASE k \notin B
    <3>1. B \ {k} = B
      BY <2>2
    <3> QED BY <1>2, <2>2, <3>1 DEF One
  <2> QED BY <2>1, <2>2
<1>5. One(k \in A) \in Nat /\ One(k \in B) \in Nat
  BY DEF One
<1>6. Cardinality(A \ {k}) = Cardinality(B \ {k})
  OBVIOUS
<1> QED BY <1>2, <1>3, <1>4, <1>5, <1>6

(* What a count says of who has the slot. *)
LEMMA CountSays ==
    ASSUME RefInv, NEW s \in Slot
    PROVE  /\ inode[s].count \in Nat /\ Cardinality(Refs(s)) \in Nat
           /\ inode[s].count = Cardinality(Refs(s)) + MountRef(s)
           /\ MountRef(s) \in {0, 1} /\ IsFiniteSet(Refs(s))
<1>1. IsFiniteSet(Refs(s)) /\ Cardinality(Refs(s)) \in Nat
  BY Constants, FS_Subset, FS_CardinalityType DEF Refs
<1> QED BY <1>1 DEF RefInv, Typed, InodeRec, RefsCounted, MountRef

LEMMA Alive ==
    ASSUME RefInv, NEW s \in Slot, NEW t \in Task, Holds(t, s)
    PROVE  inode[s].count \in Nat \ {0}
<1>1. t \in Refs(s)
  BY DEF Refs
<1>2. Cardinality(Refs(s)) # 0
  BY <1>1, CountSays, FS_EmptySet
<1> QED BY <1>2, CountSays

LEMMA Sole ==
    ASSUME RefInv, NEW s \in Slot, NEW t \in Task, Holds(t, s), inode[s].count = 1
    PROVE  MountRef(s) = 0 /\ \A u \in Task \ {t} : ~Holds(u, s)
<1>1. t \in Refs(s)
  BY DEF Refs
<1>2. Cardinality(Refs(s)) # 0
  BY <1>1, CountSays, FS_EmptySet
<1>3. Cardinality(Refs(s)) = 1 /\ MountRef(s) = 0
  BY <1>2, CountSays
<1>4. IsFiniteSet(Refs(s) \ {t}) /\ Cardinality(Refs(s) \ {t}) = 0
  BY <1>1, <1>3, CountSays, FS_RemoveElement, FS_Subset
<1>5. Refs(s) \ {t} = {}
  BY <1>4, FS_EmptySet
<1> QED BY <1>3, <1>5 DEF Refs

LEMMA Unheld ==
    ASSUME RefInv, NEW s \in Slot, inode[s].count = 0
    PROVE  MountRef(s) = 0 /\ \A u \in Task : ~Holds(u, s)
<1>1. Cardinality(Refs(s)) = 0 /\ MountRef(s) = 0
  BY CountSays
<1>2. Refs(s) = {}
  BY <1>1, CountSays, FS_EmptySet
<1> QED BY <1>1, <1>2 DEF Refs

LEMMA Shared ==
    ASSUME RefInv, NEW s \in Slot, NEW t \in Task, Holds(t, s), inode[s].count > 1,
           MountRef(s) = 0
    PROVE  \E u \in Task \ {t} : Holds(u, s)
<1> SUFFICES ASSUME \A u \in Task \ {t} : ~Holds(u, s) PROVE FALSE
  OBVIOUS
<1>1. Refs(s) = {t}
  BY DEF Refs
<1>2. Cardinality(Refs(s)) = 1
  BY <1>1, FS_Singleton
<1> QED BY <1>2, CountSays

-----------------------------------------------------------------------------
(* A step changes pc and local of one task only. *)
Alone(t) == \A u \in Task \ {t} : pc'[u] = pc[u] /\ local'[u] = local[u]

CountStep(t) ==
    \A s \in Slot :
        inode'[s].count = inode[s].count - One(Holds(t, s)) + One(Holds(t, s)')
                              - MountRef(s) + MountRef(s)'

LEMMA CountsFollow ==
    ASSUME RefInv, NEW t \in Task, Alone(t), CountStep(t)
    PROVE  RefsCounted'
<1> SUFFICES ASSUME NEW s \in Slot
             PROVE  inode'[s].count = Cardinality(Refs(s)') + MountRef(s)'
  BY DEF RefsCounted
<1>1. Refs(s) \in SUBSET Task /\ Refs(s)' \in SUBSET Task
  BY DEF Refs
<1>2. \A u \in Task \ {t} : Holds(u, s)' <=> Holds(u, s)
  BY DEF Alone, Holds, slot
<1>3. Refs(s) \ {t} = Refs(s)' \ {t}
  BY <1>2 DEF Refs
<1>4. PICK A, B \in SUBSET Task : A = Refs(s) /\ B = Refs(s)'
  BY <1>1
<1>5. /\ Cardinality(A) \in Nat /\ Cardinality(B) \in Nat
      /\ Cardinality(B) = Cardinality(A) - One(t \in A) + One(t \in B)
  BY <1>3, <1>4, OneCounts, Constants
<1>6. (t \in A <=> Holds(t, s)) /\ (t \in B <=> Holds(t, s)')
  BY <1>4 DEF Refs
<1>7. One(t \in A) = One(Holds(t, s)) /\ One(t \in B) = One(Holds(t, s)')
  BY <1>6 DEF One
<1>8. /\ inode[s].count = Cardinality(A) + MountRef(s)
      /\ inode'[s].count = inode[s].count - One(Holds(t, s)) + One(Holds(t, s)')
                              - MountRef(s) + MountRef(s)'
  BY <1>4, CountSays DEF CountStep
<1>9. /\ MountRef(s) \in Nat /\ MountRef(s)' \in Nat
      /\ One(Holds(t, s)) \in Nat /\ One(Holds(t, s)') \in Nat
  BY DEF MountRef, One
<1>10. inode'[s].count = Cardinality(B) + MountRef(s)'
  BY <1>5, <1>7, <1>8, <1>9
<1> QED BY <1>4, <1>10

(* What is left to show of a step of t. *)
OwnApart(t) ==
    \A u \in Task \ {t} :
        /\ pc'[t] \in Locking /\ pc[u] \in Locking => slot(t)' # slot(u)
        /\ ~(pc'[t] = "super" /\ pc[u] = "super")

OthersHeld(t) ==
    \A u \in Task \ {t} :
        /\ slot(u) # NULL => HeldOK(u, inode'[slot(u)])
        /\ pc[u] = "scan" => inode'[local[u].empty] = inode[local[u].empty]

RefStep(t) ==
    /\ Typed' /\ Alone(t) /\ CountStep(t) /\ IdsUnique' /\ SlotsOK' /\ OwnApart(t)
    /\ OthersHeld(t) /\ \A u \in Task \ {t} : SelfOK(u)'
    /\ TaskOK(t)'

LEMMA RefStepOK ==
    ASSUME RefInv, NEW t \in Task, RefStep(t)
    PROVE  RefInv'
<1>1. Alone(t) /\ Typed' /\ IdsUnique' /\ SlotsOK' /\ OthersHeld(t) /\ TaskOK(t)'
  BY DEF RefStep
<1>2. RefsCounted'
  BY CountsFollow DEF RefStep
<1>3. Apart'
  <2> SUFFICES ASSUME NEW u \in Task, NEW v \in Task, u # v
               PROVE  /\ pc'[u] \in Locking /\ pc'[v] \in Locking => slot(u)' # slot(v)'
                      /\ ~(pc'[u] = "super" /\ pc'[v] = "super")
    BY DEF Apart
  <2>1. CASE u = t
    BY <1>1, <2>1 DEF RefStep, OwnApart, Alone, slot
  <2>2. CASE v = t
    BY <1>1, <2>2 DEF RefStep, OwnApart, Alone, slot
  <2>3. CASE u # t /\ v # t
    BY <1>1, <2>3 DEF RefInv, Apart, Alone, slot
  <2> QED BY <2>1, <2>2, <2>3
<1>4. ASSUME NEW u \in Task \ {t} PROVE TaskOK(u)'
  <2>1. SelfOK(u)' /\ pc'[u] = pc[u] /\ local'[u] = local[u]
    BY <1>1, <1>4 DEF RefStep, Alone
  <2>2. slot(u)' # NULL => HeldOK(u, held(u))'
    BY <1>1, <1>4, <2>1 DEF OthersHeld, HeldOK, Freeing, slot, held
  <2>3. pc'[u] = "scan" => inode'[local'[u].empty] = [Empty EXCEPT !.count = 1]
    BY <1>1, <1>4, <2>1 DEF OthersHeld, RefInv, TaskOK
  <2> QED BY <2>1, <2>2, <2>3 DEF TaskOK
<1> QED BY <1>1, <1>2, <1>3, <1>4 DEF RefInv

(* Most steps leave names and the super block, and begin or end no umount. *)
LooksOK(t) ==
    \A u \in Task \ {t} :
        pc[u] \in {"iget", "scan"} => local[u].id \in names' \cup {MountRoot}
Calm(t) ==
    /\ Typed' /\ Alone(t)
    /\ names \subseteq names' \/ LooksOK(t)
    /\ super' = super /\ (Umounting' <=> Umounting)

LEMMA CalmSelf ==
    ASSUME RefInv, NEW t \in Task, Calm(t), NEW u \in Task \ {t}
    PROVE  SelfOK(u)'
<1>1. SelfOK(u) /\ pc'[u] = pc[u] /\ local'[u] = local[u]
  BY DEF RefInv, TaskOK, Calm, Alone
<1> QED BY <1>1 DEF SelfOK, Calm, LooksOK, slot

LEMMA MountRefSame ==
    ASSUME super' = super, Umounting' <=> Umounting, NEW s \in Slot
    PROVE  MountRef(s)' = MountRef(s)
<1>1. (\A t \in Task : local[t].op # "umount") <=> ~Umounting
  BY DEF Umounting
<1>2. (\A t \in Task : local'[t].op # "umount") <=> ~Umounting'
  BY DEF Umounting
<1> QED BY <1>1, <1>2 DEF MountRef

LEMMA UmountStays ==
    ASSUME NEW t \in Task, Alone(t), local'[t].op = "umount" <=> local[t].op = "umount"
    PROVE  Umounting' <=> Umounting
<1>1. \A u \in Task : local'[u].op = "umount" <=> local[u].op = "umount"
  BY DEF Alone
<1> QED BY <1>1 DEF Umounting

(* t goes on at l with the local variables m. *)
Moves(t, l, m) ==
    /\ l \in Points /\ m \in Locals
    /\ pc' = [pc EXCEPT ![t] = l] /\ local' = [local EXCEPT ![t] = m]

LEMMA MovesOK ==
    ASSUME RefInv, NEW t \in Task, NEW l, NEW m, Moves(t, l, m)
    PROVE  /\ Alone(t) /\ pc'[t] = l /\ local'[t] = m
           /\ pc' \in [Task -> Points] /\ local' \in [Task -> Locals]
BY DEF RefInv, Typed, Moves, Alone

LEMMA TaskFacts ==
    ASSUME RefInv, NEW t \in Task
    PROVE  /\ pc[t] \in Points /\ local[t] \in Locals /\ SelfOK(t)
           /\ slot(t) # NULL => HeldOK(t, held(t)) /\ slot(t) \in Slot
           /\ slot(t) \in Slot => HeldOK(t, held(t)) /\ slot(t) # NULL
           /\ pc[t] = "scan" =>
                 /\ inode[local[t].empty] = [Empty EXCEPT !.count = 1]
                 /\ local[t].empty \in Slot
<1>1. pc[t] \in Points /\ local[t] \in Locals /\ TaskOK(t)
  BY DEF RefInv, Typed
<1> QED BY <1>1, Constants DEF TaskOK, Locals, slot, SelfOK

(* No slot changes. *)
LEMMA NoSlot ==
    ASSUME RefInv, NEW t \in Task, Calm(t), inode' = inode, TaskOK(t)', OwnApart(t),
           \A s \in Slot : Holds(t, s)' <=> Holds(t, s)
    PROVE  RefStep(t)
<1>1. CountStep(t)
  <2> SUFFICES ASSUME NEW s \in Slot
               PROVE  inode'[s].count = inode[s].count - One(Holds(t, s))
                          + One(Holds(t, s)') - MountRef(s) + MountRef(s)'
    BY DEF CountStep
  <2>1. MountRef(s)' = MountRef(s)
    BY MountRefSame DEF Calm
  <2>2. One(Holds(t, s)') = One(Holds(t, s)) /\ One(Holds(t, s)) \in Nat
    BY DEF One
  <2> QED BY <2>1, <2>2, CountSays
<1>2. IdsUnique'
  BY DEF RefInv, IdsUnique
<1>3. SlotsOK'
  BY DEF RefInv, SlotsOK, SlotOK, Calm
<1>4. OthersHeld(t)
  BY TaskFacts DEF OthersHeld, held
<1> QED BY <1>1, <1>2, <1>3, <1>4, CalmSelf DEF RefStep, Calm

(* The slot s becomes x. *)
Fits(t, s, x) ==
    /\ x.id # NULL => \A r \in Slot \ {s} : inode[r].id # x.id
    /\ SlotOK(s, x)
    /\ \A u \in Task \ {t} :
          (slot(u) = s => HeldOK(u, x)) /\ (pc[u] = "scan" => local[u].empty # s)
    /\ x.count = inode[s].count - One(Holds(t, s)) + One(Holds(t, s)')
    /\ \A r \in Slot \ {s} : Holds(t, r)' <=> Holds(t, r)

LEMMA OneSlot ==
    ASSUME RefInv, NEW t \in Task, NEW s \in Slot, NEW x, Calm(t),
           inode' = [inode EXCEPT ![s] = x], Fits(t, s, x), TaskOK(t)', OwnApart(t)
    PROVE  RefStep(t)
<1>1. inode'[s] = x /\ \A r \in Slot \ {s} : inode'[r] = inode[r]
  BY DEF RefInv, Typed
<1>2. CountStep(t)
  <2> SUFFICES ASSUME NEW r \in Slot
               PROVE  inode'[r].count = inode[r].count - One(Holds(t, r))
                          + One(Holds(t, r)') - MountRef(r) + MountRef(r)'
    BY DEF CountStep
  <2>1. MountRef(r)' = MountRef(r) /\ MountRef(r) \in Nat
    BY MountRefSame, CountSays DEF Calm
  <2>2. One(Holds(t, r)') \in Nat /\ One(Holds(t, r)) \in Nat /\ inode[r].count \in Nat
    BY CountSays DEF One
  <2>3. CASE r = s
    BY <1>1, <2>1, <2>2, <2>3 DEF Fits
  <2>4. CASE r # s
    <3>1. One(Holds(t, r)') = One(Holds(t, r))
      BY <2>4 DEF Fits, One
    <3> QED BY <1>1, <2>1, <2>2, <2>4, <3>1
  <2> QED BY <2>3, <2>4
<1>3. IdsUnique'
  BY <1>1 DEF RefInv, IdsUnique, Fits
<1>4. SlotsOK'
  <2> SUFFICES ASSUME NEW r \in Slot PROVE SlotOK(r, inode[r])'
    BY DEF SlotsOK
  <2>1. SlotOK(r, inode'[r])
    BY <1>1 DEF Fits, RefInv, SlotsOK
  <2> QED BY <2>1 DEF SlotOK, Calm
<1>5. OthersHeld(t)
  <2> SUFFICES ASSUME NEW u \in Task \ {t}
               PROVE  /\ slot(u) # NULL => HeldOK(u, inode'[slot(u)])
                      /\ pc[u] = "scan" => inode'[local[u].empty] = inode[local[u].empty]
    BY DEF OthersHeld
  <2>1. slot(u) # NULL => slot(u) \in Slot /\ HeldOK(u, inode[slot(u)])
    BY TaskFacts DEF held
  <2>2. pc[u] = "scan" => local[u].empty \in Slot \ {s}
    BY TaskFacts DEF Fits
  <2> QED BY <1>1, <2>1, <2>2 DEF Fits
<1> QED BY <1>2, <1>3, <1>4, <1>5, CalmSelf DEF RefStep, Calm

-----------------------------------------------------------------------------
(* The steps that leave the slots as they are. *)
LEMMA LookupRefs ==
    ASSUME RefInv, NEW t \in Task, NEW i \in Id, Lookup(t, i)
    PROVE  RefStep(t)
<1> DEFINE m == [NoLocals EXCEPT !.id = i]
<1>1. pc[t] = "user" /\ local[t] = NoLocals /\ local[t] \in Locals /\ i \in names
  BY TaskFacts DEF Lookup, At, SelfOK
<1>2. Moves(t, "iget", m)
  BY <1>1, Constants DEF Lookup, Sleep, Moves, Points, Locals, NoLocals, RefInv, Typed
<1>3. /\ Alone(t) /\ pc'[t] = "iget" /\ local'[t] = m
      /\ pc' \in [Task -> Points] /\ local' \in [Task -> Locals]
  BY <1>2, MovesOK
<1>4. UNCHANGED <<inode, dinode, imap, zmap, stuck, names, super>>
  BY DEF Lookup, maps
<1>5. Typed'
  BY <1>3, <1>4 DEF RefInv, Typed
<1>6. Calm(t)
  BY <1>1, <1>3, <1>4, <1>5, UmountStays DEF Calm, NoLocals
<1>7. TaskOK(t)'
  BY <1>1, <1>3, <1>4, Constants DEF TaskOK, SelfOK, slot, NoLocals, Having, RefInv, Typed
<1>8. OwnApart(t)
  BY <1>3 DEF OwnApart, Locking
<1>9. \A s \in Slot : Holds(t, s)' <=> Holds(t, s)
  BY <1>1, <1>3, Constants DEF Holds, slot, NoLocals
<1> QED BY <1>4, <1>6, <1>7, <1>8, <1>9, NoSlot

LEMMA WaitRefs ==
    ASSUME RefInv, NEW t \in Task, WaitOnInode(t) \/ WaitOnSuper(t)
    PROVE  RefStep(t)
<1>1. pc[t] \in Points /\ local[t] \in Locals /\ TaskOK(t)
  BY TaskFacts DEF RefInv
<1>2. Moves(t, pc[t], local[t])
  BY <1>1 DEF WaitOnInode, WaitOnSuper, Sleep, Moves, RefInv, Typed
<1>3. /\ Alone(t) /\ pc'[t] = pc[t] /\ local'[t] = local[t]
      /\ pc' \in [Task -> Points] /\ local' \in [Task -> Locals]
  BY <1>2, MovesOK
<1>4. UNCHANGED <<inode, dinode, imap, zmap, stuck, names, super>>
  BY DEF WaitOnInode, WaitOnSuper, maps
<1>5. Typed'
  BY <1>3, <1>4 DEF RefInv, Typed
<1>6. Calm(t)
  BY <1>3, <1>4, <1>5, UmountStays DEF Calm
<1>7. TaskOK(t)'
  BY <1>1, <1>3, <1>4, <1>6
     DEF TaskOK, SelfOK, slot, held, HeldOK, Freeing, Calm
<1>8. OwnApart(t)
  BY <1>3 DEF OwnApart, RefInv, Apart, slot
<1>9. \A s \in Slot : Holds(t, s)' <=> Holds(t, s)
  BY <1>3 DEF Holds, slot
<1> QED BY <1>4, <1>6, <1>7, <1>8, <1>9, NoSlot

(* The mount point is the one directory that is mounted on. *)
LEMMA MountFacts ==
    ASSUME RefInv, NEW s \in Slot, inode[s].mount
    PROVE  super.imount = s /\ super.dev /\ ~super.lock /\ ~Umounting /\ MountRef(s) = 1
<1>1. super.imount = s /\ super.dev /\ ~super.lock /\ ~Umounting
  BY DEF RefInv, SlotsOK, SlotOK
<1>2. \A t \in Task : local[t].op # "umount"
  BY <1>1 DEF Umounting
<1> QED BY <1>1, <1>2 DEF MountRef

LEMMA RedirectRefs ==
    ASSUME RefInv, NEW t \in Task, Redirect(t)
    PROVE  RefStep(t)
<1> DEFINE m == [local[t] EXCEPT !.id = MountRoot]
<1>1. pc[t] = "scan" /\ local[t] \in Locals /\ TaskOK(t) /\ MountRoot \in Id
  BY TaskFacts, Constants DEF Redirect, At, RefInv
<1>2. super.dev /\ ~super.lock /\ ~Umounting
  BY MountFacts DEF Redirect, Cached
<1>3. Moves(t, "scan", m)
  BY <1>1 DEF Redirect, Goto, Moves, Points, Locals, RefInv, Typed
<1>4. /\ Alone(t) /\ pc'[t] = "scan" /\ local'[t] = m
      /\ pc' \in [Task -> Points] /\ local' \in [Task -> Locals]
  BY <1>3, MovesOK
<1>5. /\ m.slot = local[t].slot /\ m.empty = local[t].empty /\ m.id = MountRoot
      /\ m.op = local[t].op
  BY <1>1 DEF Locals
<1> HIDE DEF m
<1>6. UNCHANGED <<inode, dinode, imap, zmap, stuck, names, super>>
  BY DEF Redirect, maps
<1>7. Typed'
  BY <1>4, <1>6 DEF RefInv, Typed
<1>8. Calm(t)
  BY <1>4, <1>5, <1>6, <1>7, UmountStays DEF Calm
<1>9. TaskOK(t)'
  BY <1>1, <1>2, <1>4, <1>5, <1>6, <1>8
     DEF TaskOK, SelfOK, slot, held, HeldOK, Freeing, Calm, Having, Locking
<1>10. OwnApart(t)
  BY <1>4 DEF OwnApart, Locking
<1>11. \A s \in Slot : Holds(t, s)' <=> Holds(t, s)
  BY <1>1, <1>4, <1>5 DEF Holds, slot
<1> QED BY <1>6, <1>8, <1>9, <1>10, <1>11, NoSlot

Maps == imap' \subseteq Id /\ zmap' \subseteq Block /\ stuck' \subseteq zmap'
           /\ names' \subseteq Id \ {MountRoot}

LEMMA Still ==
    ASSUME RefInv, NEW t \in Task, NEW l, NEW m, Moves(t, l, m),
           inode' = inode, dinode' = dinode, super' = super, Maps, names \subseteq names',
           m.op = "umount" <=> local[t].op = "umount",
           l \notin Locking, l # "super", TaskOK(t)',
           \A s \in Slot : Holds(t, s)' <=> Holds(t, s)
    PROVE  RefStep(t)
<1>1. /\ Alone(t) /\ pc'[t] = l /\ local'[t] = m
      /\ pc' \in [Task -> Points] /\ local' \in [Task -> Locals]
  BY MovesOK
<1>2. Typed'
  BY <1>1 DEF RefInv, Typed, Maps
<1>3. Calm(t)
  BY <1>1, <1>2, UmountStays DEF Calm
<1>4. OwnApart(t)
  BY <1>1 DEF OwnApart
<1> QED BY <1>3, <1>4, NoSlot

LEMMA NewBlockRefs ==
    ASSUME RefInv, NEW t \in Task, NEW b \in Block, NewBlock(t, b)
    PROVE  RefStep(t)
<1> DEFINE m == [local[t] EXCEPT !.block = b]
<1>1. /\ pc[t] = "use" /\ local[t] \in Locals /\ TaskOK(t) /\ slot(t) \in Slot
      /\ local[t].id \in File
  BY TaskFacts DEF NewBlock, InUse, At, RefInv, SelfOK, HeldOK, Having
<1>2. Moves(t, "newblock", m)
  BY <1>1 DEF NewBlock, Sleep, Moves, Points, Locals, Zone, RefInv, Typed
<1>3. pc'[t] = "newblock" /\ local'[t] = m
  BY <1>2, MovesOK
<1>4. /\ m.slot = local[t].slot /\ m.empty = local[t].empty /\ m.id = local[t].id
      /\ m.op = local[t].op /\ m.block = b
  BY <1>1 DEF Locals
<1> HIDE DEF m
<1>5. inode' = inode /\ dinode' = dinode /\ super' = super /\ names' = names
  BY DEF NewBlock
<1>6. Maps
  BY DEF NewBlock, Maps, RefInv, Typed
<1>7. ~Umounting' <=> ~Umounting
  BY <1>2, <1>3, <1>4, MovesOK, UmountStays
<1>8. TaskOK(t)'
  BY <1>1, <1>3, <1>4, <1>5, <1>7
     DEF TaskOK, SelfOK, slot, held, HeldOK, Freeing, Having, Locking
<1>9. \A s \in Slot : Holds(t, s)' <=> Holds(t, s)
  BY <1>1, <1>3, <1>4 DEF Holds, slot
<1> QED BY <1>2, <1>4, <1>5, <1>6, <1>8, <1>9, Still DEF Locking

LEMMA StartTruncateRefs ==
    ASSUME RefInv, NEW t \in Task, StartTruncate(t)
    PROVE  RefStep(t)
<1> DEFINE m == [local[t] EXCEPT !.op = "trunc", !.block = held(t).data.zone]
<1>1. /\ pc[t] = "use" /\ local[t] \in Locals /\ TaskOK(t) /\ slot(t) \in Slot
      /\ local[t].id \in File /\ held(t).data.zone \in Zone
  BY TaskFacts
     DEF StartTruncate, InUse, At, RefInv, SelfOK, HeldOK, Having, Typed, InodeRec,
         DataRec, held
<1>2. Moves(t, "truncate", m)
  BY <1>1 DEF StartTruncate, Sleep, Moves, Points, Locals, Zone, RefInv, Typed
<1>3. pc'[t] = "truncate" /\ local'[t] = m
  BY <1>2, MovesOK
<1>4. /\ m.slot = local[t].slot /\ m.empty = local[t].empty /\ m.id = local[t].id
      /\ m.op = "trunc"
  BY <1>1 DEF Locals
<1> HIDE DEF m
<1>5. inode' = inode /\ dinode' = dinode /\ super' = super /\ names' = names
  BY DEF StartTruncate
<1>6. Maps
  BY DEF StartTruncate, Maps, maps, RefInv, Typed
<1>7. local[t].op # "umount"
  BY <1>1 DEF TaskOK, SelfOK
<1>8. Umounting' <=> Umounting
  BY <1>2, <1>3, <1>4, <1>7, MovesOK, UmountStays
<1>9. TaskOK(t)'
  BY <1>1, <1>3, <1>4, <1>5, <1>8
     DEF TaskOK, SelfOK, slot, held, HeldOK, Freeing, Having, Locking
<1>10. \A s \in Slot : Holds(t, s)' <=> Holds(t, s)
  BY <1>1, <1>3, <1>4 DEF Holds, slot
<1> QED BY <1>2, <1>4, <1>5, <1>6, <1>7, <1>9, <1>10, Still DEF Locking

(* pc changes, and nothing else. *)
LEMMA GoesOn ==
    ASSUME RefInv, NEW t \in Task, NEW l \in Points, pc' = [pc EXCEPT ![t] = l],
           UNCHANGED <<inode, dinode, maps, super, local>>,
           names \subseteq names', names' \subseteq Id \ {MountRoot},
           pc[t] \in {"use", "entry", "get_super"}, l \in {"use", "iput", "get_super"},
           l = "get_super" => local[t].id \in Dir
    PROVE  RefStep(t)
<1>1. /\ local[t] \in Locals /\ TaskOK(t) /\ slot(t) \in Slot
      /\ local[t].op \notin {"trunc", "free", "umount"}
  BY TaskFacts DEF RefInv, SelfOK, HeldOK, Having, TaskOK
<1>2. Moves(t, l, local[t])
  BY <1>1 DEF Moves, RefInv, Typed
<1>3. pc'[t] = l /\ local'[t] = local[t]
  BY <1>2, MovesOK
<1>4. inode' = inode /\ dinode' = dinode /\ super' = super
  OBVIOUS
<1>5. Maps
  BY DEF Maps, maps, RefInv, Typed
<1>6. Umounting' <=> Umounting
  BY <1>2, <1>3, MovesOK, UmountStays
<1>7. TaskOK(t)'
  BY <1>1, <1>3, <1>4, <1>6
     DEF TaskOK, SelfOK, slot, held, HeldOK, Freeing, Having, Locking
<1>8. \A s \in Slot : Holds(t, s)' <=> Holds(t, s)
  BY <1>1, <1>3 DEF Holds, slot
<1> QED BY <1>2, <1>4, <1>5, <1>7, <1>8, Still DEF Locking

LEMMA CloseRefs ==
    ASSUME RefInv, NEW t \in Task, Close(t)
    PROVE  RefStep(t)
<1>1. names \subseteq names' /\ names' \subseteq Id \ {MountRoot}
  BY DEF Close, RefInv, Typed
<1> QED BY <1>1, GoesOn DEF Close, At, Goto, Points

LEMMA StartMountRefs ==
    ASSUME RefInv, NEW t \in Task, StartMount(t)
    PROVE  RefStep(t)
<1>1. names \subseteq names' /\ names' \subseteq Id \ {MountRoot}
  BY DEF StartMount, RefInv, Typed
<1>2. local[t].id \in Dir
  BY TaskFacts DEF StartMount, InUse, At, SelfOK, HeldOK, Having
<1>3. PICK l \in {"get_super", "iput"} : pc' = [pc EXCEPT ![t] = l]
  BY DEF StartMount, Goto
<1> QED BY <1>1, <1>2, <1>3, GoesOn DEF StartMount, InUse, At, Points

LEMMA EntryMadeRefs ==
    ASSUME RefInv, NEW t \in Task, AddEntry(t, TRUE)
    PROVE  RefStep(t)
<1>1. local[t].id \in File
  BY TaskFacts DEF AddEntry, At, SelfOK
<1>2. names \subseteq names' /\ names' \subseteq Id \ {MountRoot}
  BY <1>1, Constants DEF AddEntry, RefInv, Typed
<1> QED BY <1>2, GoesOn DEF AddEntry, At, Sleep, Points

LEMMA DropLastRefs ==
    ASSUME RefInv, NEW t \in Task, DropLast(t), local[t].id \in File
    PROVE  RefStep(t)
<1> DEFINE m == [local[t] EXCEPT !.op = "free", !.block = held(t).data.zone]
<1>1. /\ pc[t] = "iput" /\ local[t] \in Locals /\ TaskOK(t) /\ slot(t) \in Slot
      /\ held(t).data.zone \in Zone
      /\ held(t).count = 1 /\ held(t).data.nlinks = 0 /\ ~held(t).lock
  BY TaskFacts
     DEF DropLast, Iput, At, RefInv, SelfOK, HeldOK, Having, Typed, InodeRec, DataRec, held
<1>2. Moves(t, "truncate", m)
  BY <1>1 DEF DropLast, Sleep, Moves, Points, Locals, Zone, RefInv, Typed
<1>3. pc'[t] = "truncate" /\ local'[t] = m
  BY <1>2, MovesOK
<1>4. /\ m.slot = local[t].slot /\ m.empty = local[t].empty /\ m.id = local[t].id
      /\ m.op = "free"
  BY <1>1 DEF Locals
<1> HIDE DEF m
<1>5. inode' = inode /\ dinode' = dinode /\ super' = super /\ names' = names
  BY DEF DropLast
<1>6. Maps
  BY DEF DropLast, Maps, maps, RefInv, Typed
<1>7. local[t].op # "umount"
  BY <1>1, Constants DEF TaskOK, SelfOK
<1>8. Umounting' <=> Umounting
  BY <1>2, <1>3, <1>4, <1>7, MovesOK, UmountStays
<1>9. TaskOK(t)'
  BY <1>1, <1>3, <1>4, <1>5, <1>8
     DEF TaskOK, SelfOK, slot, held, HeldOK, Freeing, Having, Locking
<1>10. \A s \in Slot : Holds(t, s)' <=> Holds(t, s)
  BY <1>1, <1>3, <1>4 DEF Holds, slot
<1> QED BY <1>2, <1>4, <1>5, <1>6, <1>7, <1>9, <1>10, Still DEF Locking

(* sync: t has no reference. *)
LEMMA SyncMoves ==
    ASSUME RefInv, NEW t \in Task, NEW l \in {"sync", "user"}, NEW m, Moves(t, l, m),
           pc[t] \in {"user", "sync"}, UNCHANGED <<inode, dinode, maps, names, super>>,
           m.empty = NULL, m.id = NULL, m.op = NULL, l = "user" => m = NoLocals
    PROVE  RefStep(t)
<1>0. local[t] \in Locals /\ TaskOK(t) /\ SelfOK(t)
  BY TaskFacts DEF RefInv
<1>1. /\ local[t] \in Locals /\ TaskOK(t) /\ local[t].op = NULL
      /\ local[t].empty = NULL
      /\ pc[t] = "user" => local[t].slot = NULL
  <2>1. local[t].op \in {NULL, "trunc", "free", "umount"}
    BY <1>0 DEF Locals
  <2>2. local[t].op = NULL
    BY <1>0, <2>1 DEF SelfOK
  <2> QED BY <1>0, <2>2 DEF SelfOK, NoLocals
<1>2. pc'[t] = l /\ local'[t] = m
  BY MovesOK
<1>3. inode' = inode /\ dinode' = dinode /\ super' = super /\ names' = names
  OBVIOUS
<1>4. Maps
  BY DEF Maps, maps, RefInv, Typed
<1>5. Umounting' <=> Umounting
  BY <1>1, <1>2, MovesOK, UmountStays
<1>6. TaskOK(t)'
  BY <1>1, <1>2, <1>3, <1>5, Constants
     DEF TaskOK, SelfOK, slot, held, HeldOK, Freeing, Having, Locking
<1>7. \A s \in Slot : Holds(t, s)' <=> Holds(t, s)
  BY <1>1, <1>2, Constants DEF Holds, slot, NoLocals
<1> QED BY <1>1, <1>3, <1>4, <1>6, <1>7, Still, Constants DEF Locking

LEMMA StartSyncRefs ==
    ASSUME RefInv, NEW t \in Task, StartSync(t)
    PROVE  RefStep(t)
<1> DEFINE m == [NoLocals EXCEPT !.todo = Slot]
<1>1. pc[t] = "user" /\ local[t] = NoLocals
  BY TaskFacts DEF StartSync, At, SelfOK
<1>2. m \in Locals /\ m.empty = NULL /\ m.id = NULL /\ m.op = NULL
  BY DEF Locals, NoLocals, Zone
<1>3. Moves(t, "sync", m)
  BY <1>1, <1>2 DEF StartSync, Sleep, Moves, Points, RefInv, Typed
<1> QED BY <1>1, <1>2, <1>3, SyncMoves DEF StartSync

LEMMA SyncDoneRefs ==
    ASSUME RefInv, NEW t \in Task, SyncDone(t)
    PROVE  RefStep(t)
<1>1. NoLocals \in Locals /\ NoLocals.empty = NULL /\ NoLocals.id = NULL /\ NoLocals.op = NULL
  BY DEF Locals, NoLocals, Zone
<1>2. pc[t] = "sync"
  BY DEF SyncDone, At
<1>3. Moves(t, "user", NoLocals)
  BY <1>1 DEF SyncDone, Return, Sleep, Moves, Points
<1> QED BY <1>1, <1>2, <1>3, SyncMoves DEF SyncDone

LEMMA SyncInodeRefs ==
    ASSUME RefInv, NoRaces, NEW t \in Task, NEW s \in Slot, SyncInode(t, s)
    PROVE  RefStep(t)
<1>1. /\ pc[t] = "sync" /\ local[t] \in Locals /\ TaskOK(t)
      /\ local[t].empty = NULL /\ local[t].id = NULL /\ local[t].op = NULL
      /\ ~inode[s].lock /\ inode[s] \in InodeRec
  BY TaskFacts, Constants DEF SyncInode, At, RefInv, TaskOK, SelfOK, Locals, Typed
<1>2. CASE ~inode[s].dirt
  <2> DEFINE m == [local[t] EXCEPT !.todo = @ \ {s}]
  <2>1. m \in Locals /\ m.empty = NULL /\ m.id = NULL /\ m.op = NULL
    BY <1>1 DEF Locals
  <2>2. Moves(t, "sync", m)
    BY <1>2, <2>1 DEF SyncInode, Sleep, Moves, Points, RefInv, Typed
  <2> HIDE DEF m
  <2>3. UNCHANGED <<inode, dinode, maps, names, super>>
    BY <1>2 DEF SyncInode
  <2> QED BY <1>1, <2>1, <2>2, <2>3, SyncMoves
<1>3. CASE inode[s].dirt
  <2> DEFINE m == [local[t] EXCEPT !.slot = s, !.todo = @ \ {s}]
             x == [inode[s] EXCEPT !.lock = TRUE]
  <2>1. m \in Locals /\ m.empty = NULL /\ m.id = NULL /\ m.op = NULL /\ m.slot = s
    BY <1>1 DEF Locals
  <2>2. Moves(t, "syncwrite", m) /\ inode' = [inode EXCEPT ![s] = x]
    BY <1>3, <2>1 DEF SyncInode, Sleep, Moves, Points, RefInv, Typed
  <2>3. /\ x \in InodeRec /\ x.id = inode[s].id /\ x.count = inode[s].count /\ x.lock
        /\ x.dirt /\ x.mount = inode[s].mount /\ x.data = inode[s].data
    BY <1>1, <1>3 DEF InodeRec
  <2> HIDE DEF m, x
  <2>4. /\ Alone(t) /\ pc'[t] = "syncwrite" /\ local'[t] = m
        /\ pc' \in [Task -> Points] /\ local' \in [Task -> Locals]
    BY <2>2, MovesOK
  <2>5. UNCHANGED <<dinode, imap, zmap, stuck, names, super>>
    BY DEF SyncInode, maps
  <2>6. Typed' /\ inode'[s] = x
    BY <2>2, <2>3, <2>4, <2>5 DEF RefInv, Typed
  <2>7. Calm(t)
    BY <1>1, <2>1, <2>4, <2>5, <2>6, UmountStays DEF Calm
  <2>8. ASSUME NEW u \in Task \ {t}
        PROVE  (slot(u) = s => HeldOK(u, x)) /\ (pc[u] = "scan" => local[u].empty # s)
    <3>1. ~(Freeing(u) /\ slot(u) = s)
      BY DEF SyncInode, NoRaces, Truncating, Freeing
    <3> QED BY <1>1, <1>3, <2>3, <3>1, TaskFacts DEF HeldOK, held, Empty
  <2>9. \A r \in Slot : Holds(t, r)' <=> Holds(t, r)
    BY <1>1, <2>1, <2>4, Constants DEF Holds, slot
  <2>10. x.count = inode[s].count - One(Holds(t, s)) + One(Holds(t, s)')
    BY <2>3, <2>9, CountSays DEF One
  <2>11. SlotOK(s, x) /\ \A r \in Slot \ {s} : x.id # NULL => inode[r].id # x.id
    BY <1>3, <2>3 DEF RefInv, SlotsOK, SlotOK, IdsUnique
  <2>12. Fits(t, s, x)
    BY <2>8, <2>9, <2>10, <2>11 DEF Fits
  <2>13. TaskOK(t)'
    BY <1>1, <2>1, <2>3, <2>4, <2>6, Constants
       DEF TaskOK, SelfOK, slot, held, HeldOK, Freeing, Having, Locking
  <2>14. OwnApart(t)
    BY <1>1, <2>1, <2>4, TaskFacts DEF OwnApart, slot, HeldOK, held, Locking
  <2> QED BY <2>2, <2>7, <2>12, <2>13, <2>14, OneSlot
<1> QED BY <1>2, <1>3

-----------------------------------------------------------------------------
(* The steps that change one slot. *)
LEMMA IgetRefs ==
    ASSUME RefInv, NEW t \in Task, NEW s \in Slot, Iget(t, s)
    PROVE  RefStep(t)
<1> DEFINE m == [local[t] EXCEPT !.empty = s]
           x == [Empty EXCEPT !.count = 1]
<1>1. /\ pc[t] = "iget" /\ local[t] \in Locals /\ TaskOK(t) /\ slot(t) = NULL
      /\ local[t].empty = NULL /\ local[t].op = NULL /\ inode[s].count = 0
  <2>1. local[t].op \in {NULL, "trunc", "free", "umount"} /\ SelfOK(t) /\ pc[t] = "iget"
    BY TaskFacts DEF Iget, At, Locals
  <2> QED BY <2>1, TaskFacts DEF Iget, At, Free, RefInv, SelfOK
<1>2. /\ m \in Locals /\ m.slot = NULL /\ m.empty = s /\ m.id = local[t].id
      /\ m.op = NULL
  BY <1>1 DEF Locals, slot
<1>3. Moves(t, "scan", m) /\ inode' = [inode EXCEPT ![s] = x]
  BY <1>1, <1>2 DEF Iget, Take, Goto, Moves, Points, RefInv, Typed
<1>4. /\ x \in InodeRec /\ x.id = NULL /\ x.count = 1 /\ ~x.lock /\ ~x.dirt /\ ~x.mount
      /\ x = [Empty EXCEPT !.count = 1]
  BY DEF InodeRec, Empty, Data, DataRec, Zone
<1> HIDE DEF m, x
<1>5. /\ Alone(t) /\ pc'[t] = "scan" /\ local'[t] = m
      /\ pc' \in [Task -> Points] /\ local' \in [Task -> Locals]
  BY <1>3, MovesOK
<1>6. UNCHANGED <<dinode, imap, zmap, stuck, names, super>>
  BY DEF Iget, maps
<1>7. Typed' /\ inode'[s] = x
  BY <1>3, <1>4, <1>5, <1>6 DEF RefInv, Typed
<1>8. Calm(t)
  BY <1>1, <1>2, <1>5, <1>6, <1>7, UmountStays DEF Calm
<1>9. MountRef(s) = 0 /\ (\A u \in Task : ~Holds(u, s)) /\ ~inode[s].lock
  BY <1>1, Unheld DEF RefInv, SlotsOK, SlotOK
<1>10. ASSUME NEW u \in Task \ {t}
       PROVE  (slot(u) = s => HeldOK(u, x)) /\ (pc[u] = "scan" => local[u].empty # s)
  <2>1. local[u].empty # s /\ (slot(u) = s => pc[u] \in {"sync", "syncwrite", "umounted"})
    BY <1>9 DEF Holds
  <2>2. slot(u) = s => pc[u] # "syncwrite"
    BY <1>9, TaskFacts DEF HeldOK, held, Locking
  <2> QED BY <2>1, <2>2 DEF HeldOK, Having, Locking, Freeing
<1>11. \A r \in Slot \ {s} : Holds(t, r)' <=> Holds(t, r)
  BY <1>1, <1>2, <1>5, Constants DEF Holds, slot
<1>12. ~Holds(t, s) /\ Holds(t, s)'
  BY <1>2, <1>5, <1>9 DEF Holds, slot
<1>13. x.count = inode[s].count - One(Holds(t, s)) + One(Holds(t, s)')
  BY <1>1, <1>4, <1>12 DEF One
<1>14. super.imount = s => Umounting
  BY <1>9 DEF MountRef, Umounting
<1>15. SlotOK(s, x)
  BY <1>4, <1>14 DEF RefInv, SlotsOK, SlotOK
<1>16. Fits(t, s, x)
  BY <1>4, <1>10, <1>11, <1>13, <1>15 DEF Fits
<1>17. TaskOK(t)'
  BY <1>1, <1>2, <1>4, <1>5, <1>6, <1>7, <1>8, Constants
     DEF TaskOK, SelfOK, slot, held, HeldOK, Freeing, Having, Locking, Calm
<1>18. OwnApart(t)
  BY <1>5 DEF OwnApart, Locking
<1> QED BY <1>3, <1>8, <1>16, <1>17, <1>18, OneSlot

(* What t alone has. *)
LEMMA SoleSlot ==
    ASSUME RefInv, NEW t \in Task, NEW s \in Slot, Holds(t, s), inode[s].count = 1,
           ~inode[s].lock, NEW u \in Task \ {t}
    PROVE  /\ local[u].empty # s
           /\ slot(u) = s => pc[u] \in {"sync", "umounted"} /\ \A x : HeldOK(u, x)
<1>1. local[u].empty # s /\ (slot(u) = s => pc[u] \in {"sync", "syncwrite", "umounted"})
  BY Sole DEF Holds
<1>2. slot(u) = s => pc[u] # "syncwrite"
  BY TaskFacts DEF HeldOK, held, Locking
<1> QED BY <1>1, <1>2 DEF HeldOK, Having, Locking, Freeing

LEMMA MissRefs ==
    ASSUME RefInv, NEW t \in Task, Miss(t)
    PROVE  RefStep(t)
<1>0. PICK s \in Slot : s = local[t].empty
  BY TaskFacts DEF Miss, At
<1> DEFINE m == [local[t] EXCEPT !.slot = s, !.empty = NULL]
           x == [inode[s] EXCEPT !.id = local[t].id, !.lock = TRUE]
<1>1. /\ pc[t] = "scan" /\ local[t] \in Locals /\ TaskOK(t) /\ slot(t) = NULL
      /\ local[t].empty = s /\ inode[s] = [Empty EXCEPT !.count = 1]
      /\ local[t].op = NULL /\ local[t].id \in Id /\ inode[s] \in InodeRec
  <2>1. /\ local[t].op \in {NULL, "trunc", "free", "umount"} /\ SelfOK(t)
        /\ pc[t] = "scan" /\ MountRoot \in Id
    BY TaskFacts, Constants DEF Miss, At, Locals
  <2> QED BY <1>0, <2>1, TaskFacts DEF RefInv, SelfOK, Typed
<1>2. /\ m \in Locals /\ m.slot = s /\ m.empty = NULL /\ m.id = local[t].id
      /\ m.op = NULL
  BY <1>1 DEF Locals, slot
<1>3. Moves(t, "read", m) /\ inode' = [inode EXCEPT ![s] = x]
  BY <1>1, <1>2 DEF Miss, Sleep, Moves, Points, RefInv, Typed
<1>4. /\ x \in InodeRec /\ x.id = local[t].id /\ x.count = 1 /\ x.lock /\ ~x.dirt
      /\ ~x.mount
  BY <1>1 DEF InodeRec, Empty
<1>5. inode[s].count = 1 /\ ~inode[s].lock /\ Holds(t, s)
  BY <1>1 DEF Empty, Holds
<1> HIDE DEF m, x
<1>6. /\ Alone(t) /\ pc'[t] = "read" /\ local'[t] = m
      /\ pc' \in [Task -> Points] /\ local' \in [Task -> Locals]
  BY <1>3, MovesOK
<1>7. UNCHANGED <<dinode, imap, zmap, stuck, names, super>>
  BY DEF Miss, maps
<1>8. Typed' /\ inode'[s] = x
  BY <1>1, <1>3, <1>4, <1>6, <1>7 DEF RefInv, Typed
<1>9. Calm(t)
  BY <1>1, <1>2, <1>6, <1>7, <1>8, UmountStays DEF Calm
<1>10. ASSUME NEW u \in Task \ {t}
       PROVE  (slot(u) = s => HeldOK(u, x)) /\ (pc[u] = "scan" => local[u].empty # s)
  BY <1>1, <1>5, SoleSlot
<1>11. \A q \in Slot \ {s} : Holds(t, q)' <=> Holds(t, q)
  BY <1>1, <1>2, <1>6, Constants DEF Holds, slot
<1>12. Holds(t, s)'
  BY <1>2, <1>6 DEF Holds, slot
<1>13. x.count = inode[s].count - One(Holds(t, s)) + One(Holds(t, s)')
  BY <1>4, <1>5, <1>12 DEF One
<1>14. super.imount = s => Umounting
  <2>1. MountRef(s) = 0
    BY <1>5, Sole
  <2> QED BY <2>1 DEF MountRef, Umounting
<1>15. SlotOK(s, x)
  BY <1>1, <1>4, <1>14 DEF RefInv, SlotsOK, SlotOK
<1>16. \A q \in Slot \ {s} : inode[q].id # x.id
  BY <1>4 DEF Miss, Cached
<1>17. Fits(t, s, x)
  BY <1>10, <1>11, <1>13, <1>15, <1>16 DEF Fits
<1>18. TaskOK(t)'
  BY <1>1, <1>2, <1>4, <1>6, <1>7, <1>8, <1>9, Constants
     DEF TaskOK, SelfOK, slot, held, HeldOK, Freeing, Having, Locking, Calm
<1>19. OwnApart(t)
  <2>1. slot(t)' = s /\ pc'[t] # "super"
    BY <1>2, <1>6 DEF slot
  <2>2. \A u \in Task \ {t} : slot(u) = s => pc[u] \notin Locking
    BY <1>5, SoleSlot DEF Locking
  <2> QED BY <2>1, <2>2 DEF OwnApart
<1> QED BY <1>1, <1>3, <1>9, <1>17, <1>18, <1>19, OneSlot

LEMMA SlotMoves ==
    ASSUME RefInv, NEW t \in Task, NEW s \in Slot, NEW x \in InodeRec, NEW l, NEW m,
           Moves(t, l, m), inode' = [inode EXCEPT ![s] = x], super' = super, Maps,
           dinode' \in [Id -> DataRec], names \subseteq names' \/ LooksOK(t),
           m.op = "umount" <=> local[t].op = "umount", Fits(t, s, x), TaskOK(t)',
           l \in Locking => \A u \in Task \ {t} : pc[u] \in Locking => slot(u) # m.slot,
           l # "super"
    PROVE  RefStep(t)
<1>1. /\ Alone(t) /\ pc'[t] = l /\ local'[t] = m
      /\ pc' \in [Task -> Points] /\ local' \in [Task -> Locals]
  BY MovesOK
<1>2. Typed'
  BY <1>1 DEF RefInv, Typed, Maps
<1>3. Calm(t)
  BY <1>1, <1>2, UmountStays DEF Calm
<1>4. OwnApart(t)
  BY <1>1 DEF OwnApart, slot
<1> QED BY <1>3, <1>4, OneSlot

(* An inode that only t has, and has locked. *)
LEMMA SoleLocked ==
    ASSUME RefInv, NEW t \in Task, NEW s \in Slot, Holds(t, s), inode[s].count = 1,
           pc[t] \in Locking, slot(t) = s, NEW u \in Task \ {t}
    PROVE  /\ local[u].empty # s
           /\ slot(u) = s => pc[u] \in {"sync", "umounted"} /\ \A x : HeldOK(u, x)
<1>1. local[u].empty # s /\ (slot(u) = s => pc[u] \in {"sync", "syncwrite", "umounted"})
  BY Sole DEF Holds
<1>2. slot(u) = s => pc[u] # "syncwrite"
  BY DEF RefInv, Apart, Locking
<1> QED BY <1>1, <1>2 DEF HeldOK, Having, Locking, Freeing

LEMMA ReadInodeRefs ==
    ASSUME RefInv, NEW t \in Task, ReadInode(t)
    PROVE  RefStep(t)
<1>1. PICK s \in Slot : s = slot(t)
  BY TaskFacts DEF ReadInode, At, SelfOK, Having
<1> DEFINE x == [inode[s] EXCEPT !.data = dinode[local[t].id], !.lock = FALSE]
<1>2. /\ pc[t] = "read" /\ local[t] \in Locals /\ TaskOK(t)
      /\ inode[s] \in InodeRec /\ inode[s].count = 1 /\ ~inode[s].dirt
      /\ inode[s].id = local[t].id /\ local[t].id \in Id /\ dinode[local[t].id] \in DataRec
      /\ local[t].op # "umount" /\ Holds(t, s)
  BY <1>1, TaskFacts
     DEF ReadInode, At, RefInv, SelfOK, HeldOK, held, Having, Typed, Holds
<1>3. /\ x \in InodeRec /\ x.id = inode[s].id /\ x.count = 1 /\ ~x.lock /\ ~x.dirt
      /\ x.mount = inode[s].mount
  BY <1>2 DEF InodeRec
<1>4. Moves(t, "use", local[t]) /\ inode' = [inode EXCEPT ![s] = x]
  BY <1>1, <1>2 DEF ReadInode, Sleep, Moves, Points, RefInv, Typed
<1> HIDE DEF x
<1>5. pc'[t] = "use" /\ local'[t] = local[t] /\ inode'[s] = x /\ Alone(t)
  BY <1>3, <1>4, MovesOK DEF RefInv, Typed
<1>6. UNCHANGED <<dinode, imap, zmap, stuck, names, super>>
  BY DEF ReadInode, maps
<1>7. Maps /\ dinode' \in [Id -> DataRec]
  BY <1>6 DEF Maps, RefInv, Typed
<1>8. Umounting' <=> Umounting
  BY <1>5, UmountStays
<1>9. \A r \in Slot : Holds(t, r)' <=> Holds(t, r)
  BY <1>2, <1>5 DEF Holds, slot
<1>10. x.count = inode[s].count - One(Holds(t, s)) + One(Holds(t, s)')
  BY <1>2, <1>3, <1>9 DEF One
<1>11. SlotOK(s, x) /\ \A r \in Slot \ {s} : inode[r].id # x.id
  BY <1>2, <1>3, Constants DEF RefInv, SlotsOK, SlotOK, IdsUnique
<1>12. ASSUME NEW u \in Task \ {t}
       PROVE  (slot(u) = s => HeldOK(u, x)) /\ (pc[u] = "scan" => local[u].empty # s)
  BY <1>1, <1>2, SoleLocked DEF Locking
<1>13. Fits(t, s, x)
  BY <1>9, <1>10, <1>11, <1>12 DEF Fits
<1>14. TaskOK(t)'
  BY <1>1, <1>2, <1>3, <1>5, <1>6, <1>8
     DEF TaskOK, SelfOK, slot, held, HeldOK, Freeing, Having, Locking
<1> QED BY <1>3, <1>4, <1>6, <1>7, <1>13, <1>14, SlotMoves DEF Locking

(* If two have an inode, it is not being read or freed. *)
LEMMA TwoHold ==
    ASSUME RefInv, NEW t \in Task, NEW s \in Slot, Holds(t, s), NEW u \in Task \ {t},
           slot(u) = s
    PROVE  pc[u] # "read" /\ pc[u] # "entry" /\ ~Freeing(u)
<1>1. pc[u] = "read" \/ pc[u] = "entry" \/ Freeing(u) => inode[s].count = 1 /\ Holds(u, s)
  BY TaskFacts DEF HeldOK, held, Holds, Freeing
<1> QED BY <1>1, Sole

(* The holder of a regular file changes it. *)
LEMMA Changes ==
    ASSUME RefInv, NEW t \in Task, ~Freeing(t), local[t].id \in File,
           pc[t] \in {"use", "newblock", "truncate", "entry"},
           NEW s, s = slot(t), NEW x \in InodeRec, inode' = [inode EXCEPT ![s] = x],
           x.id = inode[s].id, x.count = inode[s].count, x.lock = inode[s].lock,
           x.mount = inode[s].mount, inode[s].dirt => x.dirt,
           NEW l \in {"use", "iput"}, NEW m, Moves(t, l, m), m.op = NULL, m.id = local[t].id,
           m.slot = local[t].slot, m.empty = local[t].empty,
           super' = super, Maps, dinode' = dinode, names' = names \/ LooksOK(t)
    PROVE  RefStep(t)
<1>1. /\ s \in Slot /\ TaskOK(t) /\ Holds(t, s) /\ inode[s].id = local[t].id
      /\ local[t].empty = NULL /\ local[t].op # "umount"
  BY TaskFacts, Constants DEF RefInv, TaskOK, SelfOK, HeldOK, held, Having, Holds
<1>2. pc'[t] = l /\ local'[t] = m /\ inode'[s] = x /\ Alone(t)
  BY <1>1, MovesOK DEF RefInv, Typed
<1>3. Umounting' <=> Umounting
  BY <1>1, <1>2, Constants, UmountStays
<1>4. \A r \in Slot : Holds(t, r)' <=> Holds(t, r)
  BY <1>1, <1>2 DEF Holds, slot
<1>5. x.count = inode[s].count - One(Holds(t, s)) + One(Holds(t, s)')
  <2>1. One(Holds(t, s)') = One(Holds(t, s)) /\ One(Holds(t, s)) \in Nat
    BY <1>1, <1>4 DEF One
  <2>2. inode[s].count \in Nat
    BY <1>1, CountSays
  <2> QED BY <2>1, <2>2
<1>6. inode[s].count # 0
  BY <1>1, Alive
<1>7. SlotOK(s, x) /\ \A r \in Slot \ {s} : inode[r].id # x.id
  BY <1>1, <1>6, Constants DEF RefInv, SlotsOK, SlotOK, IdsUnique, Id
<1>8. ASSUME NEW u \in Task \ {t}
      PROVE  (slot(u) = s => HeldOK(u, x)) /\ (pc[u] = "scan" => local[u].empty # s)
  <2>1. slot(u) = s => HeldOK(u, inode[s]) /\ pc[u] # "read" /\ pc[u] # "entry" /\ ~Freeing(u)
    BY <1>1, TaskFacts, TwoHold DEF held
  <2>2. slot(u) = s => HeldOK(u, x)
    BY <2>1 DEF HeldOK
  <2>3. pc[u] = "scan" => inode[local[u].empty].id = NULL
    BY TaskFacts DEF Empty
  <2> QED BY <1>1, <2>2, <2>3, Constants DEF Id
<1>9. Fits(t, s, x)
  BY <1>4, <1>5, <1>7, <1>8 DEF Fits
<1>10. TaskOK(t)'
  BY <1>1, <1>2, <1>3, Constants
     DEF TaskOK, SelfOK, slot, held, HeldOK, Freeing, Having, Locking, Id
<1>11. names \subseteq names' \/ LooksOK(t)
  OBVIOUS
<1>12. dinode' \in [Id -> DataRec]
  BY DEF RefInv, Typed
<1> QED BY <1>1, <1>9, <1>10, <1>11, <1>12, SlotMoves, Constants DEF Locking

LEMMA BlockMadeRefs ==
    ASSUME RefInv, NEW t \in Task, BlockMade(t)
    PROVE  RefStep(t)
<1> DEFINE s == slot(t)
           m == [local[t] EXCEPT !.block = NULL]
           d == [held(t).data EXCEPT !.zone = local[t].block]
           x == [inode[s] EXCEPT !.data = d, !.dirt = TRUE]
<1>1. /\ pc[t] = "newblock" /\ local[t] \in Locals /\ TaskOK(t) /\ s \in Slot
      /\ local[t].id \in File /\ inode[s] \in InodeRec /\ local[t].op = NULL
  <2>1. local[t].op \in {NULL, "trunc", "free", "umount"}
    BY TaskFacts DEF Locals
  <2> QED BY <2>1, TaskFacts DEF BlockMade, At, RefInv, SelfOK, HeldOK, Having, Typed, held
<1>2. /\ m \in Locals /\ m.slot = local[t].slot /\ m.empty = local[t].empty
      /\ m.id = local[t].id /\ m.op = NULL
  BY <1>1 DEF Locals, Zone
<1>3. /\ x \in InodeRec /\ x.id = inode[s].id /\ x.count = inode[s].count
      /\ x.lock = inode[s].lock /\ x.mount = inode[s].mount /\ x.dirt
  BY <1>1 DEF InodeRec, DataRec, Zone, Locals, held
<1>4. inode' = [inode EXCEPT ![s] = x] /\ Moves(t, "use", m)
  BY <1>1, <1>2 DEF BlockMade, Change, Sleep, Moves, Points, RefInv, Typed
<1>5. Maps /\ dinode' = dinode /\ super' = super /\ names' = names
  BY DEF BlockMade, Maps, maps, RefInv, Typed
<1> HIDE DEF m, x
<1> QED BY <1>1, <1>2, <1>3, <1>4, <1>5, Changes DEF Freeing

(* Nobody looks for a name that goes. *)
LEMMA UnlinkRefs ==
    ASSUME RefInv, NoRaces, NEW t \in Task, Unlink(t)
    PROVE  RefStep(t)
<1> DEFINE s == slot(t)
           x == [inode[s] EXCEPT !.data = [held(t).data EXCEPT !.nlinks = 0], !.dirt = TRUE]
<1>1. /\ pc[t] = "use" /\ local[t] \in Locals /\ TaskOK(t) /\ s \in Slot
      /\ local[t].id \in File /\ inode[s] \in InodeRec /\ local[t].op = NULL
      /\ held(t).id = local[t].id
  <2>1. local[t].op \in {NULL, "trunc", "free", "umount"}
    BY TaskFacts DEF Locals
  <2> QED BY <2>1, TaskFacts
          DEF Unlink, InUse, At, RefInv, SelfOK, HeldOK, Having, Typed, held
<1>2. /\ x \in InodeRec /\ x.id = inode[s].id /\ x.count = inode[s].count
      /\ x.lock = inode[s].lock /\ x.mount = inode[s].mount /\ x.dirt
  BY <1>1 DEF InodeRec, DataRec, held
<1>3. inode' = [inode EXCEPT ![s] = x] /\ Moves(t, "iput", local[t])
  BY <1>1 DEF Unlink, Change, Goto, Moves, Points, RefInv, Typed
<1>4. Maps /\ dinode' = dinode /\ super' = super
  BY DEF Unlink, Maps, maps, RefInv, Typed
<1>5. LooksOK(t)
  <2> SUFFICES ASSUME NEW u \in Task \ {t}, pc[u] \in {"iget", "scan"}
               PROVE  local[u].id \in names' \cup {MountRoot}
    BY DEF LooksOK
  <2>1. local[u].id \in names \cup {MountRoot}
    BY TaskFacts DEF SelfOK
  <2>2. local[u].id # held(t).id
    BY DEF Unlink, Undisturbed, NoRaces
  <2> QED BY <2>1, <2>2 DEF Unlink
<1> HIDE DEF x
<1> QED BY <1>1, <1>2, <1>3, <1>4, <1>5, Changes DEF Freeing

LEMMA EntryFailsRefs ==
    ASSUME RefInv, NEW t \in Task, AddEntry(t, FALSE)
    PROVE  RefStep(t)
<1> DEFINE s == slot(t)
           x == [inode[s] EXCEPT !.data.nlinks = 0]
<1>1. /\ pc[t] = "entry" /\ local[t] \in Locals /\ TaskOK(t) /\ s \in Slot
      /\ local[t].id \in File /\ inode[s] \in InodeRec /\ local[t].op = NULL
  <2>1. local[t].op \in {NULL, "trunc", "free", "umount"}
    BY TaskFacts DEF Locals
  <2> QED BY <2>1, TaskFacts
          DEF AddEntry, At, RefInv, SelfOK, HeldOK, Having, Typed, held
<1>2. /\ x \in InodeRec /\ x.id = inode[s].id /\ x.count = inode[s].count
      /\ x.lock = inode[s].lock /\ x.mount = inode[s].mount /\ x.dirt = inode[s].dirt
  BY <1>1 DEF InodeRec, DataRec
<1>3. inode' = [inode EXCEPT ![s] = x] /\ Moves(t, "iput", local[t])
  BY <1>1 DEF AddEntry, Goto, Moves, Points, RefInv, Typed
<1>4. Maps /\ dinode' = dinode /\ super' = super /\ names' = names
  BY DEF AddEntry, Maps, maps, RefInv, Typed
<1> HIDE DEF x
<1> QED BY <1>1, <1>2, <1>3, <1>4, Changes DEF Freeing

(* What becomes of the bitmap of blocks at the end of truncate. *)
LEMMA FreeBlockMaps ==
    ASSUME RefInv, NEW t \in Task, FreeBlock(t), local[t].block \in zmap \cup {NULL}
    PROVE  zmap' \subseteq Block /\ stuck' \subseteq zmap'
<1>1. /\ stuck \subseteq zmap /\ zmap \subseteq Block
  BY DEF RefInv, Typed
<1>2. CASE local[t].block = NULL
  BY <1>1, <1>2 DEF FreeBlock
<1>3. CASE local[t].block # NULL /\ Counted(t, local[t].block)
  BY <1>1, <1>3 DEF FreeBlock
<1>4. CASE local[t].block # NULL /\ ~Counted(t, local[t].block)
  <2>1. zmap' = zmap \ {local[t].block} /\ stuck' = stuck
    BY <1>4 DEF FreeBlock
  <2>2. local[t].block \notin stuck
    BY <1>4 DEF Counted
  <2> QED BY <1>1, <2>1, <2>2
<1> QED BY <1>2, <1>3, <1>4

LEMMA TruncatedRefs ==
    ASSUME RefInv, NEW t \in Task, Truncated(t), local[t].op # "free",
           local[t].block \in zmap \cup {NULL}
    PROVE  RefStep(t)
<1> DEFINE s == slot(t)
           m == [local[t] EXCEPT !.op = NULL, !.block = NULL]
           x == [inode[s] EXCEPT !.data = [held(t).data EXCEPT !.zone = NULL], !.dirt = TRUE]
<1>1. /\ pc[t] = "truncate" /\ local[t] \in Locals /\ TaskOK(t) /\ s \in Slot
      /\ local[t].id \in File /\ inode[s] \in InodeRec
  BY TaskFacts DEF Truncated, At, RefInv, SelfOK, HeldOK, Having, Typed, held
<1>2. /\ m \in Locals /\ m.slot = local[t].slot /\ m.empty = local[t].empty
      /\ m.id = local[t].id /\ m.op = NULL
  BY <1>1 DEF Locals, Zone
<1>3. /\ x \in InodeRec /\ x.id = inode[s].id /\ x.count = inode[s].count
      /\ x.lock = inode[s].lock /\ x.mount = inode[s].mount /\ x.dirt
  BY <1>1 DEF InodeRec, DataRec, Zone, held
<1>4. inode' = [inode EXCEPT ![s] = x] /\ Moves(t, "use", m)
  BY <1>1, <1>2 DEF Truncated, Change, Sleep, Moves, Points, RefInv, Typed
<1>5. dinode' = dinode /\ super' = super /\ names' = names /\ imap' = imap
  BY DEF Truncated
<1>6. Maps
  BY <1>5, FreeBlockMaps DEF Truncated, Maps, RefInv, Typed
<1> HIDE DEF m, x
<1> QED BY <1>1, <1>2, <1>3, <1>4, <1>5, <1>6, Changes DEF Freeing

-----------------------------------------------------------------------------
(* iput gives the inode up; AfterIput is the return from it. *)
LEMMA AfterIputMoves ==
    ASSUME RefInv, NEW t \in Task, pc[t] = "iput", AfterIput(t)
    PROVE  \E l \in {"user", "umounted"}, m \in Locals :
              /\ Moves(t, l, m) /\ (m.op = "umount" <=> local[t].op = "umount")
              /\ l = "user" => m = NoLocals /\ local[t].op # "umount"
              /\ l = "umounted" => m = local[t] /\ local[t].op = "umount"
<1>1. local[t] \in Locals /\ pc \in [Task -> Points] /\ local \in [Task -> Locals]
  BY DEF RefInv, Typed
<1>2. NoLocals \in Locals /\ NoLocals.op # "umount"
  BY Constants DEF Locals, NoLocals, Zone
<1>3. CASE local[t].op = "umount"
  <2>1. Moves(t, "umounted", local[t])
    BY <1>1, <1>3 DEF AfterIput, Goto, Moves, Points
  <2> QED BY <1>1, <1>3, <2>1
<1>4. CASE local[t].op # "umount"
  <2>1. Moves(t, "user", NoLocals)
    BY <1>1, <1>2, <1>4 DEF AfterIput, Return, Sleep, Moves, Points
  <2> QED BY <1>2, <1>4, <2>1
<1> QED BY <1>3, <1>4

LEMMA DropRefs ==
    ASSUME RefInv, NEW t \in Task, Drop(t)
    PROVE  RefStep(t)
<1> DEFINE y == [held(t) EXCEPT !.count = @ - 1]
<1>0. PICK s \in Slot : s = slot(t)
  BY TaskFacts DEF Drop, Iput, At, SelfOK, Having
<1>1. /\ pc[t] = "iput" /\ local[t] \in Locals /\ TaskOK(t)
      /\ inode[s] \in InodeRec /\ ~inode[s].lock
      /\ inode[s].id = local[t].id /\ local[t].id \in Id /\ local[t].empty = NULL
      /\ Holds(t, s) /\ local[t].op \notin {"trunc", "free"}
      /\ inode[s].count > 1 \/ (inode[s].data.nlinks > 0 /\ ~inode[s].dirt)
  BY <1>0, TaskFacts
     DEF Drop, Iput, At, RefInv, SelfOK, HeldOK, held, Having, Typed, Holds
<1>2. inode[s].count \in Nat \ {0}
  BY <1>1, Alive
<1>x. PICK x : x = [inode[s] EXCEPT !.count = @ - 1]
  OBVIOUS
<1>3. /\ x \in InodeRec /\ x.id = inode[s].id /\ x.count = inode[s].count - 1
      /\ x.lock = inode[s].lock /\ x.mount = inode[s].mount /\ x.dirt = inode[s].dirt
  BY <1>1, <1>2, <1>x DEF InodeRec
<1>4. inode' = [inode EXCEPT ![s] = x] /\ AfterIput(t)
  BY <1>0, <1>x DEF Drop
<1>5. PICK l \in {"user", "umounted"}, m \in Locals :
          /\ Moves(t, l, m) /\ (m.op = "umount" <=> local[t].op = "umount")
          /\ l = "user" => m = NoLocals /\ local[t].op # "umount"
          /\ l = "umounted" => m = local[t] /\ local[t].op = "umount"
  BY <1>1, <1>4, AfterIputMoves
<1>6. pc'[t] = l /\ local'[t] = m /\ Alone(t) /\ inode'[s] = x
  BY <1>4, <1>5, MovesOK DEF RefInv, Typed
<1>7. UNCHANGED <<dinode, imap, zmap, stuck, names, super>>
  BY DEF Drop, maps
<1>8. Maps /\ dinode' \in [Id -> DataRec] /\ names \subseteq names'
  BY <1>7 DEF Maps, RefInv, Typed
<1>9. Umounting' <=> Umounting
  BY <1>5, <1>6, UmountStays
<1>10. ~Holds(t, s)' /\ \A r \in Slot \ {s} : Holds(t, r)' <=> Holds(t, r)
  BY <1>0, <1>1, <1>5, <1>6, Constants DEF Holds, slot, NoLocals
<1>11. x.count = inode[s].count - One(Holds(t, s)) + One(Holds(t, s)')
  BY <1>1, <1>2, <1>3, <1>10 DEF One
<1>12. inode[s].count = 1 => ~inode[s].mount
  <2>1. inode[s].count = 1 => MountRef(s) = 0
    BY <1>1, Sole
  <2>2. inode[s].mount => MountRef(s) = 1
    BY MountFacts
  <2> QED BY <2>1, <2>2
<1>13. SlotOK(s, x) /\ \A r \in Slot \ {s} : inode[r].id # x.id
  BY <1>1, <1>2, <1>3, <1>12, Constants DEF RefInv, SlotsOK, SlotOK, IdsUnique
<1>14. ASSUME NEW u \in Task \ {t}
       PROVE  (slot(u) = s => HeldOK(u, x)) /\ (pc[u] = "scan" => local[u].empty # s)
  <2>1. slot(u) = s => HeldOK(u, inode[s]) /\ pc[u] # "read" /\ pc[u] # "entry" /\ ~Freeing(u)
    BY <1>1, TaskFacts, TwoHold DEF held
  <2>2. slot(u) = s => HeldOK(u, x)
    BY <1>3, <2>1 DEF HeldOK
  <2>3. pc[u] = "scan" => inode[local[u].empty].id = NULL
    BY TaskFacts DEF Empty
  <2> QED BY <1>1, <2>2, <2>3, Constants
<1>15. Fits(t, s, x)
  BY <1>10, <1>11, <1>13, <1>14 DEF Fits
<1>16. TaskOK(t)'
  BY <1>1, <1>5, <1>6, <1>7, <1>9, Constants
     DEF TaskOK, SelfOK, slot, held, HeldOK, Freeing, Having, Locking, NoLocals
<1> QED BY <1>3, <1>4, <1>5, <1>7, <1>8, <1>15, <1>16, SlotMoves DEF Locking

LEMMA DropWritingRefs ==
    ASSUME RefInv, NEW t \in Task, DropWriting(t)
    PROVE  RefStep(t)
<1>0. PICK s \in Slot : s = slot(t)
  BY TaskFacts DEF DropWriting, Iput, At, SelfOK, Having
<1>1. /\ pc[t] = "iput" /\ local[t] \in Locals /\ TaskOK(t)
      /\ inode[s] \in InodeRec /\ ~inode[s].lock /\ inode[s].count = 1 /\ inode[s].dirt
      /\ inode[s].id = local[t].id /\ local[t].id \in Id /\ local[t].empty = NULL
      /\ Holds(t, s) /\ local[t].op \notin {"trunc", "free"}
  BY <1>0, TaskFacts
     DEF DropWriting, Iput, At, RefInv, SelfOK, HeldOK, held, Having, Typed, Holds
<1>x. PICK x, m : /\ x = [inode[s] EXCEPT !.lock = TRUE]
                  /\ m = [local[t] EXCEPT !.slot = s, !.id = inode[s].id]
  OBVIOUS
<1>2. m = local[t]
  BY <1>0, <1>1, <1>x DEF Locals, slot
<1>3. /\ x \in InodeRec /\ x.id = inode[s].id /\ x.count = 1 /\ x.dirt
      /\ x.lock /\ x.mount = inode[s].mount
  BY <1>1, <1>x DEF InodeRec
<1>4. inode' = [inode EXCEPT ![s] = x] /\ Moves(t, "write", local[t])
  <2>1. local \in [Task -> Locals] /\ pc \in [Task -> Points]
    BY DEF RefInv, Typed
  <2>2. /\ inode' = [inode EXCEPT ![s].lock = TRUE]
        /\ local' = [local EXCEPT ![t].slot = s, ![t].id = inode[s].id]
        /\ pc' = [pc EXCEPT ![t] = "write"]
    BY <1>0 DEF DropWriting, Write, Sleep
  <2>3. local' = [local EXCEPT ![t] = m]
    BY <1>1, <1>x, <2>1, <2>2 DEF Locals
  <2>4. inode' = [inode EXCEPT ![s] = x]
    BY <1>x, <2>2
  <2> QED BY <1>1, <1>2, <2>2, <2>3, <2>4 DEF Moves, Points
<1>5. pc'[t] = "write" /\ local'[t] = local[t] /\ Alone(t) /\ inode'[s] = x
  BY <1>4, MovesOK DEF RefInv, Typed
<1>6. UNCHANGED <<dinode, imap, zmap, stuck, names, super>>
  BY DEF DropWriting, Write, maps
<1>7. Maps /\ dinode' \in [Id -> DataRec] /\ names \subseteq names'
  BY <1>6 DEF Maps, RefInv, Typed
<1>8. Umounting' <=> Umounting
  BY <1>5, UmountStays
<1>9. \A r \in Slot : Holds(t, r)' <=> Holds(t, r)
  BY <1>1, <1>5 DEF Holds, slot
<1>10. x.count = inode[s].count - One(Holds(t, s)) + One(Holds(t, s)')
  BY <1>1, <1>3, <1>9 DEF One
<1>11. SlotOK(s, x) /\ \A r \in Slot \ {s} : inode[r].id # x.id
  BY <1>1, <1>3, Constants DEF RefInv, SlotsOK, SlotOK, IdsUnique
<1>12. ASSUME NEW u \in Task \ {t}
       PROVE  (slot(u) = s => HeldOK(u, x)) /\ (pc[u] = "scan" => local[u].empty # s)
  BY <1>1, SoleSlot
<1>13. Fits(t, s, x)
  BY <1>9, <1>10, <1>11, <1>12 DEF Fits
<1>14. TaskOK(t)'
  BY <1>0, <1>1, <1>3, <1>5, <1>6, <1>8
     DEF TaskOK, SelfOK, slot, held, HeldOK, Freeing, Having, Locking
<1>15. \A u \in Task \ {t} : pc[u] \in Locking => slot(u) # local[t].slot
  <2>1. \A u \in Task \ {t} : slot(u) = s => pc[u] \in {"sync", "umounted"}
    BY <1>1, SoleSlot
  <2> QED BY <1>0, <2>1 DEF Locking, slot
<1> QED BY <1>3, <1>4, <1>6, <1>7, <1>13, <1>14, <1>15, SlotMoves

LEMMA WriteInodeRefs ==
    ASSUME RefInv, NEW t \in Task, WriteInode(t)
    PROVE  RefStep(t)
<1>0. PICK s \in Slot : s = slot(t)
  BY TaskFacts DEF WriteInode, At, SelfOK, Having
<1>1. /\ pc[t] \in {"write", "syncwrite"} /\ local[t] \in Locals /\ TaskOK(t) /\ SelfOK(t)
      /\ inode[s] \in InodeRec /\ inode[s].lock /\ inode[s].dirt
      /\ inode[s].id \in File \cup Dir /\ local[t].empty = NULL
  <2>1. pc[t] \in {"write", "syncwrite"} /\ TaskOK(t) /\ HeldOK(t, inode[s])
    BY <1>0, TaskFacts DEF WriteInode, At, held, RefInv
  <2> QED
    BY <2>1, TaskFacts DEF RefInv, Typed, SelfOK, HeldOK, Locking, SlotsOK, SlotOK
<1>2. PICK l \in {"iput", "sync"} :
          /\ pc' = [pc EXCEPT ![t] = l] /\ (l = "iput" <=> pc[t] = "write")
  BY <1>1 DEF WriteInode, Goto, Sleep
<1>x. PICK x : x = [inode[s] EXCEPT !.dirt = FALSE, !.lock = FALSE]
  OBVIOUS
<1>3. /\ x \in InodeRec /\ x.id = inode[s].id /\ x.count = inode[s].count /\ ~x.dirt
      /\ ~x.lock /\ x.mount = inode[s].mount /\ x.data = inode[s].data
  BY <1>1, <1>x DEF InodeRec
<1>4. inode' = [inode EXCEPT ![s] = x] /\ Moves(t, l, local[t])
  <2>1. inode' = [inode EXCEPT ![s].dirt = FALSE, ![s].lock = FALSE]
    BY <1>0 DEF WriteInode
  <2>2. inode' = [inode EXCEPT ![s] = x]
    BY <1>x, <2>1 DEF RefInv, Typed
  <2> QED BY <1>1, <1>2, <2>2 DEF WriteInode, Moves, Points, RefInv, Typed
<1>5. pc'[t] = l /\ local'[t] = local[t] /\ Alone(t) /\ inode'[s] = x
  BY <1>4, MovesOK DEF RefInv, Typed
<1>6. UNCHANGED <<imap, zmap, stuck, names, super>>
  BY DEF WriteInode, maps
<1>7. Maps /\ names \subseteq names'
  BY <1>6 DEF Maps, RefInv, Typed
<1>8. dinode' \in [Id -> DataRec]
  <2>1. inode[s].data \in DataRec /\ dinode \in [Id -> DataRec]
    BY <1>1 DEF InodeRec, RefInv, Typed
  <2>2. dinode' = [dinode EXCEPT ![inode[s].id] = inode[s].data]
    BY <1>0, <1>1, Constants DEF WriteInode, held
  <2> QED BY <2>1, <2>2
<1>9. Umounting' <=> Umounting
  BY <1>5, UmountStays
<1>10. \A r \in Slot : Holds(t, r)' <=> Holds(t, r)
  BY <1>1, <1>2, <1>5 DEF Holds, slot
<1>11. x.count = inode[s].count - One(Holds(t, s)) + One(Holds(t, s)')
  <2>1. One(Holds(t, s)') = One(Holds(t, s)) /\ One(Holds(t, s)) \in Nat
    BY <1>10 DEF One
  <2> QED BY <1>3, <2>1, CountSays
<1>12. SlotOK(s, x) /\ \A r \in Slot \ {s} : x.id # NULL => inode[r].id # x.id
  BY <1>1, <1>3 DEF RefInv, SlotsOK, SlotOK, IdsUnique
<1>13. ASSUME NEW u \in Task \ {t}
       PROVE  (slot(u) = s => HeldOK(u, x)) /\ (pc[u] = "scan" => local[u].empty # s)
  <2>1. slot(u) = s => HeldOK(u, inode[s]) /\ pc[u] \notin Locking
    BY <1>0, <1>1, TaskFacts DEF held, RefInv, Apart, Locking
  <2>2. slot(u) = s => HeldOK(u, x)
    BY <1>3, <2>1 DEF HeldOK, Locking
  <2>3. pc[u] = "scan" => inode[local[u].empty].id = NULL
    BY TaskFacts DEF Empty
  <2> QED BY <1>1, <2>2, <2>3, Constants
<1>14. Fits(t, s, x)
  BY <1>10, <1>11, <1>12, <1>13 DEF Fits
<1>15. TaskOK(t)'
  BY <1>0, <1>1, <1>2, <1>3, <1>5, <1>6, <1>9
     DEF TaskOK, SelfOK, slot, held, HeldOK, Freeing, Having, Locking
<1> QED BY <1>2, <1>3, <1>4, <1>6, <1>7, <1>8, <1>14, <1>15, SlotMoves DEF Locking

(* free_inode. *)
LEMMA FreedRefs ==
    ASSUME RefInv, NEW t \in Task, Truncated(t), local[t].op = "free",
           local[t].block \in zmap \cup {NULL}
    PROVE  RefStep(t)
<1>0. PICK s \in Slot : s = slot(t)
  BY TaskFacts DEF Truncated, At, SelfOK, Having
<1>1. /\ pc[t] = "truncate" /\ local[t] \in Locals /\ TaskOK(t) /\ Holds(t, s)
      /\ inode[s] \in InodeRec /\ inode[s].count = 1 /\ ~inode[s].lock
      /\ local[t].empty = NULL
  BY <1>0, TaskFacts
     DEF Truncated, At, RefInv, SelfOK, HeldOK, held, Having, Typed, Holds, Freeing
<1>2. /\ NoLocals \in Locals /\ NoLocals.slot = NULL /\ NoLocals.empty = NULL
      /\ NoLocals.op = NULL /\ NoLocals.id = NULL
  BY DEF Locals, NoLocals, Zone
<1>3. /\ Empty \in InodeRec /\ Empty.id = NULL /\ Empty.count = 0 /\ ~Empty.dirt
      /\ ~Empty.lock /\ ~Empty.mount
  BY DEF Empty, InodeRec, Data, DataRec, Zone
<1>4. inode' = [inode EXCEPT ![s] = Empty] /\ Moves(t, "user", NoLocals)
  BY <1>0, <1>2 DEF Truncated, FreeInode, Return, Sleep, Moves, Points
<1>5. pc'[t] = "user" /\ local'[t] = NoLocals /\ Alone(t) /\ inode'[s] = Empty
  BY <1>4, MovesOK DEF RefInv, Typed
<1>6. dinode' = dinode /\ super' = super /\ names' = names /\ imap' \subseteq Id
  BY DEF Truncated, FreeInode, RefInv, Typed
<1>7. Maps /\ names \subseteq names' /\ dinode' \in [Id -> DataRec]
  BY <1>6, FreeBlockMaps DEF Truncated, Maps, RefInv, Typed
<1>8. NoLocals.op = "umount" <=> local[t].op = "umount"
  BY <1>2, Constants
<1>9. Umounting' <=> Umounting
  BY <1>5, <1>8, UmountStays
<1>10. ~Holds(t, s)' /\ \A r \in Slot \ {s} : Holds(t, r)' <=> Holds(t, r)
  BY <1>0, <1>1, <1>2, <1>5, Constants DEF Holds, slot
<1>11. Empty.count = inode[s].count - One(Holds(t, s)) + One(Holds(t, s)')
  BY <1>1, <1>3, <1>10 DEF One
<1>12. SlotOK(s, Empty)
  <2>1. MountRef(s) = 0
    BY <1>1, Sole
  <2>2. super.imount = s => Umounting
    BY <2>1 DEF MountRef, Umounting
  <2> QED BY <1>3, <2>2 DEF RefInv, SlotsOK, SlotOK
<1>13. ASSUME NEW u \in Task \ {t}
       PROVE  /\ slot(u) = s => HeldOK(u, Empty)
              /\ pc[u] = "scan" => local[u].empty # s
  BY <1>1, SoleSlot
<1>14. Fits(t, s, Empty)
  BY <1>3, <1>10, <1>11, <1>12, <1>13 DEF Fits
<1>15. TaskOK(t)'
  BY <1>2, <1>5, <1>6, <1>9, Constants
     DEF TaskOK, SelfOK, slot, held, HeldOK, Freeing, Having, Locking
<1> QED BY <1>3, <1>4, <1>6, <1>7, <1>8, <1>14, <1>15, SlotMoves DEF Locking

(* new_inode: inode i is in no slot. *)
LEMMA NewInodeRefs ==
    ASSUME RefInv, NEW t \in Task, NEW s \in Slot, NEW i \in File, NewInode(t, s, i),
           Cached(i) = {}
    PROVE  RefStep(t)
<1>x. PICK x, m :
          /\ x = [Empty EXCEPT !.id = i, !.count = 1, !.dirt = TRUE, !.data = Data(1)]
          /\ m = [NoLocals EXCEPT !.slot = s, !.id = i]
  OBVIOUS
<1>1. /\ pc[t] = "user" /\ local[t] = NoLocals /\ inode[s].count = 0 /\ NULL # "umount"
  BY TaskFacts, Constants DEF NewInode, At, SelfOK, Free
<1>2. /\ m \in Locals /\ m.slot = s /\ m.empty = NULL /\ m.id = i /\ m.op = NULL
  BY <1>x, Constants DEF Locals, NoLocals, Zone
<1>3. /\ x \in InodeRec /\ x.id = i /\ x.count = 1 /\ x.dirt /\ ~x.lock /\ ~x.mount
      /\ x.data.nlinks = 1
  BY <1>x, Constants DEF InodeRec, Empty, Data, DataRec, Zone
<1>4. inode' = [inode EXCEPT ![s] = x] /\ Moves(t, "entry", m)
  <2>1. local' = [local EXCEPT ![t].slot = s, ![t].id = i]
    BY DEF NewInode
  <2>2. local' = [local EXCEPT ![t] = m]
    BY <1>1, <1>x, <2>1 DEF RefInv, Typed
  <2> QED BY <1>2, <1>x, <2>2 DEF NewInode, Sleep, Moves, Points
<1>5. pc'[t] = "entry" /\ local'[t] = m /\ Alone(t) /\ inode'[s] = x
  BY <1>4, MovesOK DEF RefInv, Typed
<1>6. dinode' = dinode /\ super' = super /\ names' = names /\ imap' \subseteq Id
  BY Constants DEF NewInode, RefInv, Typed
<1>7. Maps /\ names \subseteq names' /\ dinode' \in [Id -> DataRec]
  BY <1>6 DEF NewInode, Maps, RefInv, Typed
<1>8. m.op = "umount" <=> local[t].op = "umount"
  BY <1>1, <1>2 DEF NoLocals
<1>9. Umounting' <=> Umounting
  BY <1>5, <1>8, UmountStays
<1>10. MountRef(s) = 0 /\ (\A u \in Task : ~Holds(u, s)) /\ ~inode[s].lock
  BY <1>1, Unheld DEF RefInv, SlotsOK, SlotOK
<1>11. Holds(t, s)' /\ \A r \in Slot \ {s} : Holds(t, r)' <=> Holds(t, r)
  BY <1>1, <1>2, <1>5, Constants DEF Holds, slot, NoLocals
<1>12. x.count = inode[s].count - One(Holds(t, s)) + One(Holds(t, s)')
  BY <1>1, <1>3, <1>10, <1>11 DEF One
<1>13. SlotOK(s, x) /\ \A r \in Slot \ {s} : inode[r].id # x.id
  <2>1. super.imount = s => Umounting
    BY <1>10 DEF MountRef, Umounting
  <2> QED BY <1>3, <2>1 DEF RefInv, SlotsOK, SlotOK, Cached
<1>14. ASSUME NEW u \in Task \ {t}
       PROVE  (slot(u) = s => HeldOK(u, x)) /\ (pc[u] = "scan" => local[u].empty # s)
  <2>1. local[u].empty # s /\ (slot(u) = s => pc[u] \in {"sync", "syncwrite", "umounted"})
    BY <1>10 DEF Holds
  <2>2. slot(u) = s => pc[u] # "syncwrite"
    BY <1>10, TaskFacts DEF HeldOK, held, Locking
  <2> QED BY <2>1, <2>2 DEF HeldOK, Having, Locking, Freeing
<1>15. Fits(t, s, x)
  BY <1>11, <1>12, <1>13, <1>14 DEF Fits
<1>16. TaskOK(t)'
  BY <1>2, <1>3, <1>5, <1>6, <1>9, Constants
     DEF TaskOK, SelfOK, slot, held, HeldOK, Freeing, Having, Locking
<1> QED BY <1>2, <1>3, <1>4, <1>6, <1>7, <1>8, <1>15, <1>16, SlotMoves DEF Locking

(* iget finds the inode, which nobody frees. *)
LEMMA HitRefs ==
    ASSUME RefInv, NEW t \in Task, NEW s \in Slot, Hit(t, s),
           \A u \in Task : Freeing(u) \/ pc[u] = "entry" => slot(u) # s
    PROVE  RefStep(t)
<1>0. PICK e : e = local[t].empty
  OBVIOUS
<1>1. /\ pc[t] = "scan" /\ local[t] \in Locals /\ TaskOK(t) /\ slot(t) = NULL
      /\ e \in Slot /\ inode[e] = [Empty EXCEPT !.count = 1]
      /\ local[t].op = NULL /\ local[t].id \in Id /\ ~inode[s].lock /\ ~inode[s].mount
      /\ inode[s] \in InodeRec /\ inode[s].id = local[t].id
  <2>1. /\ local[t].op \in {NULL, "trunc", "free", "umount"} /\ SelfOK(t)
        /\ pc[t] = "scan" /\ MountRoot \in Id
    BY TaskFacts, Constants DEF Hit, At, Locals
  <2> QED BY <1>0, <2>1, TaskFacts DEF RefInv, SelfOK, Typed, Hit, Cached
<1>2. e # s
  BY <1>1, Constants DEF Empty
<1>x. PICK x, y, m : /\ x = [inode[s] EXCEPT !.count = @ + 1]
                     /\ y = [inode[e] EXCEPT !.count = @ - 1]
                     /\ m = [local[t] EXCEPT !.slot = s, !.empty = NULL]
  OBVIOUS
<1>3. /\ m \in Locals /\ m.slot = s /\ m.empty = NULL /\ m.id = local[t].id
      /\ m.op = NULL
  BY <1>1, <1>x DEF Locals
<1>4. /\ x \in InodeRec /\ x.id = inode[s].id /\ x.count = inode[s].count + 1
      /\ x.dirt = inode[s].dirt /\ ~x.lock /\ ~x.mount /\ x.data = inode[s].data
  BY <1>1, <1>x DEF InodeRec
<1>5. /\ y \in InodeRec /\ y.id = NULL /\ y.count = 0 /\ ~y.dirt /\ ~y.lock /\ ~y.mount
  <2>1. /\ inode[e] \in InodeRec /\ inode[e].id = NULL /\ inode[e].count = 1
        /\ ~inode[e].dirt /\ ~inode[e].lock /\ ~inode[e].mount
    BY <1>1 DEF Empty, RefInv, Typed
  <2> QED BY <1>x, <2>1 DEF InodeRec
<1>6. /\ inode'[s] = x /\ inode'[e] = y /\ inode' \in [Slot -> InodeRec]
      /\ \A r \in Slot \ {s, e} : inode'[r] = inode[r]
  <2>1. inode' = [inode EXCEPT ![s].count = @ + 1, ![e].count = @ - 1]
    BY <1>0 DEF Hit
  <2>2. inode' = [inode EXCEPT ![s] = x, ![e] = y]
    BY <1>1, <1>2, <1>x, <2>1 DEF RefInv, Typed
  <2> QED BY <1>1, <1>2, <1>4, <1>5, <2>2 DEF RefInv, Typed
<1>7. Moves(t, "use", m)
  <2>1. local' = [local EXCEPT ![t] = m]
    BY <1>1, <1>x DEF Hit, RefInv, Typed
  <2> QED BY <1>3, <2>1 DEF Hit, Sleep, Moves, Points
<1>8. /\ Alone(t) /\ pc'[t] = "use" /\ local'[t] = m
      /\ pc' \in [Task -> Points] /\ local' \in [Task -> Locals]
  BY <1>7, MovesOK
<1>9. UNCHANGED <<dinode, imap, zmap, stuck, names, super>>
  BY DEF Hit, maps
<1>10. Typed'
  BY <1>6, <1>8, <1>9 DEF RefInv, Typed
<1>11. Calm(t)
  BY <1>1, <1>3, <1>8, <1>9, <1>10, UmountStays DEF Calm
<1>12. ~Holds(t, s) /\ Holds(t, e)
  BY <1>0, <1>1, <1>2, Constants DEF Holds
<1>13. Holds(t, s)' /\ ~Holds(t, e)'
  BY <1>1, <1>2, <1>3, <1>8, Constants DEF Holds, slot
<1>14. \A r \in Slot \ {s, e} : ~Holds(t, r) /\ ~Holds(t, r)'
  BY <1>0, <1>1, <1>3, <1>8, Constants DEF Holds, slot
<1>15. inode[e].count = 1
  BY <1>1 DEF Empty
<1>16. CountStep(t)
  <2> SUFFICES ASSUME NEW r \in Slot
               PROVE  inode'[r].count = inode[r].count - One(Holds(t, r))
                          + One(Holds(t, r)') - MountRef(r) + MountRef(r)'
    BY DEF CountStep
  <2>1. MountRef(r)' = MountRef(r) /\ MountRef(r) \in Nat /\ inode[r].count \in Nat
    BY <1>11, MountRefSame, CountSays DEF Calm
  <2>2. CASE r = s
    BY <1>4, <1>6, <1>12, <1>13, <2>1, <2>2 DEF One
  <2>3. CASE r = e
    BY <1>5, <1>6, <1>12, <1>13, <1>15, <2>1, <2>3 DEF One
  <2>4. CASE r \notin {s, e}
    BY <1>6, <1>14, <2>1, <2>4 DEF One
  <2> QED BY <2>2, <2>3, <2>4
<1>17. \A r \in Slot : inode'[r].id = inode[r].id
  BY <1>1, <1>4, <1>5, <1>6 DEF Empty
<1>18. IdsUnique'
  BY <1>17 DEF RefInv, IdsUnique
<1>19. SlotsOK'
  <2>1. super.imount = e => Umounting
    <3>1. MountRef(e) = 0
      BY <1>1, <1>12, <1>15, Sole
    <3> QED BY <3>1 DEF MountRef, Umounting
  <2> SUFFICES ASSUME NEW r \in Slot PROVE SlotOK(r, inode[r])'
    BY DEF SlotsOK
  <2>2. SlotOK(r, inode'[r])
    <3>1. SlotOK(r, inode[r])
      BY DEF RefInv, SlotsOK
    <3>2. CASE r = s
      BY <1>1, <1>4, <1>6, <3>1, <3>2, CountSays DEF SlotOK
    <3>3. CASE r = e
      BY <1>5, <1>6, <2>1, <3>1, <3>3 DEF SlotOK
    <3>4. CASE r \notin {s, e}
      BY <1>6, <3>1, <3>4
    <3> QED BY <3>2, <3>3, <3>4
  <2> QED BY <1>9, <1>11, <2>2 DEF SlotOK, Calm
<1>20. OthersHeld(t)
  <2> SUFFICES ASSUME NEW u \in Task \ {t}
               PROVE  /\ slot(u) # NULL => HeldOK(u, inode'[slot(u)])
                      /\ pc[u] = "scan" => inode'[local[u].empty] = inode[local[u].empty]
    BY DEF OthersHeld
  <2>1. slot(u) # NULL => slot(u) \in Slot /\ HeldOK(u, inode[slot(u)])
    BY TaskFacts DEF held
  <2>2. local[u].empty # e /\ (slot(u) = e => \A z : HeldOK(u, z))
    BY <1>1, <1>12, <1>15, SoleSlot DEF Empty
  <2>3. slot(u) = s => HeldOK(u, x)
    <3>1. slot(u) = s => ~Freeing(u) /\ pc[u] # "entry" /\ HeldOK(u, inode[s])
      BY <2>1, TaskFacts DEF held
    <3>2. slot(u) = s => pc[u] \notin Locking
      BY <1>1, <3>1 DEF HeldOK
    <3> QED BY <1>4, <3>1, <3>2 DEF HeldOK, Locking
  <2>4. pc[u] = "scan" => local[u].empty \in Slot \ {s, e}
    <3>1. pc[u] = "scan" => local[u].empty \in Slot /\ inode[local[u].empty].id = NULL
      BY TaskFacts DEF Empty
    <3> QED BY <1>1, <2>2, <3>1, Constants
  <2> QED BY <1>6, <2>1, <2>2, <2>3, <2>4
<1>21. TaskOK(t)'
  BY <1>1, <1>3, <1>4, <1>6, <1>8, <1>9, <1>11
     DEF TaskOK, SelfOK, slot, held, HeldOK, Freeing, Having, Locking, Calm
<1>22. OwnApart(t)
  BY <1>8 DEF OwnApart, Locking
<1> QED BY <1>10, <1>11, <1>16, <1>18, <1>19, <1>20, <1>21, <1>22, CalmSelf DEF RefStep, Calm

-----------------------------------------------------------------------------
(* The super block changes.  What the others know of it stays true. *)
OthersSelf(t) == \A u \in Task \ {t} : SelfOK(u)'

LEMMA SuperMoves ==
    ASSUME RefInv, NEW t \in Task, NEW l, NEW m, Moves(t, l, m), inode' = inode,
           UNCHANGED <<dinode, maps, names>>,
           super' \in [dev : BOOLEAN, lock : BOOLEAN, imount : Slot \cup {NULL}],
           \A s \in Slot : MountRef(s) = 0 /\ MountRef(s)' = 0,
           \A s \in Slot : (Holds(t, s)' <=> Holds(t, s)) /\ SlotOK(s, inode[s])',
           \A u \in Task \ {t} : ~(l = "super" /\ pc[u] = "super"),
           l \notin Locking, OthersSelf(t), TaskOK(t)'
    PROVE  RefStep(t)
<1>1. /\ Alone(t) /\ pc'[t] = l /\ local'[t] = m
      /\ pc' \in [Task -> Points] /\ local' \in [Task -> Locals]
  BY MovesOK
<1>2. Typed'
  BY <1>1 DEF RefInv, Typed, maps
<1>3. CountStep(t)
  <2> SUFFICES ASSUME NEW s \in Slot
               PROVE  inode'[s].count = inode[s].count - One(Holds(t, s))
                          + One(Holds(t, s)') - MountRef(s) + MountRef(s)'
    BY DEF CountStep
  <2>1. One(Holds(t, s)') = One(Holds(t, s)) /\ One(Holds(t, s)) \in Nat
    BY DEF One
  <2>2. MountRef(s) = 0 /\ MountRef(s)' = 0
    OBVIOUS
  <2> QED BY <2>1, <2>2, CountSays
<1>4. IdsUnique' /\ SlotsOK'
  BY DEF RefInv, IdsUnique, SlotsOK
<1>5. OthersHeld(t)
  BY TaskFacts DEF OthersHeld, held
<1>6. OwnApart(t)
  BY <1>1 DEF OwnApart
<1> QED BY <1>1, <1>2, <1>3, <1>4, <1>5, <1>6 DEF RefStep, OthersSelf

LEMMA ReadSuperRefs ==
    ASSUME RefInv, NEW t \in Task, ReadSuper(t)
    PROVE  RefStep(t)
<1>1. /\ pc[t] = "get_super" /\ local[t] \in Locals /\ TaskOK(t) /\ SelfOK(t)
      /\ ~super.dev /\ slot(t) \in Slot
      /\ local[t].id \in Dir /\ local[t].op # "umount"
  BY TaskFacts DEF ReadSuper, At, RefInv, SelfOK, Having
<1>2. super' = [dev |-> TRUE, lock |-> TRUE, imount |-> NULL]
  BY DEF ReadSuper
<1>3. super'.dev /\ super'.lock /\ super'.imount = NULL
  BY <1>2
<1>4. Moves(t, "super", local[t])
  BY <1>1 DEF ReadSuper, Sleep, Moves, Points, RefInv, Typed
<1>5. pc'[t] = "super" /\ local'[t] = local[t] /\ Alone(t)
  BY <1>4, MovesOK
<1>6. \A u \in Task \ {t} : pc[u] # "super" /\ local[u].op # "umount" /\ local[u].id # MountRoot
  BY <1>1, TaskFacts DEF SelfOK
<1>7. inode' = inode /\ UNCHANGED <<dinode, maps, names>>
  BY DEF ReadSuper
<1>8. OthersSelf(t)
  <2> SUFFICES ASSUME NEW u \in Task \ {t} PROVE SelfOK(u)'
    BY DEF OthersSelf
  <2>1. SelfOK(u) /\ pc'[u] = pc[u] /\ local'[u] = local[u]
    BY <1>5, TaskFacts DEF Alone
  <2> QED BY <1>6, <1>7, <2>1 DEF SelfOK, slot
<1>9. \A s \in Slot : super.imount # s /\ ~inode[s].mount
  BY <1>1 DEF RefInv, SlotsOK, SlotOK
<1>10. \A s \in Slot : MountRef(s) = 0 /\ MountRef(s)' = 0
  BY <1>3, <1>9, Constants DEF MountRef
<1>11. \A s \in Slot : (Holds(t, s)' <=> Holds(t, s)) /\ SlotOK(s, inode[s])'
  BY <1>1, <1>3, <1>5, <1>7, <1>9, Constants DEF Holds, slot, SlotOK, RefInv, SlotsOK
<1>12. TaskOK(t)'
  BY <1>1, <1>3, <1>5, <1>7, Constants
     DEF TaskOK, SelfOK, slot, held, HeldOK, Freeing, Having, Locking
<1> QED BY <1>2, <1>4, <1>6, <1>7, <1>8, <1>10, <1>11, <1>12, SuperMoves DEF Locking

(* What the others are not at while t reads the super block. *)
LEMMA ReadingSuper ==
    ASSUME RefInv, NEW t \in Task, pc[t] = "super", NEW u \in Task \ {t}
    PROVE  pc[u] # "super" /\ local[u].op # "umount" /\ local[u].id # MountRoot
<1>1. super.dev /\ super.lock
  BY TaskFacts DEF SelfOK
<1> QED BY <1>1, TaskFacts DEF SelfOK, RefInv, Apart

LEMMA SuperFailsRefs ==
    ASSUME RefInv, NEW t \in Task, SuperRead(t, FALSE)
    PROVE  RefStep(t)
<1>1. /\ pc[t] = "super" /\ local[t] \in Locals /\ TaskOK(t) /\ SelfOK(t)
      /\ super.imount = NULL /\ slot(t) \in Slot
      /\ local[t].id \in Dir /\ local[t].op \notin {"trunc", "free", "umount"}
  BY TaskFacts DEF SuperRead, At, RefInv, SelfOK, Having
<1>2. super' = [dev |-> FALSE, lock |-> FALSE, imount |-> NULL]
  BY DEF SuperRead
<1>3. ~super'.dev /\ ~super'.lock /\ super'.imount = NULL
  BY <1>2
<1>4. Moves(t, "iput", local[t])
  BY <1>1 DEF SuperRead, Goto, Moves, Points, RefInv, Typed
<1>5. pc'[t] = "iput" /\ local'[t] = local[t] /\ Alone(t)
  BY <1>4, MovesOK
<1>6. inode' = inode /\ UNCHANGED <<dinode, maps, names>>
  BY DEF SuperRead
<1>7. OthersSelf(t)
  <2> SUFFICES ASSUME NEW u \in Task \ {t} PROVE SelfOK(u)'
    BY DEF OthersSelf
  <2>1. /\ SelfOK(u) /\ pc'[u] = pc[u] /\ local'[u] = local[u]
        /\ pc[u] # "super" /\ local[u].op # "umount" /\ local[u].id # MountRoot
    BY <1>1, <1>5, TaskFacts, ReadingSuper DEF Alone
  <2> QED BY <1>6, <2>1 DEF SelfOK, slot
<1>8. \A s \in Slot : super.imount # s /\ ~inode[s].mount
  BY <1>1, Constants DEF RefInv, SlotsOK, SlotOK
<1>9. \A s \in Slot : MountRef(s) = 0 /\ MountRef(s)' = 0
  BY <1>3, <1>8, Constants DEF MountRef
<1>10. \A s \in Slot : (Holds(t, s)' <=> Holds(t, s)) /\ SlotOK(s, inode[s])'
  BY <1>1, <1>3, <1>5, <1>6, <1>8, Constants DEF Holds, slot, SlotOK, RefInv, SlotsOK
<1>11. TaskOK(t)'
  BY <1>1, <1>3, <1>5, <1>6, Constants
     DEF TaskOK, SelfOK, slot, held, HeldOK, Freeing, Having, Locking
<1> QED BY <1>2, <1>4, <1>6, <1>7, <1>9, <1>10, <1>11, SuperMoves DEF Locking

LEMMA UmountedRefs ==
    ASSUME RefInv, OneAdmin, NEW t \in Task, Umounted(t)
    PROVE  RefStep(t)
<1>1. /\ pc[t] = "umounted" /\ local[t] \in Locals /\ TaskOK(t) /\ SelfOK(t)
      /\ local[t].op = "umount" /\ t \in Admin /\ super.dev /\ ~super.lock
      /\ Umounting /\ local[t].empty = NULL
  BY TaskFacts DEF Umounted, At, RefInv, SelfOK, Umounting
<1>2. super' = [dev |-> FALSE, lock |-> FALSE, imount |-> NULL]
  BY DEF Umounted, PutSuper
<1>3. ~super'.dev /\ ~super'.lock /\ super'.imount = NULL
  BY <1>2
<1>4. /\ NoLocals \in Locals /\ NoLocals.slot = NULL /\ NoLocals.empty = NULL
      /\ NoLocals.op = NULL /\ NoLocals.id = NULL
  BY DEF Locals, NoLocals, Zone
<1>5. Moves(t, "user", NoLocals)
  BY <1>4 DEF Umounted, Return, Sleep, Moves, Points
<1>6. pc'[t] = "user" /\ local'[t] = NoLocals /\ Alone(t)
  BY <1>5, MovesOK
<1>7. \A u \in Task \ {t} : pc[u] # "super" /\ local[u].op # "umount" /\ local[u].id # MountRoot
  BY <1>1, TaskFacts DEF SelfOK, OneAdmin
<1>8. inode' = inode /\ UNCHANGED <<dinode, maps, names>>
  BY DEF Umounted
<1>9. OthersSelf(t)
  <2> SUFFICES ASSUME NEW u \in Task \ {t} PROVE SelfOK(u)'
    BY DEF OthersSelf
  <2>1. SelfOK(u) /\ pc'[u] = pc[u] /\ local'[u] = local[u]
    BY <1>6, TaskFacts DEF Alone
  <2> QED BY <1>7, <1>8, <2>1 DEF SelfOK, slot
<1>10. \A s \in Slot : ~inode[s].mount
  BY <1>1 DEF RefInv, SlotsOK, SlotOK
<1>11. \A s \in Slot : MountRef(s) = 0 /\ MountRef(s)' = 0
  BY <1>1, <1>3, Constants DEF MountRef
<1>12. \A s \in Slot : (Holds(t, s)' <=> Holds(t, s)) /\ SlotOK(s, inode[s])'
  BY <1>1, <1>3, <1>4, <1>6, <1>8, <1>10, Constants DEF Holds, slot, SlotOK, RefInv, SlotsOK
<1>13. TaskOK(t)'
  BY <1>3, <1>4, <1>6, <1>8, Constants
     DEF TaskOK, SelfOK, slot, held, HeldOK, Freeing, Having, Locking
<1> QED BY <1>2, <1>5, <1>7, <1>8, <1>9, <1>11, <1>12, <1>13, SuperMoves DEF Locking

(* The device is mounted on the directory t has. *)
MountIt(t) ==
    /\ super' = [super EXCEPT !.imount = slot(t), !.lock = FALSE]
    /\ inode' = [inode EXCEPT ![slot(t)].mount = TRUE, ![slot(t)].dirt = TRUE]
    /\ Return(t)

LEMMA MountRefs ==
    ASSUME RefInv, NEW t \in Task, MountIt(t), UNCHANGED <<dinode, maps, names>>,
           super.dev, super.imount = NULL,
           pc[t] = "super" \/ (pc[t] = "get_super" /\ ~super.lock)
    PROVE  RefStep(t)
<1>0. PICK s \in Slot : s = slot(t)
  BY TaskFacts DEF SelfOK, Having
<1>1. /\ local[t] \in Locals /\ TaskOK(t) /\ SelfOK(t) /\ Holds(t, s)
      /\ inode[s] \in InodeRec /\ inode[s].id = local[t].id /\ local[t].id \in Dir
      /\ local[t].empty = NULL
  BY <1>0, TaskFacts DEF RefInv, SelfOK, HeldOK, held, Having, Typed, Holds
<1>2. inode[s].count \in Nat \ {0}
  BY <1>1, Alive
<1>3. /\ NoLocals \in Locals /\ NoLocals.slot = NULL /\ NoLocals.empty = NULL
      /\ NoLocals.op = NULL /\ NoLocals.id = NULL
  BY DEF Locals, NoLocals, Zone
<1>4. /\ super'.dev /\ ~super'.lock /\ super'.imount = s
      /\ super' \in [dev : BOOLEAN, lock : BOOLEAN, imount : Slot \cup {NULL}]
  BY <1>0 DEF MountIt, RefInv, Typed
<1>x. PICK x : x = [inode[s] EXCEPT !.mount = TRUE, !.dirt = TRUE]
  OBVIOUS
<1>5. /\ x \in InodeRec /\ x.id = inode[s].id /\ x.count = inode[s].count /\ x.dirt
      /\ x.lock = inode[s].lock /\ x.mount /\ x.data = inode[s].data
  BY <1>1, <1>x DEF InodeRec
<1>6. inode' = [inode EXCEPT ![s] = x]
  <2>1. inode' = [inode EXCEPT ![s].mount = TRUE, ![s].dirt = TRUE]
    BY <1>0 DEF MountIt
  <2> QED BY <1>x, <2>1 DEF RefInv, Typed
<1>7. /\ inode'[s] = x /\ inode' \in [Slot -> InodeRec]
      /\ \A r \in Slot \ {s} : inode'[r] = inode[r]
  BY <1>5, <1>6 DEF RefInv, Typed
<1>8. Moves(t, "user", NoLocals)
  BY <1>3 DEF MountIt, Return, Sleep, Moves, Points
<1>9. /\ Alone(t) /\ pc'[t] = "user" /\ local'[t] = NoLocals
      /\ pc' \in [Task -> Points] /\ local' \in [Task -> Locals]
  BY <1>8, MovesOK
<1>10. Typed'
  BY <1>4, <1>7, <1>9 DEF RefInv, Typed, maps
<1>11. \A u \in Task : pc[u] = "super" => u = t
  <2>1. pc[t] = "get_super" => \A u \in Task : pc[u] # "super"
    BY TaskFacts DEF SelfOK
  <2> QED BY <2>1, ReadingSuper
<1>12. \A u \in Task : local[u].op # "umount"
  BY <1>1, TaskFacts, Constants DEF SelfOK
<1>13. ~Umounting'
  BY <1>3, <1>9, <1>12, Constants DEF Alone, Umounting
<1>14. /\ \A r \in Slot : super.imount # r /\ MountRef(r) = 0 /\ ~inode[r].mount
       /\ MountRef(s)' = 1 /\ \A r \in Slot \ {s} : MountRef(r)' = 0
  <2>1. \A r \in Slot : super.imount # r
    BY Constants
  <2>2. \A u \in Task : local'[u].op # "umount"
    BY <1>13 DEF Umounting
  <2>3. \A r \in Slot : ~inode[r].mount
    BY <2>1 DEF RefInv, SlotsOK, SlotOK
  <2>4. MountRef(s)' = 1 /\ \A r \in Slot \ {s} : MountRef(r)' = 0
    BY <1>4, <2>2 DEF MountRef
  <2>5. \A r \in Slot : MountRef(r) = 0
    BY <2>1 DEF MountRef
  <2> QED BY <2>1, <2>3, <2>4, <2>5
<1>15. \A r \in Slot : ~Holds(t, r)'
  BY <1>3, <1>9, Constants DEF Holds, slot
<1>16. \A r \in Slot \ {s} : ~Holds(t, r)
  BY <1>0, <1>1, Constants DEF Holds
<1>17. CountStep(t)
  <2> SUFFICES ASSUME NEW r \in Slot
               PROVE  inode'[r].count = inode[r].count - One(Holds(t, r))
                          + One(Holds(t, r)') - MountRef(r) + MountRef(r)'
    BY DEF CountStep
  <2>1. CASE r = s
    BY <1>1, <1>2, <1>5, <1>7, <1>14, <1>15, <2>1 DEF One
  <2>2. CASE r # s
    BY <1>7, <1>14, <1>15, <1>16, <2>2, CountSays DEF One
  <2> QED BY <2>1, <2>2
<1>18. \A r \in Slot : inode'[r].id = inode[r].id
  BY <1>5, <1>7
<1>19. IdsUnique'
  BY <1>18 DEF RefInv, IdsUnique
<1>20. SlotsOK'
  <2> SUFFICES ASSUME NEW r \in Slot PROVE SlotOK(r, inode[r])'
    BY DEF SlotsOK
  <2>1. SlotOK(r, inode[r])
    BY DEF RefInv, SlotsOK
  <2>2. CASE r = s
    BY <1>1, <1>2, <1>4, <1>5, <1>7, <1>13, <2>2 DEF SlotOK
  <2>3. CASE r # s
    BY <1>4, <1>7, <1>14, <2>1, <2>3 DEF SlotOK
  <2> QED BY <2>2, <2>3
<1>21. OthersHeld(t)
  <2> SUFFICES ASSUME NEW u \in Task \ {t}
               PROVE  /\ slot(u) # NULL => HeldOK(u, inode'[slot(u)])
                      /\ pc[u] = "scan" => inode'[local[u].empty] = inode[local[u].empty]
    BY DEF OthersHeld
  <2>1. slot(u) # NULL => slot(u) \in Slot /\ HeldOK(u, inode[slot(u)])
    BY TaskFacts DEF held
  <2>2. slot(u) = s => HeldOK(u, x)
    <3>1. slot(u) = s => HeldOK(u, inode[s]) /\ pc[u] # "read" /\ pc[u] # "entry" /\ ~Freeing(u)
      BY <1>1, TaskFacts, TwoHold DEF held
    <3> QED BY <1>5, <3>1 DEF HeldOK
  <2>3. pc[u] = "scan" => local[u].empty \in Slot \ {s}
    <3>1. pc[u] = "scan" => local[u].empty \in Slot /\ inode[local[u].empty].id = NULL
      BY TaskFacts DEF Empty
    <3> QED BY <1>1, <3>1, Constants
  <2> QED BY <1>7, <2>1, <2>2, <2>3
<1>22. \A u \in Task \ {t} : SelfOK(u)'
  <2> SUFFICES ASSUME NEW u \in Task \ {t} PROVE SelfOK(u)'
    OBVIOUS
  <2>1. /\ SelfOK(u) /\ pc'[u] = pc[u] /\ local'[u] = local[u]
        /\ pc[u] # "super" /\ local[u].op # "umount"
    BY <1>9, <1>11, <1>12, TaskFacts DEF Alone
  <2> QED BY <1>4, <1>13, <2>1 DEF SelfOK, slot
<1>23. TaskOK(t)'
  BY <1>3, <1>9, Constants
     DEF TaskOK, SelfOK, slot, held, HeldOK, Freeing, Having, Locking
<1>24. OwnApart(t)
  BY <1>9 DEF OwnApart, Locking
<1> QED BY <1>9, <1>10, <1>17, <1>19, <1>20, <1>21, <1>22, <1>23, <1>24 DEF RefStep

LEMMA GetSuperRefs ==
    ASSUME RefInv, NEW t \in Task, GetSuper(t)
    PROVE  RefStep(t)
<1>1. pc[t] = "get_super" /\ super.dev /\ ~super.lock
  BY DEF GetSuper, At
<1>2. CASE super.imount # NULL \/ held(t).mount
  <2>1. super' = super
    BY <1>1, <1>2 DEF GetSuper, SetMount, RefInv, Typed
  <2>2. names \subseteq names' /\ names' \subseteq Id \ {MountRoot}
    BY DEF GetSuper, RefInv, Typed
  <2>3. /\ pc' = [pc EXCEPT ![t] = "iput"] /\ "iput" \in Points
        /\ UNCHANGED <<inode, dinode, maps, local>>
    BY <1>2 DEF GetSuper, SetMount, Goto, Points
  <2> QED BY <1>1, <2>1, <2>2, <2>3, GoesOn
<1>3. CASE super.imount = NULL /\ ~held(t).mount
  BY <1>1, <1>3, MountRefs DEF GetSuper, SetMount, MountIt
<1> QED BY <1>2, <1>3

LEMMA SuperReadRefs ==
    ASSUME RefInv, NEW t \in Task, SuperRead(t, TRUE)
    PROVE  RefStep(t)
<1>1. /\ pc[t] = "super" /\ super.dev /\ super.imount = NULL /\ slot(t) \in Slot
  BY TaskFacts DEF SuperRead, At, SelfOK, Having
<1>2. ~held(t).mount
  BY <1>1, MountFacts, Constants DEF held
<1> QED BY <1>1, <1>2, MountRefs DEF SuperRead, SetMount, MountIt

(* Nothing on the device is in use when sys_umount lets go of it. *)
LEMMA UmountRefs ==
    ASSUME RefInv, OneAdmin, NoRaces, NEW t \in Task, Umount(t)
    PROVE  RefStep(t)
<1>0. PICK s \in Slot : s = super.imount
  BY DEF Umount, Mounted, RefInv, Typed
<1>1. /\ pc[t] = "user" /\ local[t] = NoLocals /\ t \in Admin
      /\ super.dev /\ ~super.lock /\ inode[s] \in InodeRec
  BY TaskFacts DEF Umount, Mounted, At, SelfOK, RefInv, Typed
<1>2. \A u \in Task : local[u].op # "umount"
  <2>1. NoLocals.op # "umount"
    BY Constants DEF NoLocals
  <2> QED BY <1>1, <2>1, TaskFacts DEF SelfOK, OneAdmin
<1>3. /\ ~Umounting /\ inode[s].id \in Dir /\ MountRef(s) = 1
      /\ \A r \in Slot \ {s} : MountRef(r) = 0 /\ ~inode[r].mount
  <2>1. ~Umounting
    BY <1>2 DEF Umounting
  <2> QED BY <1>0, <1>2, <2>1 DEF MountRef, RefInv, SlotsOK, SlotOK
<1>x. PICK x, m :
          /\ x = [inode[s] EXCEPT !.mount = FALSE]
          /\ m = [NoLocals EXCEPT !.slot = s, !.id = inode[s].id, !.op = "umount"]
  OBVIOUS
<1>4. /\ m \in Locals /\ m.slot = s /\ m.empty = NULL /\ m.id = inode[s].id
      /\ m.op = "umount"
  BY <1>1, <1>x DEF Locals, NoLocals, Zone, InodeRec
<1>5. /\ x \in InodeRec /\ x.id = inode[s].id /\ x.count = inode[s].count
      /\ x.dirt = inode[s].dirt /\ x.lock = inode[s].lock /\ ~x.mount
      /\ x.data = inode[s].data
  BY <1>1, <1>x DEF InodeRec
<1>6. /\ inode'[s] = x /\ inode' \in [Slot -> InodeRec]
      /\ \A r \in Slot \ {s} : inode'[r] = inode[r]
  <2>1. inode' = [inode EXCEPT ![s] = x]
    BY <1>0, <1>x DEF Umount
  <2> QED BY <1>5, <2>1 DEF RefInv, Typed
<1>7. Moves(t, "iput", m)
  <2>1. local' = [local EXCEPT ![t].slot = s, ![t].id = inode[s].id, ![t].op = "umount"]
    BY <1>0 DEF Umount
  <2>2. local' = [local EXCEPT ![t] = m]
    BY <1>1, <1>x, <2>1 DEF RefInv, Typed
  <2> QED BY <1>4, <2>2 DEF Umount, Goto, Moves, Points
<1>8. /\ Alone(t) /\ pc'[t] = "iput" /\ local'[t] = m
      /\ pc' \in [Task -> Points] /\ local' \in [Task -> Locals]
  BY <1>7, MovesOK
<1>9. UNCHANGED <<dinode, imap, zmap, stuck, names, super>>
  BY DEF Umount, maps
<1>10. Typed'
  BY <1>6, <1>8, <1>9 DEF RefInv, Typed
<1>11. Umounting' /\ \A r \in Slot : MountRef(r)' = 0
  BY <1>4, <1>8 DEF Umounting, MountRef
<1>12. Holds(t, s)' /\ (\A r \in Slot \ {s} : ~Holds(t, r)') /\ \A r \in Slot : ~Holds(t, r)
  BY <1>1, <1>4, <1>8, Constants DEF Holds, slot, NoLocals
<1>13. CountStep(t)
  <2> SUFFICES ASSUME NEW r \in Slot
               PROVE  inode'[r].count = inode[r].count - One(Holds(t, r))
                          + One(Holds(t, r)') - MountRef(r) + MountRef(r)'
    BY DEF CountStep
  <2>1. CASE r = s
    BY <1>3, <1>5, <1>6, <1>11, <1>12, <2>1, CountSays DEF One
  <2>2. CASE r # s
    BY <1>3, <1>6, <1>11, <1>12, <2>2, CountSays DEF One
  <2> QED BY <2>1, <2>2
<1>14. \A r \in Slot : inode'[r].id = inode[r].id
  BY <1>5, <1>6
<1>15. IdsUnique'
  BY <1>14 DEF RefInv, IdsUnique
<1>16. SlotsOK'
  <2> SUFFICES ASSUME NEW r \in Slot PROVE SlotOK(r, inode[r])'
    BY DEF SlotsOK
  <2>1. SlotOK(r, inode[r])
    BY DEF RefInv, SlotsOK
  <2>2. CASE r = s
    BY <1>1, <1>5, <1>6, <1>9, <1>11, <2>1, <2>2 DEF SlotOK
  <2>3. CASE r # s
    BY <1>3, <1>6, <1>9, <1>11, <2>1, <2>3 DEF SlotOK
  <2> QED BY <2>2, <2>3
<1>17. OthersHeld(t)
  <2> SUFFICES ASSUME NEW u \in Task \ {t}
               PROVE  /\ slot(u) # NULL => HeldOK(u, inode'[slot(u)])
                      /\ pc[u] = "scan" => inode'[local[u].empty] = inode[local[u].empty]
    BY DEF OthersHeld
  <2>1. slot(u) # NULL => slot(u) \in Slot /\ HeldOK(u, inode[slot(u)])
    BY TaskFacts DEF held
  <2>2. slot(u) = s => HeldOK(u, x)
    BY <1>5, TaskFacts DEF held, HeldOK
  <2>3. pc[u] = "scan" => local[u].empty \in Slot \ {s}
    <3>1. pc[u] = "scan" => local[u].empty \in Slot /\ inode[local[u].empty].id = NULL
      BY TaskFacts DEF Empty
    <3> QED BY <1>3, <3>1, Constants
  <2> QED BY <1>6, <2>1, <2>2, <2>3
<1>18. \A u \in Task \ {t} : local[u].id # MountRoot
  <2> SUFFICES ASSUME NEW u \in Task \ {t}, local[u].id = MountRoot PROVE FALSE
    OBVIOUS
  <2>1. /\ pc[u] \in Points /\ SelfOK(u)
        /\ pc[u] \in Having => slot(u) \in Slot /\ held(u).id = MountRoot
    BY TaskFacts, Constants DEF SelfOK, HeldOK
  <2>2. pc[u] \notin Having
    <3>1. pc[u] \in Having => slot(u) \in Slot /\ Holds(u, slot(u))
      BY <2>1 DEF Holds, Having
    <3>2. pc[u] \in Having => held(u).count \in Nat \ {0}
      BY <3>1, Alive DEF held
    <3>3. \A r \in Slot : inode[r].id = MountRoot => inode[r].count = 0
      BY CountSays DEF Umount, Busy
    <3> QED BY <2>1, <3>1, <3>2, <3>3 DEF held
  <2>3. pc[u] \notin {"iget", "scan"}
    BY DEF Umount, Mounted, Undisturbed, NoRaces
  <2>4. pc[u] # "user" /\ pc[u] \notin {"sync", "syncwrite"}
    BY <2>1, Constants DEF SelfOK, NoLocals
  <2>5. pc[u] # "umounted"
    BY <1>2, <2>1 DEF SelfOK
  <2> QED BY <2>1, <2>2, <2>3, <2>4, <2>5 DEF Points, Having
<1>19. \A u \in Task \ {t} : SelfOK(u)'
  <2> SUFFICES ASSUME NEW u \in Task \ {t} PROVE SelfOK(u)'
    OBVIOUS
  <2>1. SelfOK(u) /\ pc'[u] = pc[u] /\ local'[u] = local[u] /\ local[u].id # MountRoot
    BY <1>8, <1>18, TaskFacts DEF Alone
  <2> QED BY <1>9, <2>1 DEF SelfOK, slot
<1>20. TaskOK(t)'
  BY <1>0, <1>1, <1>3, <1>4, <1>5, <1>6, <1>8, <1>9, Constants
     DEF TaskOK, SelfOK, slot, held, HeldOK, Freeing, Having, Locking
<1>21. OwnApart(t)
  BY <1>8 DEF OwnApart, Locking
<1> QED BY <1>8, <1>10, <1>13, <1>15, <1>16, <1>17, <1>19, <1>20, <1>21 DEF RefStep

-----------------------------------------------------------------------------
(* What is known of an inode: its slot says, unless it is being read. *)
LEMMA KnownIn ==
    ASSUME IdsUnique, NEW s \in Slot, NEW i, inode[s].id = i, i # NULL, ~Reading(s)
    PROVE  Known(i) = inode[s].data
<1>1. Cached(i) = {s}
  BY DEF Cached, IdsUnique
<1>2. (CHOOSE r \in Cached(i) : TRUE) = s
  BY <1>1
<1>3. \E r \in Cached(i) : \A t \in Task : ~(pc[t] = "read" /\ slot(t) = r)
  BY <1>1 DEF Reading
<1> QED BY <1>2, <1>3 DEF Known

LEMMA KnownOut ==
    ASSUME NEW i, \A s \in Slot : inode[s].id = i => Reading(s)
    PROVE  Known(i) = dinode[i]
<1>1. ~\E r \in Cached(i) : \A t \in Task : ~(pc[t] = "read" /\ slot(t) = r)
  BY DEF Reading, Cached
<1> QED BY <1>1 DEF Known

LEMMA KnownInNext ==
    ASSUME IdsUnique', NEW s \in Slot, NEW i, inode'[s].id = i, i # NULL, ~Reading(s)'
    PROVE  Known(i)' = inode'[s].data
<1>1. Cached(i)' = {s}
  BY DEF Cached, IdsUnique
<1>2. PICK C : C = Cached(i)'
  OBVIOUS
<1>3. (CHOOSE r \in C : TRUE) = s
  BY <1>1, <1>2
<1>4. \E r \in C : \A t \in Task : ~(pc'[t] = "read" /\ slot(t)' = r)
  BY <1>1, <1>2 DEF Reading
<1> QED BY <1>2, <1>3, <1>4 DEF Known

LEMMA KnownOutNext ==
    ASSUME NEW i, \A s \in Slot : inode'[s].id = i => Reading(s)'
    PROVE  Known(i)' = dinode'[i]
<1>1. ~\E r \in Cached(i)' : \A t \in Task : ~(pc'[t] = "read" /\ slot(t)' = r)
  BY DEF Reading, Cached
<1> QED BY <1>1 DEF Known

(* The slot of inode i stays as it is, or it has none. *)
Unmoved(i) ==
    /\ \A r \in Slot : /\ inode'[r].id = i <=> inode[r].id = i
                       /\ inode[r].id = i => /\ inode'[r].data = inode[r].data
                                             /\ Reading(r)' <=> Reading(r)
    /\ dinode'[i] = dinode[i]

LEMMA KnownKept ==
    ASSUME IdsUnique, IdsUnique', NEW i \in Id, Unmoved(i)
    PROVE  Known(i)' = Known(i)
<1>1. i # NULL
  BY Constants
<1>2. CASE \E s \in Slot : inode[s].id = i /\ ~Reading(s)
  <2>1. PICK s \in Slot : inode[s].id = i /\ ~Reading(s)
    BY <1>2
  <2>2. Known(i) = inode[s].data
    BY <1>1, <2>1, KnownIn
  <2>3. inode'[s].id = i /\ ~Reading(s)' /\ inode'[s].data = inode[s].data
    BY <2>1 DEF Unmoved
  <2>4. Known(i)' = inode'[s].data
    BY <1>1, <2>3, KnownInNext
  <2> QED BY <2>2, <2>3, <2>4
<1>3. CASE \A s \in Slot : inode[s].id = i => Reading(s)
  <2>1. Known(i) = dinode[i]
    BY <1>3, KnownOut
  <2>2. \A s \in Slot : inode'[s].id = i => Reading(s)'
    BY <1>3 DEF Unmoved
  <2>3. Known(i)' = dinode'[i]
    BY <2>2, KnownOutNext
  <2> QED BY <2>1, <2>3 DEF Unmoved
<1> QED BY <1>2, <1>3

-----------------------------------------------------------------------------
(* Steps after which the same is known of every inode. *)
Kept == \A i \in Id : Known(i)' = Known(i)

(* The inode t asked for has a name, or somebody else asks for it. *)
LetGo(t) ==
    local[t].id \in names \cup {MountRoot, NULL}
        \/ \E u \in Task \ {t} : local[u].id = local[t].id

LEMMA KeptNames ==
    ASSUME RefInv, NameInv, NEW t \in Task, Alone(t), imap' = imap, names' = names, Kept,
           \A s \in Slot : NameSlot(s, inode[s])',
           pc[t] # "entry", pc'[t] # "entry",
           local'[t].id = local[t].id \/ LetGo(t)
    PROVE  NameInv'
<1>1. \A i \in Id : Entering(i)' <=> Entering(i)
  BY DEF Entering, Alone
<1>2. \A i \in File : Named(i)'
  <2> SUFFICES ASSUME NEW i \in File PROVE Named(i)'
    OBVIOUS
  <2>1. i \in Id /\ Named(i)
    BY Constants DEF NameInv
  <2> QED BY <1>1, <2>1 DEF Named, Kept
<1>3. \A i \in Id \ File : Known(i)'.nlinks = 1
  BY DEF NameInv, Kept
<1>4. \A i \in imap' \ {MountRoot} : i \in names' \/ Asked(i)'
  <2> SUFFICES ASSUME NEW i \in imap \ {MountRoot}, i \notin names PROVE Asked(i)'
    OBVIOUS
  <2>1. PICK u \in Task : local[u].id = i
    BY DEF NameInv, Asked
  <2>2. CASE u # t
    BY <2>1, <2>2 DEF Alone, Asked
  <2>3. CASE u = t /\ local'[t].id = local[t].id
    BY <2>1, <2>3 DEF Asked
  <2>4. CASE u = t /\ LetGo(t)
    <3>1. PICK v \in Task \ {t} : local[v].id = i
      <4>1. i # NULL
        BY Constants DEF RefInv, Typed
      <4> QED BY <2>1, <2>4, <4>1, Constants DEF LetGo, NameInv
    <3> QED BY <3>1 DEF Alone, Asked
  <2> QED BY <2>2, <2>3, <2>4
<1> QED BY <1>2, <1>3, <1>4 DEF NameInv

(* No slot gets another inode or other data. *)
Steady(t) ==
    /\ UNCHANGED <<dinode, imap, names>>
    /\ pc[t] \notin {"read", "entry"} /\ pc'[t] \notin {"read", "entry"}
    /\ \A r \in Slot :
          /\ inode'[r].id = inode[r].id /\ inode'[r].data = inode[r].data
          /\ inode[r].dirt => inode'[r].dirt
          /\ inode'[r].count = 0 /\ inode[r].id # NULL =>
                inode[r].count = 0 \/ inode[r].data.nlinks = 1

LEMMA SteadyNames ==
    ASSUME RefInv, NameInv, NEW t \in Task, RefStep(t), Steady(t),
           local'[t].id = local[t].id \/ LetGo(t)
    PROVE  NameInv' /\ Kept
<1>1. Alone(t) /\ IdsUnique /\ IdsUnique'
  BY DEF RefStep, RefInv
<1>2. \A r \in Slot : Reading(r)' <=> Reading(r)
  BY <1>1 DEF Reading, Alone, Steady, slot
<1>3. Kept
  <2> SUFFICES ASSUME NEW i \in Id PROVE Known(i)' = Known(i)
    BY DEF Kept
  <2>1. Unmoved(i)
    BY <1>2 DEF Unmoved, Steady
  <2> QED BY <1>1, <2>1, KnownKept
<1>4. \A s \in Slot : NameSlot(s, inode[s])'
  BY <1>2 DEF NameInv, NameSlot, Steady
<1>5. NameInv'
  BY <1>1, <1>3, <1>4, KeptNames DEF Steady
<1> QED BY <1>3, <1>5

(* The blocks files have. *)
LEMMA KeptOwned ==
    ASSUME Kept, imap' = imap, NEW i \in File
    PROVE  Owned(i)' = Owned(i)
<1>1. i \in Id
  BY Constants
<1> QED BY <1>1 DEF Kept, Owned

(* Files lose blocks at most, and t neither makes nor frees one now. *)
LEMMA FewerBlocks ==
    ASSUME BlockInv, NEW t \in Task, Alone(t),
           \A i \in File : Owned(i)' \subseteq Owned(i), zmap \subseteq zmap',
           pc'[t] \notin {"newblock", "truncate"}
    PROVE  BlockInv'
<1>1. \A i, j \in File : i # j => Owned(i)' \cap Owned(j)' = {}
  BY DEF BlockInv
<1>2. \A i \in File : Owned(i)' \subseteq zmap'
  BY DEF BlockInv
<1>3. \A u \in Task : BlockOK(u)'
  <2> SUFFICES ASSUME NEW u \in Task PROVE BlockOK(u)'
    OBVIOUS
  <2>1. CASE u = t
    BY <2>1 DEF BlockOK
  <2>2. CASE u # t
    <3>1. BlockOK(u) /\ pc'[u] = pc[u] /\ local'[u] = local[u]
      BY <2>2 DEF BlockInv, Alone
    <3>2. pc[u] = "newblock" => \A v \in Task \ {u} :
             pc'[v] \in {"newblock", "truncate"} => local'[v].block # local[u].block
      BY <2>2, <3>1 DEF BlockOK, Alone
    <3> QED BY <3>1, <3>2 DEF BlockOK
  <2> QED BY <2>1, <2>2
<1> QED BY <1>1, <1>2, <1>3 DEF BlockInv

LEMMA SteadyBlocks ==
    ASSUME BlockInv, NEW t \in Task, RefStep(t), Kept, imap' = imap, zmap \subseteq zmap',
           pc'[t] \notin {"newblock", "truncate"}
    PROVE  BlockInv'
<1>1. \A i \in File : Owned(i)' \subseteq Owned(i)
  BY KeptOwned
<1> QED BY <1>1, FewerBlocks DEF RefStep

Rest == NameInv' /\ BlockInv'

LEMMA SteadyRest ==
    ASSUME IInv, NEW t \in Task, RefStep(t), Steady(t), zmap' = zmap,
           pc'[t] \notin {"newblock", "truncate"},
           local'[t].id = local[t].id \/ LetGo(t)
    PROVE  Rest
<1>1. NameInv' /\ Kept /\ imap' = imap
  BY SteadyNames DEF IInv, Steady
<1>2. BlockInv'
  BY <1>1, SteadyBlocks DEF IInv
<1> QED BY <1>1, <1>2 DEF Rest

(* The slots stay as they are. *)
LEMMA StaysRest ==
    ASSUME IInv, NEW t \in Task, RefStep(t), inode' = inode,
           dinode' = dinode, maps' = maps, names' = names, NEW l, pc' = [pc EXCEPT ![t] = l],
           pc[t] \notin {"read", "entry"},
           l \notin {"read", "entry", "newblock", "truncate"},
           local'[t].id = local[t].id \/ LetGo(t)
    PROVE  Rest
<1>1. pc'[t] = l
  BY DEF IInv, RefInv, Typed
<1>2. Steady(t) /\ zmap' = zmap
  BY <1>1 DEF Steady, maps
<1> QED BY <1>1, <1>2, SteadyRest

LEMMA NoId ==
    ASSUME NEW t \in Task, local[t].id = NULL
    PROVE  LetGo(t)
BY DEF LetGo

LEMMA LookupRest ==
    ASSUME IInv, NEW t \in Task, NEW i \in Id, Lookup(t, i), RefStep(t)
    PROVE  Rest
<1>1. pc[t] = "user" /\ local[t].id = NULL
  BY TaskFacts DEF Lookup, At, IInv, SelfOK, NoLocals
<1> QED BY <1>1, NoId, StaysRest DEF Lookup, Sleep

LEMMA WaitRest ==
    ASSUME IInv, NEW t \in Task, WaitOnInode(t) \/ WaitOnSuper(t), RefStep(t)
    PROVE  Rest
<1>1. pc[t] \in {"scan", "iput", "get_super"}
  BY DEF WaitOnInode, Awaited, WaitOnSuper
<1>2. pc' = [pc EXCEPT ![t] = pc[t]] /\ local' = local
  BY DEF WaitOnInode, WaitOnSuper, Sleep
<1> QED BY <1>1, <1>2, StaysRest DEF WaitOnInode, WaitOnSuper

LEMMA RedirectRest ==
    ASSUME IInv, NEW t \in Task, Redirect(t), RefStep(t)
    PROVE  Rest
<1>1. pc[t] = "scan" /\ LetGo(t)
  BY TaskFacts DEF Redirect, At, IInv, SelfOK, LetGo
<1> QED BY <1>1, StaysRest DEF Redirect, Goto

LEMMA StartSyncRest ==
    ASSUME IInv, NEW t \in Task, StartSync(t) \/ SyncDone(t), RefStep(t)
    PROVE  Rest
<1>1. pc[t] \in {"user", "sync"} /\ local[t].id = NULL
  BY TaskFacts DEF StartSync, SyncDone, At, IInv, SelfOK, NoLocals
<1>2. PICK l \in {"user", "sync"} : pc' = [pc EXCEPT ![t] = l]
  BY DEF StartSync, SyncDone, Return, Sleep
<1> QED BY <1>1, <1>2, NoId, StaysRest DEF StartSync, SyncDone

LEMMA CloseRest ==
    ASSUME IInv, NEW t \in Task, Close(t) \/ StartMount(t) \/ ReadSuper(t), RefStep(t)
    PROVE  Rest
<1>1. pc[t] \in {"use", "get_super"} /\ local' = local
  BY DEF Close, StartMount, ReadSuper, InUse, At
<1>2. PICK l \in {"iput", "get_super", "super"} : pc' = [pc EXCEPT ![t] = l]
  BY DEF Close, StartMount, ReadSuper, Goto, Sleep
<1> QED BY <1>1, <1>2, StaysRest DEF Close, StartMount, ReadSuper

LEMMA SuperFailsRest ==
    ASSUME IInv, NEW t \in Task, SuperRead(t, FALSE), RefStep(t)
    PROVE  Rest
BY StaysRest DEF SuperRead, At, Goto

LEMMA UmountedRest ==
    ASSUME IInv, NEW t \in Task, Umounted(t), RefStep(t)
    PROVE  Rest
<1>1. pc[t] = "umounted" /\ LetGo(t)
  BY TaskFacts DEF Umounted, At, IInv, NameInv, SelfOK, LetGo
<1> QED BY <1>1, StaysRest DEF Umounted, Return, Sleep

(* A slot is locked, counted or marked. *)
LEMMA SyncInodeRest ==
    ASSUME IInv, NEW t \in Task, NEW s \in Slot, SyncInode(t, s), RefStep(t)
    PROVE  Rest
<1>1. pc[t] = "sync" /\ UNCHANGED <<dinode, imap, names>> /\ zmap' = zmap
  BY DEF SyncInode, At, maps
<1>2. PICK l \in {"sync", "syncwrite"} : pc' = [pc EXCEPT ![t] = l]
  BY DEF SyncInode, Sleep
<1>3. pc'[t] = l /\ local'[t].id = local[t].id
  BY <1>2 DEF SyncInode, IInv, RefInv, Typed, Locals
<1>4. /\ \A r \in Slot : /\ inode'[r].id = inode[r].id /\ inode'[r].data = inode[r].data
                         /\ inode'[r].dirt = inode[r].dirt
                         /\ inode'[r].count = inode[r].count
  BY DEF SyncInode, IInv, RefInv, Typed, InodeRec
<1>5. Steady(t)
  BY <1>1, <1>3, <1>4 DEF Steady
<1> QED BY <1>1, <1>3, <1>5, SteadyRest

LEMMA DropWritingRest ==
    ASSUME IInv, NEW t \in Task, DropWriting(t), RefStep(t)
    PROVE  Rest
<1>0. slot(t) \in Slot /\ held(t).id = local[t].id
  BY TaskFacts DEF DropWriting, Iput, At, IInv, SelfOK, HeldOK, Having
<1>1. pc[t] = "iput" /\ UNCHANGED <<dinode, imap, names>> /\ zmap' = zmap
  BY DEF DropWriting, Iput, Write, At, maps
<1>2. pc' = [pc EXCEPT ![t] = "write"]
  BY DEF DropWriting, Write, Sleep
<1>3. pc'[t] = "write" /\ local'[t].id = local[t].id
  BY <1>0, <1>2 DEF DropWriting, Write, IInv, RefInv, Typed, Locals, held
<1>4. /\ \A r \in Slot : /\ inode'[r].id = inode[r].id /\ inode'[r].data = inode[r].data
                         /\ inode'[r].dirt = inode[r].dirt
                         /\ inode'[r].count = inode[r].count
  BY DEF DropWriting, Write, IInv, RefInv, Typed, InodeRec
<1>5. Steady(t)
  BY <1>1, <1>3, <1>4 DEF Steady
<1> QED BY <1>1, <1>3, <1>5, SteadyRest

LEMMA HitRest ==
    ASSUME IInv, NEW t \in Task, NEW s \in Slot, Hit(t, s), RefStep(t)
    PROVE  Rest
<1>0. PICK e \in Slot : e = local[t].empty
  BY TaskFacts DEF Hit, At, IInv
<1>1. /\ pc[t] = "scan" /\ UNCHANGED <<dinode, imap, names>> /\ zmap' = zmap
      /\ inode[e].id = NULL /\ inode[s].count \in Nat /\ inode[s].id = local[t].id
      /\ local[t].id \in names \cup {MountRoot}
  BY <1>0, TaskFacts, CountSays DEF Hit, At, maps, IInv, Empty, Cached, SelfOK
<1>2. e # s
  BY <1>1, Constants DEF IInv, RefInv, Typed
<1>3. pc'[t] = "use" /\ local'[t].id = local[t].id
  BY DEF Hit, Sleep, IInv, RefInv, Typed, Locals
<1>4. inode' = [inode EXCEPT ![s].count = @ + 1, ![e].count = @ - 1]
  BY <1>0 DEF Hit
<1>5. \A r \in Slot : /\ inode'[r].id = inode[r].id /\ inode'[r].data = inode[r].data
                      /\ inode'[r].dirt = inode[r].dirt
                      /\ r \notin {s, e} => inode'[r].count = inode[r].count
  BY <1>2, <1>4 DEF IInv, RefInv, Typed, InodeRec
<1>6. inode'[s].count = inode[s].count + 1
  BY <1>2, <1>4 DEF IInv, RefInv, Typed, InodeRec
<1>7. Steady(t)
  BY <1>1, <1>3, <1>5, <1>6 DEF Steady
<1> QED BY <1>1, <1>3, <1>7, SteadyRest

LEMMA UmountRest ==
    ASSUME IInv, NEW t \in Task, Umount(t), RefStep(t)
    PROVE  Rest
<1>1. /\ pc[t] = "user" /\ UNCHANGED <<dinode, imap, names>> /\ zmap' = zmap
      /\ local[t].id = NULL /\ super.imount \in Slot
  BY TaskFacts
     DEF Umount, Mounted, At, maps, IInv, SelfOK, NoLocals, RefInv, Typed
<1>2. pc'[t] = "iput"
  BY DEF Umount, Goto, IInv, RefInv, Typed
<1>3. /\ \A r \in Slot : /\ inode'[r].id = inode[r].id /\ inode'[r].data = inode[r].data
                         /\ inode'[r].dirt = inode[r].dirt
                         /\ inode'[r].count = inode[r].count
  BY <1>1 DEF Umount, IInv, RefInv, Typed, InodeRec
<1>4. Steady(t)
  BY <1>1, <1>2, <1>3 DEF Steady
<1> QED BY <1>1, <1>2, <1>4, NoId, SteadyRest

LEMMA MountRest ==
    ASSUME IInv, NEW t \in Task, MountIt(t), UNCHANGED <<dinode, maps, names>>,
           pc[t] \in {"get_super", "super"}, RefStep(t)
    PROVE  Rest
<1>1. /\ UNCHANGED <<dinode, imap, names>> /\ zmap' = zmap
      /\ LetGo(t) /\ slot(t) \in Slot
  BY TaskFacts DEF maps, IInv, SelfOK, NameInv, LetGo, Having
<1>2. pc'[t] = "user"
  BY DEF MountIt, Return, Sleep, IInv, RefInv, Typed
<1>3. /\ \A r \in Slot : /\ inode'[r].id = inode[r].id /\ inode'[r].data = inode[r].data
                         /\ inode[r].dirt => inode'[r].dirt
                         /\ inode'[r].count = inode[r].count
  BY <1>1 DEF MountIt, IInv, RefInv, Typed, InodeRec
<1>4. Steady(t)
  BY <1>1, <1>2, <1>3 DEF Steady
<1> QED BY <1>1, <1>2, <1>4, SteadyRest

LEMMA GetSuperRest ==
    ASSUME IInv, NEW t \in Task, GetSuper(t) \/ SuperRead(t, TRUE), RefStep(t)
    PROVE  Rest
<1>1. pc[t] \in {"get_super", "super"} /\ UNCHANGED <<dinode, maps, names>> /\ SetMount(t)
  BY DEF GetSuper, SuperRead, At
<1>2. CASE super.imount # NULL \/ held(t).mount
  <2>1. pc' = [pc EXCEPT ![t] = "iput"] /\ inode' = inode /\ local' = local
    BY <1>1, <1>2 DEF SetMount, Goto
  <2> QED BY <1>1, <2>1, StaysRest
<1>3. CASE ~(super.imount # NULL \/ held(t).mount)
  BY <1>1, <1>3, MountRest DEF SetMount, MountIt
<1> QED BY <1>2, <1>3

(* Who holds a slot with an inode has asked for the inode. *)
LEMMA HolderAsks ==
    ASSUME RefInv, NEW s \in Slot, inode[s].id # NULL, NEW u \in Task, Holds(u, s)
    PROVE  slot(u) = s /\ pc[u] \in Having /\ local[u].id = inode[s].id
<1>1. local[u].empty # s
  BY TaskFacts, Constants DEF Empty, SelfOK
<1>2. slot(u) = s /\ pc[u] \notin {"sync", "syncwrite", "umounted"}
  BY <1>1 DEF Holds
<1>3. pc[u] \notin {"user", "iget", "scan"}
  BY <1>2, TaskFacts, Constants DEF SelfOK, NoLocals, slot
<1>4. pc[u] \in Having
  BY <1>2, <1>3, TaskFacts DEF Points, Having
<1> QED BY <1>2, <1>4, TaskFacts DEF HeldOK, held

LEMMA NotReading ==
    ASSUME RefInv, NEW t \in Task, NEW s \in Slot, Holds(t, s), pc[t] # "read"
    PROVE  ~Reading(s)
BY TwoHold DEF Reading

(* What is known of an inode is what its holder sees. *)
LEMMA HolderKnows ==
    ASSUME RefInv, NEW t \in Task, NEW s \in Slot, Holds(t, s), pc[t] # "read",
           inode[s].id # NULL
    PROVE  Known(inode[s].id) = inode[s].data
BY NotReading, KnownIn DEF RefInv

LEMMA NobodyEnters ==
    ASSUME RefInv, NEW t \in Task, NEW s \in Slot, Holds(t, s), pc[t] # "entry",
           inode[s].id # NULL
    PROVE  ~Entering(inode[s].id)
<1> SUFFICES ASSUME NEW u \in Task, pc[u] = "entry", local[u].id = inode[s].id PROVE FALSE
  BY DEF Entering
<1>1. slot(u) \in Slot /\ inode[slot(u)].id = local[u].id
  BY TaskFacts DEF SelfOK, Having, HeldOK, held
<1>2. slot(u) = s
  BY <1>1 DEF RefInv, IdsUnique
<1> QED BY <1>2, TwoHold

LEMMA LastDrop ==
    ASSUME IInv, NEW t \in Task, NEW s \in Slot, Holds(t, s), pc[t] = "iput",
           inode[s].count > 1 \/ inode[s].data.nlinks > 0, inode[s].id \in Id
    PROVE  LetGo(t)
<1>1. local[t].id = inode[s].id /\ inode[s].id # NULL
  BY HolderAsks, Constants DEF IInv
<1>2. CASE MountRef(s) # 0
  <2>1. super.imount = s /\ ~Umounting
    BY <1>2 DEF MountRef, Umounting
  <2>2. inode[s].id \in Dir
    BY <2>1 DEF IInv, RefInv, SlotsOK, SlotOK
  <2> QED BY <1>1, <2>2 DEF IInv, NameInv, LetGo
<1>3. CASE MountRef(s) = 0 /\ inode[s].count > 1
  <2>1. PICK u \in Task \ {t} : Holds(u, s)
    BY <1>3, Shared DEF IInv
  <2>2. local[u].id = inode[s].id
    BY <1>1, <2>1, HolderAsks DEF IInv
  <2> QED BY <1>1, <2>2 DEF LetGo
<1>4. CASE inode[s].data.nlinks > 0 /\ inode[s].id \in File
  <2>1. Known(inode[s].id) = inode[s].data /\ ~Entering(inode[s].id)
    BY <1>1, HolderKnows, NobodyEnters DEF IInv
  <2>2. inode[s].data.nlinks = 1
    BY <1>4 DEF IInv, RefInv, Typed, InodeRec, DataRec
  <2>3. inode[s].id \in imap
    BY <1>1 DEF IInv, NameInv, NameSlot
  <2>4. inode[s].id \in names
    BY <1>4, <2>1, <2>2, <2>3 DEF IInv, NameInv, Named
  <2> QED BY <1>1, <2>4 DEF LetGo
<1>5. CASE inode[s].id \notin File
  BY <1>1, <1>5, Constants DEF IInv, NameInv, LetGo
<1> QED BY <1>2, <1>3, <1>4, <1>5

LEMMA DropRest ==
    ASSUME IInv, NEW t \in Task, Drop(t), RefStep(t)
    PROVE  Rest
<1>0. PICK s \in Slot : s = slot(t)
  BY TaskFacts DEF Drop, Iput, At, SelfOK, Having, IInv
<1>1. /\ pc[t] = "iput" /\ UNCHANGED <<dinode, imap, names>> /\ zmap' = zmap
      /\ Holds(t, s) /\ inode[s] \in InodeRec /\ inode[s].count \in Nat
      /\ inode[s].count > 1 \/ (inode[s].data.nlinks > 0 /\ ~inode[s].dirt)
  BY <1>0 DEF Drop, Iput, At, maps, Holds, held, IInv, RefInv, Typed, InodeRec
<1>2. inode[s].id \in Id
  BY <1>0, <1>1, TaskFacts DEF IInv, SelfOK, HeldOK, held, Having
<1>3. LetGo(t)
  BY <1>1, <1>2, LastDrop
<1>4. PICK l \in {"user", "umounted"} : pc' = [pc EXCEPT ![t] = l]
  BY DEF Drop, AfterIput, Goto, Return, Sleep
<1>5. pc'[t] = l
  BY <1>4 DEF IInv, RefInv, Typed
<1>6. /\ inode'[s].count = inode[s].count - 1
      /\ \A r \in Slot : /\ inode'[r].id = inode[r].id /\ inode'[r].data = inode[r].data
                         /\ inode'[r].dirt = inode[r].dirt
                         /\ r # s => inode'[r].count = inode[r].count
  BY <1>0 DEF Drop, IInv, RefInv, Typed, InodeRec
<1>7. inode'[s].count = 0 => inode[s].data.nlinks = 1
  BY <1>1, <1>6 DEF InodeRec, DataRec
<1>8. Steady(t)
  BY <1>1, <1>5, <1>6, <1>7 DEF Steady
<1> QED BY <1>1, <1>3, <1>5, <1>8, SteadyRest

(* t goes on with block b. *)
LEMMA TakesBlock ==
    ASSUME IInv, NEW t \in Task, RefStep(t), Kept, imap' = imap,
           zmap \subseteq zmap', BlockOK(t)',
           \A u \in Task \ {t} : pc[u] = "newblock" => local[u].block # local'[t].block
    PROVE  BlockInv'
<1>1. \A i \in File : Owned(i)' = Owned(i)
  BY KeptOwned
<1>2. \A i, j \in File : i # j => Owned(i)' \cap Owned(j)' = {}
  BY <1>1 DEF IInv, BlockInv
<1>3. \A i \in File : Owned(i)' \subseteq zmap'
  BY <1>1 DEF IInv, BlockInv
<1>4. ASSUME NEW u \in Task \ {t} PROVE BlockOK(u)'
  <2>1. BlockOK(u) /\ pc'[u] = pc[u] /\ local'[u] = local[u]
    BY DEF IInv, BlockInv, RefStep, Alone
  <2>2. pc[u] = "newblock" => \A v \in Task \ {u} :
           pc'[v] \in {"newblock", "truncate"} => local'[v].block # local[u].block
    BY <2>1 DEF BlockOK, RefStep, Alone
  <2> QED BY <1>1, <2>1, <2>2 DEF BlockOK
<1> QED BY <1>2, <1>3, <1>4 DEF BlockInv

LEMMA NewBlockRest ==
    ASSUME IInv, NEW t \in Task, NEW b \in Block, NewBlock(t, b), RefStep(t)
    PROVE  Rest
<1>1. /\ pc[t] = "use" /\ UNCHANGED <<inode, dinode, imap, names>> /\ b \notin zmap
      /\ zmap' = zmap \cup {b} /\ b # NULL
  BY Constants DEF NewBlock, InUse, At
<1>2. pc'[t] = "newblock" /\ local'[t].id = local[t].id /\ local'[t].block = b
  BY DEF NewBlock, Sleep, IInv, RefInv, Typed, Locals
<1>3. Steady(t)
  BY <1>1, <1>2 DEF Steady
<1>4. NameInv' /\ Kept
  BY <1>2, <1>3, SteadyNames DEF IInv
<1>5. \A i \in File : b \notin Owned(i)'
  BY <1>1, <1>4, KeptOwned DEF IInv, BlockInv
<1>6. \A u \in Task \ {t} : pc[u] \in {"newblock", "truncate"} => local[u].block # b
  BY <1>1 DEF IInv, BlockInv, BlockOK
<1>7. BlockOK(t)'
  BY <1>1, <1>2, <1>5, <1>6 DEF BlockOK, RefStep, Alone
<1> QED BY <1>1, <1>2, <1>4, <1>6, <1>7, TakesBlock DEF Rest

LEMMA TruncateRest ==
    ASSUME IInv, NEW t \in Task, StartTruncate(t) \/ DropLast(t), RefStep(t),
           local[t].id \in File
    PROVE  Rest
<1>0. PICK s \in Slot, i \in File, b \in {inode[slot(t)].data.zone} :
          s = slot(t) /\ b = inode[s].data.zone /\ i = local[t].id
  <2>1. pc[t] \in {"use", "iput"}
    BY DEF StartTruncate, InUse, DropLast, Iput, At
  <2>2. slot(t) \in Slot
    BY <2>1, TaskFacts DEF SelfOK, Having, IInv
  <2> QED BY <2>2
<1>1. /\ pc[t] \in {"use", "iput"} /\ UNCHANGED <<inode, dinode, maps, names>>
      /\ imap' = imap /\ zmap' = zmap
  BY DEF StartTruncate, InUse, DropLast, Iput, At, maps
<1>2. pc'[t] = "truncate" /\ local'[t].id = i /\ local'[t].block = b
  BY <1>0 DEF StartTruncate, DropLast, Sleep, IInv, RefInv, Typed, Locals, held
<1>3. Steady(t)
  BY <1>1, <1>2 DEF Steady
<1>4. NameInv' /\ Kept
  BY <1>0, <1>2, <1>3, SteadyNames DEF IInv
<1>5. inode[s].id = i /\ i # NULL /\ Holds(t, s)
  BY <1>0, <1>1, TaskFacts, Constants DEF IInv, HeldOK, held, Having, Holds
<1>6. Known(i) = inode[s].data /\ i \in imap
  BY <1>1, <1>5, HolderKnows DEF IInv, NameInv, NameSlot
<1>7. Owned(i) = {b} \ {NULL}
  BY <1>0, <1>6 DEF Owned
<1>8. /\ \A j \in File \ {i} : b \notin Owned(j)
      /\ b \in zmap \cup {NULL}
  BY <1>7, Constants DEF IInv, BlockInv, RefInv, Typed
<1>9. \A u \in Task \ {t} : pc[u] = "newblock" => local[u].block # b
  BY <1>7, TaskFacts, Constants DEF IInv, BlockInv, BlockOK, SelfOK
<1>10. BlockOK(t)'
  BY <1>1, <1>2, <1>4, <1>8, KeptOwned DEF BlockOK
<1> QED BY <1>1, <1>2, <1>4, <1>9, <1>10, TakesBlock DEF Rest

(* Only a regular file loses its last link. *)
LEMMA LastLink ==
    ASSUME IInv, NEW t \in Task, DropLast(t)
    PROVE  local[t].id \in File
<1>0. PICK s \in Slot : s = slot(t)
  BY TaskFacts DEF DropLast, Iput, At, SelfOK, Having, IInv
<1>1. /\ pc[t] = "iput" /\ inode[s].id = local[t].id /\ local[t].id \in Id
      /\ Holds(t, s) /\ inode[s].data.nlinks = 0
  BY <1>0, TaskFacts
     DEF DropLast, Iput, At, SelfOK, HeldOK, held, Having, IInv, Holds
<1>2. Known(local[t].id) = inode[s].data
  BY <1>1, HolderKnows, Constants DEF IInv
<1> QED BY <1>1, <1>2 DEF IInv, NameInv

-----------------------------------------------------------------------------
(* An inode goes through a slot. *)
LEMMA FreeKnows ==
    ASSUME IInv, NEW s \in Slot, inode[s].count = 0
    PROVE  ~Reading(s) /\ (inode[s].id # NULL => Known(inode[s].id) = dinode[inode[s].id])
<1>1. ~Reading(s)
  <2>1. \A u \in Task : ~Holds(u, s)
    BY Unheld DEF IInv
  <2> QED BY <2>1 DEF Reading, Holds
<1>2. ASSUME inode[s].id # NULL PROVE Known(inode[s].id) = dinode[inode[s].id]
  <2>1. Known(inode[s].id) = inode[s].data
    BY <1>1, <1>2, KnownIn DEF IInv, RefInv
  <2>2. ~inode[s].dirt
    BY DEF IInv, RefInv, SlotsOK, SlotOK
  <2>3. NameSlot(s, inode[s])
    BY DEF IInv, NameInv
  <2> QED BY <1>1, <1>2, <2>1, <2>2, <2>3 DEF NameSlot
<1> QED BY <1>1, <1>2

LEMMA IgetRest ==
    ASSUME IInv, NEW t \in Task, NEW s \in Slot, Iget(t, s), RefStep(t)
    PROVE  Rest
<1>1. /\ pc[t] = "iget" /\ UNCHANGED <<dinode, imap, names>> /\ zmap' = zmap
      /\ inode[s].count = 0
  BY DEF Iget, At, maps, Free
<1>2. pc'[t] = "scan" /\ local'[t].id = local[t].id
  BY DEF Iget, Goto, Take, IInv, RefInv, Typed, Locals
<1>3. inode'[s].id = NULL /\ \A r \in Slot \ {s} : inode'[r] = inode[r]
  BY DEF Iget, Take, Empty, IInv, RefInv, Typed
<1>4. Alone(t) /\ IdsUnique /\ IdsUnique'
  BY DEF RefStep, IInv, RefInv
<1>5. \A r \in Slot : Reading(r)' <=> Reading(r)
  BY <1>1, <1>2, <1>4 DEF Reading, Alone, slot
<1>6. Kept
  <2> SUFFICES ASSUME NEW i \in Id PROVE Known(i)' = Known(i)
    BY DEF Kept
  <2>0. i # NULL
    BY Constants
  <2>1. CASE inode[s].id = i
    <3>1. Known(i) = dinode[i]
      BY <1>1, <2>0, <2>1, FreeKnows
    <3>2. \A r \in Slot : inode'[r].id # i
      BY <1>3, <1>4, <2>0, <2>1 DEF IdsUnique
    <3>3. Known(i)' = dinode'[i]
      BY <3>2, KnownOutNext
    <3> QED BY <1>1, <3>1, <3>3
  <2>2. CASE inode[s].id # i
    <3>1. Unmoved(i)
      BY <1>1, <1>3, <1>5, <2>0, <2>2 DEF Unmoved
    <3> QED BY <1>4, <3>1, KnownKept
  <2> QED BY <2>1, <2>2
<1>7. \A r \in Slot : NameSlot(r, inode[r])'
  BY <1>1, <1>3, <1>5 DEF NameSlot, IInv, NameInv
<1>8. NameInv'
  BY <1>1, <1>2, <1>4, <1>6, <1>7, KeptNames DEF IInv
<1> QED BY <1>1, <1>2, <1>6, <1>8, SteadyBlocks DEF Rest, IInv

LEMMA MissRest ==
    ASSUME IInv, NEW t \in Task, Miss(t), RefStep(t)
    PROVE  Rest
<1>0. PICK s \in Slot, i \in {local[t].id} : s = local[t].empty /\ i = local[t].id
  BY TaskFacts DEF Miss, At, IInv
<1>1. /\ pc[t] = "scan" /\ UNCHANGED <<dinode, imap, names>> /\ zmap' = zmap
      /\ inode[s] = [Empty EXCEPT !.count = 1] /\ i \in names \cup {MountRoot}
      /\ \A r \in Slot : inode[r].id # i
  BY <1>0, TaskFacts DEF Miss, At, maps, IInv, SelfOK, Cached
<1>2. pc'[t] = "read" /\ local'[t].id = i /\ slot(t)' = s
  BY <1>0 DEF Miss, Sleep, IInv, RefInv, Typed, Locals, slot
<1>3. /\ inode'[s].id = i /\ inode'[s].count = 1 /\ inode[s].id = NULL
      /\ \A r \in Slot \ {s} : inode'[r] = inode[r]
  <2>1. inode' = [inode EXCEPT ![s].id = i, ![s].lock = TRUE]
    BY <1>0 DEF Miss
  <2> QED BY <1>1, <2>1 DEF Empty, IInv, RefInv, Typed
<1>4. Alone(t) /\ IdsUnique /\ IdsUnique'
  BY DEF RefStep, IInv, RefInv
<1>5. Reading(s)' /\ \A r \in Slot \ {s} : Reading(r)' <=> Reading(r)
  <2>1. Reading(s)'
    BY <1>2 DEF Reading
  <2>2. \A r \in Slot \ {s} : Reading(r)' <=> Reading(r)
    BY <1>1, <1>2, <1>4 DEF Reading, Alone, slot
  <2> QED BY <2>1, <2>2
<1>6. Kept
  <2> SUFFICES ASSUME NEW j \in Id PROVE Known(j)' = Known(j)
    BY DEF Kept
  <2>0. j # NULL
    BY Constants
  <2>1. CASE j = i
    <3>1. Known(j) = dinode[j]
      BY <1>1, <2>1, KnownOut
    <3>2. \A r \in Slot : inode'[r].id = j => Reading(r)'
      BY <1>1, <1>3, <1>5, <2>1
    <3>3. Known(j)' = dinode'[j]
      BY <3>2, KnownOutNext
    <3> QED BY <1>1, <3>1, <3>3
  <2>2. CASE j # i
    <3>1. Unmoved(j)
      BY <1>1, <1>3, <1>5, <2>0, <2>2 DEF Unmoved
    <3> QED BY <1>4, <3>1, KnownKept
  <2> QED BY <2>1, <2>2
<1>7. i \in imap
  <2>1. names \subseteq imap
    BY Constants DEF IInv, NameInv, Named, RefInv, Typed
  <2> QED BY <1>1, <2>1 DEF IInv, NameInv
<1>8. \A r \in Slot : NameSlot(r, inode[r])'
  <2> SUFFICES ASSUME NEW r \in Slot PROVE NameSlot(r, inode[r])'
    OBVIOUS
  <2>1. CASE r = s
    BY <1>1, <1>3, <1>5, <1>7, <2>1 DEF NameSlot
  <2>2. CASE r # s
    BY <1>1, <1>3, <1>5, <2>2 DEF NameSlot, IInv, NameInv
  <2> QED BY <2>1, <2>2
<1>9. NameInv'
  BY <1>0, <1>1, <1>2, <1>4, <1>6, <1>8, KeptNames DEF IInv
<1> QED BY <1>1, <1>2, <1>6, <1>9, SteadyBlocks DEF Rest, IInv

LEMMA ReadInodeRest ==
    ASSUME IInv, NEW t \in Task, ReadInode(t), RefStep(t)
    PROVE  Rest
<1>0. PICK i \in Id, s \in Slot : s = slot(t) /\ i = local[t].id
  BY TaskFacts DEF ReadInode, At, IInv, SelfOK, Having
<1>1. /\ pc[t] = "read" /\ UNCHANGED <<dinode, imap, names>> /\ zmap' = zmap
      /\ inode[s].id = i /\ inode[s].count = 1 /\ Holds(t, s) /\ i # NULL
  BY <1>0, TaskFacts, Constants
     DEF ReadInode, At, maps, IInv, HeldOK, held, Having, Holds
<1>2. pc'[t] = "use" /\ local'[t] = local[t]
  BY DEF ReadInode, Sleep, IInv, RefInv, Typed
<1>3. /\ inode'[s].id = i /\ inode'[s].count = 1 /\ inode'[s].data = dinode[i]
      /\ \A r \in Slot \ {s} : inode'[r] = inode[r]
  <2>1. inode' = [inode EXCEPT ![s].data = dinode[i], ![s].lock = FALSE]
    BY <1>0 DEF ReadInode
  <2> QED BY <1>1, <2>1 DEF IInv, RefInv, Typed, InodeRec
<1>4. Alone(t) /\ IdsUnique /\ IdsUnique'
  BY DEF RefStep, IInv, RefInv
<1>5. /\ Reading(s) /\ ~Reading(s)'
      /\ \A r \in Slot \ {s} : Reading(r)' <=> Reading(r)
  <2>1. Reading(s)
    BY <1>0, <1>1 DEF Reading
  <2>2. \A u \in Task \ {t} : slot(u) = s => pc[u] # "read"
    BY <1>1, TwoHold DEF IInv
  <2>3. ~Reading(s)'
    BY <1>2, <1>4, <2>2 DEF Reading, Alone, slot
  <2>4. \A r \in Slot \ {s} : Reading(r)' <=> Reading(r)
    BY <1>0, <1>1, <1>2, <1>4 DEF Reading, Alone, slot
  <2> QED BY <2>1, <2>3, <2>4
<1>6. Kept
  <2> SUFFICES ASSUME NEW j \in Id PROVE Known(j)' = Known(j)
    BY DEF Kept
  <2>1. CASE j = i
    <3>1. \A r \in Slot : inode[r].id = i => Reading(r)
      BY <1>1, <1>4, <1>5 DEF IdsUnique
    <3>2. Known(i) = dinode[i]
      BY <3>1, KnownOut
    <3>3. Known(i)' = inode'[s].data
      BY <1>1, <1>3, <1>4, <1>5, KnownInNext
    <3> QED BY <1>3, <2>1, <3>2, <3>3
  <2>2. CASE j # i
    <3>1. Unmoved(j)
      BY <1>1, <1>3, <1>5, <2>2 DEF Unmoved
    <3> QED BY <1>4, <3>1, KnownKept
  <2> QED BY <2>1, <2>2
<1>7. \A r \in Slot : NameSlot(r, inode[r])'
  <2> SUFFICES ASSUME NEW r \in Slot PROVE NameSlot(r, inode[r])'
    OBVIOUS
  <2>0. NameSlot(r, inode[r])
    BY DEF IInv, NameInv
  <2>1. CASE r = s
    BY <1>1, <1>3, <2>0, <2>1 DEF NameSlot
  <2>2. CASE r # s
    BY <1>1, <1>3, <1>5, <2>0, <2>2 DEF NameSlot
  <2> QED BY <2>1, <2>2
<1>8. NameInv'
  BY <1>1, <1>2, <1>4, <1>6, <1>7, KeptNames DEF IInv
<1> QED BY <1>1, <1>2, <1>6, <1>8, SteadyBlocks DEF Rest, IInv

LEMMA WriteInodeRest ==
    ASSUME IInv, NEW t \in Task, WriteInode(t), RefStep(t)
    PROVE  Rest
<1>0. PICK s \in Slot : s = slot(t)
  BY TaskFacts DEF WriteInode, At, IInv, SelfOK, Having
<1>1. /\ pc[t] \in {"write", "syncwrite"} /\ UNCHANGED <<imap, names>> /\ zmap' = zmap
      /\ inode[s].id \in Id /\ inode[s].dirt
  <2>1. pc[t] \in {"write", "syncwrite"} /\ HeldOK(t, inode[s])
    BY <1>0, TaskFacts DEF WriteInode, At, held, IInv
  <2> QED BY <2>1 DEF WriteInode, maps, IInv, RefInv, HeldOK, SlotsOK, SlotOK, Id
<1>i. PICK i \in Id : i = inode[s].id
  BY <1>1
<1>2. pc'[t] \in {"iput", "sync"} /\ local'[t] = local[t] /\ i # NULL
  BY Constants DEF WriteInode, Goto, Sleep, IInv, RefInv, Typed
<1>3. /\ inode'[s].id = i /\ inode'[s].count = inode[s].count
      /\ inode'[s].data = inode[s].data
      /\ \A r \in Slot \ {s} : inode'[r] = inode[r]
  <2>1. inode' = [inode EXCEPT ![s].dirt = FALSE, ![s].lock = FALSE]
    BY <1>0 DEF WriteInode
  <2> QED BY <1>i, <2>1 DEF IInv, RefInv, Typed, InodeRec
<1>4. dinode'[i] = inode[s].data /\ \A j \in Id \ {i} : dinode'[j] = dinode[j]
  <2>1. dinode' = [dinode EXCEPT ![i] = inode[s].data]
    BY <1>0, <1>i, <1>2 DEF WriteInode, held
  <2> QED BY <2>1 DEF IInv, RefInv, Typed
<1>5. Alone(t) /\ IdsUnique /\ IdsUnique'
  BY DEF RefStep, IInv, RefInv
<1>6. ~Reading(s) /\ \A r \in Slot : Reading(r)' <=> Reading(r)
  <2>1. \A u \in Task \ {t} : slot(u) = s => pc[u] # "read"
    BY <1>0, <1>1 DEF IInv, RefInv, Apart, Locking
  <2>2. ~Reading(s)
    BY <1>1, <2>1 DEF Reading
  <2>3. \A r \in Slot : Reading(r)' <=> Reading(r)
    BY <1>1, <1>2, <1>5 DEF Reading, Alone, slot
  <2> QED BY <2>2, <2>3
<1>7. Kept
  <2> SUFFICES ASSUME NEW j \in Id PROVE Known(j)' = Known(j)
    BY DEF Kept
  <2>1. CASE j = i
    <3>1. Known(i) = inode[s].data
      BY <1>i, <1>2, <1>5, <1>6, KnownIn
    <3>2. Known(i)' = inode'[s].data
      BY <1>2, <1>3, <1>5, <1>6, KnownInNext
    <3> QED BY <1>3, <2>1, <3>1, <3>2
  <2>2. CASE j # i
    <3>1. Unmoved(j)
      BY <1>i, <1>3, <1>4, <1>6, <2>2 DEF Unmoved
    <3> QED BY <1>5, <3>1, KnownKept
  <2> QED BY <2>1, <2>2
<1>8. \A r \in Slot : NameSlot(r, inode[r])'
  <2> SUFFICES ASSUME NEW r \in Slot PROVE NameSlot(r, inode[r])'
    OBVIOUS
  <2>0. NameSlot(r, inode[r])
    BY DEF IInv, NameInv
  <2>1. CASE r = s
    BY <1>i, <1>1, <1>3, <1>4, <2>0, <2>1 DEF NameSlot
  <2>2. CASE r # s
    <3>1. inode[r].id # NULL => inode[r].id \in Id \ {i}
      BY <1>i, <1>2, <1>5, <2>2 DEF IdsUnique, IInv, RefInv, Typed, InodeRec
    <3> QED BY <1>1, <1>3, <1>4, <1>6, <2>0, <2>2, <3>1 DEF NameSlot
  <2> QED BY <2>1, <2>2
<1>9. NameInv'
  BY <1>1, <1>2, <1>5, <1>7, <1>8, KeptNames DEF IInv
<1> QED BY <1>1, <1>2, <1>7, <1>9, SteadyBlocks DEF Rest, IInv

-----------------------------------------------------------------------------
(* The holder of a regular file changes it. *)
Alters(t, s, i) ==
    /\ slot(t) = s /\ local[t].id = i
    /\ pc[t] \in {"use", "newblock", "truncate", "entry"} /\ pc'[t] \in {"use", "iput"}
    /\ local'[t].id = i
    /\ inode'[s].id = inode[s].id /\ inode'[s].count = inode[s].count
    /\ inode'[s].dirt \/ inode'[s].data.nlinks = 0
    /\ \A r \in Slot \ {s} : inode'[r] = inode[r]
    /\ dinode' = dinode /\ imap' = imap

LEMMA AltersKnown ==
    ASSUME IInv, NEW t \in Task, RefStep(t), NEW s \in Slot, NEW i \in File, Alters(t, s, i)
    PROVE  /\ Known(i) = inode[s].data /\ Known(i)' = inode'[s].data
           /\ \A j \in Id \ {i} : Known(j)' = Known(j)
           /\ \A r \in Slot : NameSlot(r, inode[r])'
           /\ i \in imap /\ inode[s].id = i /\ Holds(t, s) /\ pc[t] # "read"
<1>1. /\ inode[s].id = i /\ i # NULL /\ i \in Id /\ Holds(t, s) /\ pc[t] # "read"
      /\ inode[s].count # 0
  <2>1. inode[s].id = i /\ Holds(t, s)
    BY TaskFacts DEF Alters, IInv, HeldOK, held, Having, Holds
  <2> QED BY <2>1, Alive, Constants DEF IInv, Alters
<1>2. Alone(t) /\ IdsUnique /\ IdsUnique'
  BY DEF RefStep, IInv, RefInv
<1>3. ~Reading(s) /\ \A r \in Slot : Reading(r)' <=> Reading(r)
  <2>1. ~Reading(s)
    BY <1>1, NotReading DEF IInv
  <2>2. \A r \in Slot : Reading(r)' <=> Reading(r)
    BY <1>2 DEF Reading, Alone, slot, Alters
  <2> QED BY <2>1, <2>2
<1>4. Known(i) = inode[s].data
  BY <1>1, <1>2, <1>3, KnownIn
<1>5. Known(i)' = inode'[s].data
  BY <1>1, <1>2, <1>3, KnownInNext DEF Alters
<1>6. ASSUME NEW j \in Id \ {i} PROVE Known(j)' = Known(j)
  <2>1. Unmoved(j)
    BY <1>1, <1>3 DEF Unmoved, Alters
  <2> QED BY <1>2, <2>1, KnownKept
<1>7. ASSUME NEW r \in Slot PROVE NameSlot(r, inode[r])'
  <2>0. NameSlot(r, inode[r])
    BY DEF IInv, NameInv
  <2>1. CASE r = s
    BY <1>1, <2>0, <2>1 DEF NameSlot, Alters
  <2>2. CASE r # s
    BY <1>3, <2>0, <2>2 DEF NameSlot, Alters
  <2> QED BY <2>1, <2>2
<1>8. i \in imap
  BY <1>1 DEF IInv, NameInv, NameSlot
<1> QED BY <1>1, <1>4, <1>5, <1>6, <1>7, <1>8

LEMMA AltersNames ==
    ASSUME IInv, NEW t \in Task, RefStep(t), NEW s \in Slot, NEW i \in File, Alters(t, s, i),
           Named(i)', \A j \in Id \ {i} : j \in names' <=> j \in names
    PROVE  NameInv'
<1>1. Alone(t) /\ imap' = imap /\ local'[t].id = i /\ local[t].id = i
  BY DEF RefStep, Alters
<1>2. /\ \A j \in Id \ {i} : Known(j)' = Known(j)
      /\ \A r \in Slot : NameSlot(r, inode[r])'
  BY AltersKnown
<1>3. \A j \in Id \ {i} : Entering(j)' <=> Entering(j)
  BY <1>1 DEF Entering, Alone
<1>4. \A j \in File : Named(j)'
  <2> SUFFICES ASSUME NEW j \in File \ {i} PROVE Named(j)'
    OBVIOUS
  <2>1. j \in Id \ {i} /\ Named(j)
    BY Constants DEF IInv, NameInv
  <2> QED BY <1>1, <1>2, <1>3, <2>1 DEF Named
<1>5. \A j \in Id : Asked(j) => Asked(j)'
  BY <1>1 DEF Asked, Alone
<1>6. \A j \in imap' \ {MountRoot} : j \in names' \/ Asked(j)'
  <2>1. Asked(i)'
    BY <1>1 DEF Asked
  <2> QED BY <1>1, <1>5, <2>1 DEF IInv, NameInv, RefInv, Typed
<1>7. /\ Dir \subseteq names' /\ Dir \cup {MountRoot} \subseteq imap'
      /\ \A j \in Id \ File : Known(j)'.nlinks = 1
  BY <1>1, <1>2, Constants DEF IInv, NameInv
<1> QED BY <1>2, <1>4, <1>6, <1>7 DEF NameInv

(* No new block. *)
LEMMA AltersBlocks ==
    ASSUME IInv, NEW t \in Task, RefStep(t), NEW s \in Slot, NEW i \in File, Alters(t, s, i),
           inode'[s].data.zone = inode[s].data.zone, zmap' = zmap
    PROVE  BlockInv'
<1>1. /\ Known(i) = inode[s].data /\ Known(i)' = inode'[s].data
      /\ \A j \in Id \ {i} : Known(j)' = Known(j)
  BY AltersKnown
<1>2. \A j \in File : Owned(j)' \subseteq Owned(j)
  BY <1>1, Constants DEF Owned, Alters
<1> QED BY <1>2, FewerBlocks DEF RefStep, IInv, Alters

LEMMA UnlinkRest ==
    ASSUME IInv, NEW t \in Task, Unlink(t), RefStep(t)
    PROVE  Rest
<1>0. PICK s \in Slot, i \in File : s = slot(t) /\ i = held(t).id /\ local[t].id = i
  BY TaskFacts DEF Unlink, InUse, At, IInv, SelfOK, HeldOK, Having
<1>1. pc[t] = "use" /\ pc'[t] = "iput" /\ local' = local /\ names' = names \ {i}
  BY <1>0 DEF Unlink, InUse, At, Goto, IInv, RefInv, Typed
<1>2. inode' = [inode EXCEPT ![s].data = [inode[s].data EXCEPT !.nlinks = 0],
                             ![s].dirt = TRUE]
  BY <1>0 DEF Unlink, Change, held
<1>3. /\ inode'[s].id = inode[s].id /\ inode'[s].count = inode[s].count
      /\ inode'[s].data.nlinks = 0 /\ inode'[s].data.zone = inode[s].data.zone
      /\ \A r \in Slot \ {s} : inode'[r] = inode[r]
  BY <1>2 DEF IInv, RefInv, Typed, InodeRec, DataRec
<1>4. Alters(t, s, i) /\ zmap' = zmap
  BY <1>0, <1>1, <1>3 DEF Alters, Unlink, maps
<1>5. Known(i)' = inode'[s].data
  BY <1>4, AltersKnown
<1>6. Named(i)'
  BY <1>1, <1>3, <1>5 DEF Named
<1>7. NameInv'
  BY <1>1, <1>4, <1>6, AltersNames
<1>8. BlockInv'
  BY <1>3, <1>4, AltersBlocks
<1> QED BY <1>7, <1>8 DEF Rest

LEMMA EntryFailsRest ==
    ASSUME IInv, NEW t \in Task, AddEntry(t, FALSE), RefStep(t)
    PROVE  Rest
<1>0. PICK s \in Slot, i \in File : s = slot(t) /\ local[t].id = i
  BY TaskFacts DEF AddEntry, At, IInv, SelfOK, HeldOK, Having
<1>1. pc[t] = "entry" /\ pc'[t] = "iput" /\ local' = local /\ names' = names
  BY DEF AddEntry, At, Goto, IInv, RefInv, Typed
<1>2. inode' = [inode EXCEPT ![s].data.nlinks = 0]
  BY <1>0 DEF AddEntry
<1>3. /\ inode'[s].id = inode[s].id /\ inode'[s].count = inode[s].count
      /\ inode'[s].data.nlinks = 0 /\ inode'[s].data.zone = inode[s].data.zone
      /\ \A r \in Slot \ {s} : inode'[r] = inode[r]
  BY <1>2 DEF IInv, RefInv, Typed, InodeRec, DataRec
<1>4. Alters(t, s, i) /\ zmap' = zmap
  BY <1>0, <1>1, <1>3 DEF Alters, AddEntry, maps
<1>5. Known(i)' = inode'[s].data
  BY <1>4, AltersKnown
<1>6. i \notin names
  BY <1>0, <1>1 DEF IInv, NameInv, Named, Entering
<1>7. Named(i)'
  BY <1>1, <1>3, <1>5, <1>6 DEF Named
<1>8. NameInv'
  BY <1>1, <1>4, <1>7, AltersNames
<1>9. BlockInv'
  BY <1>3, <1>4, AltersBlocks
<1> QED BY <1>8, <1>9 DEF Rest

(* The name is there: nobody else makes the same inode. *)
LEMMA EntryMadeRest ==
    ASSUME IInv, NEW t \in Task, AddEntry(t, TRUE), RefStep(t)
    PROVE  Rest
<1>0. PICK s \in Slot, i \in File : s = slot(t) /\ local[t].id = i
  BY TaskFacts DEF AddEntry, At, IInv, SelfOK, HeldOK, Having
<1>1. /\ pc[t] = "entry" /\ pc'[t] = "use" /\ local' = local /\ inode' = inode
      /\ names' = names \cup {i} /\ UNCHANGED <<dinode, imap>> /\ zmap' = zmap
  BY <1>0 DEF AddEntry, At, Sleep, IInv, RefInv, Typed, maps
<1>2. Alone(t) /\ IdsUnique /\ IdsUnique'
  BY DEF RefStep, IInv, RefInv
<1>3. \A r \in Slot : Reading(r)' <=> Reading(r)
  BY <1>1, <1>2 DEF Reading, Alone, slot
<1>4. Kept
  <2> SUFFICES ASSUME NEW j \in Id PROVE Known(j)' = Known(j)
    BY DEF Kept
  <2>1. Unmoved(j)
    BY <1>1, <1>3 DEF Unmoved
  <2> QED BY <1>2, <2>1, KnownKept
<1>5. /\ inode[s].id = i /\ i # NULL /\ i \in Id /\ Holds(t, s)
      /\ inode[s].data.nlinks = 1
  BY <1>0, <1>1, TaskFacts, Constants DEF IInv, HeldOK, held, Having, Holds
<1>6. Known(i).nlinks = 1 /\ i \in imap
  BY <1>1, <1>5, HolderKnows DEF IInv, NameInv, NameSlot
<1>7. ~Entering(i)'
  <2> SUFFICES ASSUME NEW u \in Task \ {t}, pc[u] = "entry", local[u].id = i PROVE FALSE
    BY <1>1, <1>2 DEF Entering, Alone
  <2>1. slot(u) \in Slot /\ inode[slot(u)].id = i
    BY TaskFacts DEF IInv, SelfOK, HeldOK, held, Having
  <2>2. slot(u) = s
    BY <1>2, <1>5, <2>1 DEF IdsUnique
  <2> QED BY <1>5, <2>2, TwoHold DEF IInv
<1>8. \A j \in Id \ {i} : Entering(j)' <=> Entering(j)
  BY <1>0, <1>1, <1>2 DEF Entering, Alone
<1>9. \A j \in File : Named(j)'
  <2> SUFFICES ASSUME NEW j \in File PROVE Named(j)'
    OBVIOUS
  <2>1. CASE j = i
    BY <1>1, <1>4, <1>5, <1>6, <1>7, <2>1 DEF Named, Kept
  <2>2. CASE j # i
    <3>1. j \in Id \ {i} /\ Named(j)
      BY <2>2, Constants DEF IInv, NameInv
    <3> QED BY <1>1, <1>4, <1>8, <3>1 DEF Named, Kept
  <2> QED BY <2>1, <2>2
<1>10. \A r \in Slot : NameSlot(r, inode[r])'
  BY <1>1, <1>3 DEF NameSlot, IInv, NameInv
<1>11. \A j \in imap' \ {MountRoot} : j \in names' \/ Asked(j)'
  <2>1. \A j \in Id : Asked(j)' <=> Asked(j)
    BY <1>1 DEF Asked
  <2> QED BY <1>1, <2>1 DEF IInv, NameInv, RefInv, Typed
<1>12. NameInv'
  BY <1>1, <1>4, <1>9, <1>10, <1>11 DEF NameInv, IInv, Kept
<1> QED BY <1>1, <1>4, <1>12, SteadyBlocks DEF Rest, IInv

-----------------------------------------------------------------------------
(* Blocks are taken and given back. *)
LEMMA BlockMadeRest ==
    ASSUME IInv, NEW t \in Task, BlockMade(t), RefStep(t)
    PROVE  Rest
<1>0. PICK s \in Slot, i \in File, b \in Block :
          s = slot(t) /\ local[t].id = i /\ b = local[t].block
  BY TaskFacts DEF BlockMade, At, IInv, SelfOK, Having
<1>1. /\ pc[t] = "newblock" /\ pc'[t] = "use" /\ names' = names /\ zmap' = zmap
      /\ local'[t].id = i
  BY <1>0 DEF BlockMade, At, Sleep, IInv, RefInv, Typed, maps, Locals
<1>2. inode' = [inode EXCEPT ![s].data = [inode[s].data EXCEPT !.zone = b],
                             ![s].dirt = TRUE]
  BY <1>0 DEF BlockMade, Change, held
<1>3. /\ inode'[s].id = inode[s].id /\ inode'[s].count = inode[s].count
      /\ inode'[s].data.nlinks = inode[s].data.nlinks /\ inode'[s].data.zone = b
      /\ inode'[s].dirt
      /\ \A r \in Slot \ {s} : inode'[r] = inode[r]
  BY <1>2 DEF IInv, RefInv, Typed, InodeRec, DataRec
<1>4. Alters(t, s, i)
  BY <1>0, <1>1, <1>3 DEF Alters, BlockMade, maps
<1>5. /\ Known(i) = inode[s].data /\ Known(i)' = inode'[s].data
      /\ \A j \in Id \ {i} : Known(j)' = Known(j)
  BY <1>4, AltersKnown
<1>6. Alone(t) /\ imap' = imap
  BY <1>4 DEF RefStep, Alters
<1>7. Entering(i)' <=> Entering(i)
  BY <1>1, <1>6 DEF Entering, Alone
<1>8. Named(i)'
  BY <1>1, <1>3, <1>5, <1>6, <1>7 DEF IInv, NameInv, Named
<1>9. NameInv'
  BY <1>1, <1>4, <1>8, AltersNames
<1>10. /\ \A j \in File : b \notin Owned(j)
       /\ b \in zmap
       /\ \A u \in Task \ {t} : pc[u] \in {"newblock", "truncate"} => local[u].block # b
  BY <1>0, <1>1, Constants DEF IInv, BlockInv, BlockOK
<1>11. /\ Owned(i)' \subseteq {b}
       /\ \A j \in File \ {i} : Owned(j)' = Owned(j)
  BY <1>3, <1>5, <1>6, Constants DEF Owned
<1>12. \A j, k \in File : j # k => Owned(j)' \cap Owned(k)' = {}
  <2> SUFFICES ASSUME NEW j \in File, NEW k \in File, j # k
               PROVE  Owned(j)' \cap Owned(k)' = {}
    OBVIOUS
  <2>1. Owned(j) \cap Owned(k) = {}
    BY DEF IInv, BlockInv
  <2> QED BY <1>10, <1>11, <2>1
<1>13. \A j \in File : Owned(j)' \subseteq zmap'
  BY <1>1, <1>10, <1>11 DEF IInv, BlockInv
<1>14. ASSUME NEW u \in Task PROVE BlockOK(u)'
  <2>1. CASE u = t
    BY <1>1, <2>1 DEF BlockOK
  <2>2. CASE u # t
    <3>1. BlockOK(u) /\ pc'[u] = pc[u] /\ local'[u] = local[u]
      BY <1>6, <2>2 DEF IInv, BlockInv, Alone
    <3>2. pc[u] = "newblock" => \A v \in Task \ {u} :
             pc'[v] \in {"newblock", "truncate"} => local'[v].block # local[u].block
      BY <1>1, <1>6, <2>2, <3>1 DEF BlockOK, Alone
    <3>3. pc[u] = "newblock" => \A j \in File : local[u].block \notin Owned(j)'
      BY <1>10, <1>11, <2>2, <3>1 DEF BlockOK
    <3>4. pc[u] = "truncate" => \A j \in File \ {local[u].id} : local[u].block \notin Owned(j)'
      BY <1>10, <1>11, <2>2, <3>1 DEF BlockOK
    <3> QED BY <1>1, <3>1, <3>2, <3>3, <3>4 DEF BlockOK
  <2> QED BY <2>1, <2>2
<1>15. BlockInv'
  BY <1>12, <1>13, <1>14 DEF BlockInv
<1> QED BY <1>9, <1>15 DEF Rest

(* free_block clears no bit of a block that somebody else has or frees. *)
LEMMA FreeBlockOK ==
    ASSUME IInv, NEW t \in Task, pc[t] = "truncate", Alone(t), FreeBlock(t),
           pc'[t] \notin {"newblock", "truncate"}, NEW i \in File, local[t].id = i,
           Owned(i)' = {}, \A j \in File \ {i} : Owned(j)' = Owned(j)
    PROVE  BlockInv'
<1>0. PICK b : b = local[t].block
  OBVIOUS
<1>1. /\ \A j \in File \ {i} : b \notin Owned(j)
      /\ BlockOK(t)
  BY <1>0 DEF IInv, BlockInv, BlockOK
<1>2. \/ zmap' = zmap
      \/ zmap' = zmap \ {b} /\ \A u \in Task \ {t} : ~(pc[u] = "truncate" /\ local[u].block = b)
  BY <1>0 DEF FreeBlock, Counted
<1>3. \A j \in File : Owned(j)' \subseteq Owned(j)
  OBVIOUS
<1>4. \A j, k \in File : j # k => Owned(j)' \cap Owned(k)' = {}
  BY <1>3 DEF IInv, BlockInv
<1>5. \A j \in File : Owned(j)' \subseteq zmap'
  BY <1>1, <1>2 DEF IInv, BlockInv
<1>6. ASSUME NEW u \in Task PROVE BlockOK(u)'
  <2>1. CASE u = t
    BY <2>1 DEF BlockOK
  <2>2. CASE u # t
    <3>1. BlockOK(u) /\ pc'[u] = pc[u] /\ local'[u] = local[u]
      BY <2>2 DEF IInv, BlockInv, Alone
    <3>2. pc[u] = "newblock" => \A v \in Task \ {u} :
             pc'[v] \in {"newblock", "truncate"} => local'[v].block # local[u].block
      BY <2>2, <3>1 DEF BlockOK, Alone
    <3>3. pc[u] = "newblock" => local[u].block # b
      BY <1>0, <2>2, <3>1 DEF BlockOK
    <3>4. pc[u] \in {"newblock", "truncate"} => local[u].block \in zmap' \cup {NULL}
      BY <1>2, <2>2, <3>1, <3>3 DEF BlockOK
    <3> QED BY <1>3, <3>1, <3>2, <3>4 DEF BlockOK
  <2> QED BY <2>1, <2>2
<1> QED BY <1>4, <1>5, <1>6 DEF BlockInv

LEMMA TruncatedRest ==
    ASSUME IInv, NEW t \in Task, Truncated(t), local[t].op # "free", RefStep(t)
    PROVE  Rest
<1>0. PICK s \in Slot, i \in File : s = slot(t) /\ local[t].id = i
  BY TaskFacts DEF Truncated, At, IInv, SelfOK, Having
<1>1. /\ pc[t] = "truncate" /\ pc'[t] = "use" /\ names' = names /\ imap' = imap
      /\ local'[t].id = i /\ FreeBlock(t)
  BY <1>0 DEF Truncated, At, Sleep, IInv, RefInv, Typed, Locals
<1>2. inode' = [inode EXCEPT ![s].data = [inode[s].data EXCEPT !.zone = NULL],
                             ![s].dirt = TRUE]
  BY <1>0 DEF Truncated, Change, held
<1>3. /\ inode'[s].id = inode[s].id /\ inode'[s].count = inode[s].count
      /\ inode'[s].data.nlinks = inode[s].data.nlinks /\ inode'[s].data.zone = NULL
      /\ inode'[s].dirt
      /\ \A r \in Slot \ {s} : inode'[r] = inode[r]
  BY <1>2 DEF IInv, RefInv, Typed, InodeRec, DataRec
<1>4. Alters(t, s, i)
  BY <1>0, <1>1, <1>3 DEF Alters, Truncated
<1>5. /\ Known(i) = inode[s].data /\ Known(i)' = inode'[s].data
      /\ \A j \in Id \ {i} : Known(j)' = Known(j)
  BY <1>4, AltersKnown
<1>6. Alone(t)
  BY DEF RefStep
<1>7. Entering(i)' <=> Entering(i)
  BY <1>1, <1>6 DEF Entering, Alone
<1>8. Named(i)'
  BY <1>1, <1>3, <1>5, <1>7 DEF IInv, NameInv, Named
<1>9. NameInv'
  BY <1>1, <1>4, <1>8, AltersNames
<1>10. Owned(i)' = {} /\ \A j \in File \ {i} : Owned(j)' = Owned(j)
  BY <1>1, <1>3, <1>5, Constants DEF Owned
<1>11. BlockInv'
  BY <1>0, <1>1, <1>6, <1>10, FreeBlockOK
<1> QED BY <1>9, <1>11 DEF Rest

LEMMA FreedRest ==
    ASSUME IInv, NEW t \in Task, Truncated(t), local[t].op = "free", RefStep(t)
    PROVE  Rest
<1>0. PICK s \in Slot, i \in File : s = slot(t) /\ local[t].id = i
  BY TaskFacts DEF Truncated, At, IInv, SelfOK, Having
<1>1. /\ pc[t] = "truncate" /\ pc'[t] = "user" /\ names' = names /\ dinode' = dinode
      /\ FreeBlock(t) /\ Freeing(t)
  BY DEF Truncated, At, Return, Sleep, IInv, RefInv, Typed, Freeing
<1>2. /\ inode[s].id = i /\ inode[s].data.nlinks = 0 /\ Holds(t, s) /\ i # NULL /\ i \in Id
  BY <1>0, <1>1, TaskFacts, Constants
     DEF IInv, HeldOK, held, Having, Holds
<1>3. /\ imap' = imap \ {i} /\ inode'[s].id = NULL
      /\ \A r \in Slot \ {s} : inode'[r] = inode[r]
  BY <1>0, <1>1, <1>2 DEF Truncated, FreeInode, Freeing, held, Empty, IInv, RefInv, Typed
<1>4. Alone(t) /\ IdsUnique /\ IdsUnique'
  BY DEF RefStep, IInv, RefInv
<1>5. \A r \in Slot : Reading(r)' <=> Reading(r)
  BY <1>1, <1>4 DEF Reading, Alone, slot
<1>6. \A j \in Id \ {i} : Known(j)' = Known(j)
  <2> SUFFICES ASSUME NEW j \in Id \ {i} PROVE Known(j)' = Known(j)
    OBVIOUS
  <2>1. Unmoved(j)
    BY <1>1, <1>2, <1>3, <1>5, Constants DEF Unmoved
  <2> QED BY <1>4, <2>1, KnownKept
<1>7. Known(i).nlinks = 0
  BY <1>1, <1>2, HolderKnows DEF IInv
<1>8. i \notin names
  BY <1>7 DEF IInv, NameInv, Named
<1>9. \A j \in File : Named(j)'
  <2> SUFFICES ASSUME NEW j \in File PROVE Named(j)'
    OBVIOUS
  <2>1. CASE j = i
    BY <1>1, <1>3, <1>8, <2>1 DEF Named
  <2>2. CASE j # i
    <3>1. j \in Id \ {i} /\ Named(j)
      BY <2>2, Constants DEF IInv, NameInv
    <3>2. Entering(j)' <=> Entering(j)
      BY <1>1, <1>4 DEF Entering, Alone
    <3> QED BY <1>1, <1>3, <1>6, <3>1, <3>2 DEF Named
  <2> QED BY <2>1, <2>2
<1>10. \A r \in Slot : NameSlot(r, inode[r])'
  <2> SUFFICES ASSUME NEW r \in Slot \ {s} PROVE NameSlot(r, inode[r])'
    BY <1>3 DEF NameSlot
  <2>1. NameSlot(r, inode[r]) /\ inode[r].id # i
    BY <1>2, <1>4 DEF IInv, NameInv, IdsUnique
  <2> QED BY <1>1, <1>3, <1>5, <2>1 DEF NameSlot
<1>11. \A j \in imap' \ {MountRoot} : j \in names' \/ Asked(j)'
  <2> SUFFICES ASSUME NEW j \in imap \ {MountRoot, i}, j \notin names PROVE Asked(j)'
    BY <1>1, <1>3
  <2>1. PICK u \in Task : local[u].id = j
    BY DEF IInv, NameInv, Asked
  <2>2. local'[u].id = j
    BY <1>0, <1>4, <2>1 DEF Alone
  <2> QED BY <2>2 DEF Asked
<1>12. /\ Dir \subseteq names' /\ Dir \cup {MountRoot} \subseteq imap'
       /\ \A j \in Id \ File : Known(j)'.nlinks = 1
  BY <1>1, <1>3, <1>6, Constants DEF IInv, NameInv
<1>13. NameInv'
  BY <1>9, <1>10, <1>11, <1>12 DEF NameInv
<1>14. Owned(i)' = {} /\ \A j \in File \ {i} : Owned(j)' = Owned(j)
  BY <1>3, <1>6, Constants DEF Owned
<1>15. BlockInv'
  BY <1>0, <1>1, <1>4, <1>14, FreeBlockOK
<1> QED BY <1>13, <1>15 DEF Rest

(* A free inode is in no slot. *)
LEMMA FreeInodes ==
    ASSUME IInv, NEW i \in File \ imap
    PROVE  Cached(i) = {} /\ i \notin names
<1>1. i # NULL
  BY Constants
<1>2. Cached(i) = {}
  BY <1>1 DEF Cached, IInv, NameInv, NameSlot
<1>3. i \notin names
  BY DEF IInv, NameInv, Named
<1> QED BY <1>2, <1>3

LEMMA NewInodeRest ==
    ASSUME IInv, NEW t \in Task, NEW s \in Slot, NEW i \in File, NewInode(t, s, i), RefStep(t)
    PROVE  Rest
<1>1. /\ pc[t] = "user" /\ UNCHANGED <<dinode, names>> /\ zmap' = zmap
      /\ inode[s].count = 0 /\ i \notin imap /\ imap' = imap \cup {i}
      /\ local[t].id = NULL
  BY TaskFacts DEF NewInode, At, Free, IInv, SelfOK, NoLocals
<1>2. pc'[t] = "entry" /\ local'[t].id = i /\ local'[t].slot = s
  BY DEF NewInode, Sleep, IInv, RefInv, Typed, Locals
<1>x. PICK x : x = [Empty EXCEPT !.id = i, !.count = 1, !.dirt = TRUE, !.data = Data(1)]
  OBVIOUS
<1>y. /\ x.id = i /\ x.count = 1 /\ x.dirt
      /\ x.data.nlinks = 1 /\ x.data.zone = NULL
  BY <1>x DEF Empty, Data
<1>3. /\ inode'[s] = x
      /\ \A r \in Slot \ {s} : inode'[r] = inode[r]
  BY <1>x DEF NewInode, IInv, RefInv, Typed
<1>4. Alone(t) /\ IdsUnique /\ IdsUnique'
  BY DEF RefStep, IInv, RefInv
<1>5. Cached(i) = {} /\ i \notin names /\ i \in Id /\ i # NULL
  BY <1>1, FreeInodes, Constants
<1>6. ~Reading(s) /\ \A r \in Slot : Reading(r)' <=> Reading(r)
  <2>1. ~Reading(s)
    BY <1>1, FreeKnows
  <2>2. \A r \in Slot : Reading(r)' <=> Reading(r)
    BY <1>1, <1>2, <1>4 DEF Reading, Alone, slot
  <2> QED BY <2>1, <2>2
<1>7. Known(i)' = x.data
  BY <1>3, <1>4, <1>5, <1>6, <1>y, KnownInNext
<1>8. \A j \in Id \ {i} : Known(j)' = Known(j)
  <2> SUFFICES ASSUME NEW j \in Id \ {i} PROVE Known(j)' = Known(j)
    OBVIOUS
  <2>0. j # NULL
    BY Constants
  <2>1. CASE inode[s].id = j
    <3>1. Known(j) = dinode[j]
      BY <1>1, <2>0, <2>1, FreeKnows
    <3>2. \A r \in Slot : inode'[r].id # j
      BY <1>3, <1>4, <1>y, <2>0, <2>1 DEF IdsUnique
    <3>3. Known(j)' = dinode'[j]
      BY <3>2, KnownOutNext
    <3> QED BY <1>1, <3>1, <3>3
  <2>2. CASE inode[s].id # j
    <3>1. Unmoved(j)
      BY <1>1, <1>3, <1>6, <1>y, <2>0, <2>2 DEF Unmoved
    <3> QED BY <1>4, <3>1, KnownKept
  <2> QED BY <2>1, <2>2
<1>9. Entering(i)' /\ \A j \in Id \ {i} : Entering(j)' <=> Entering(j)
  BY <1>1, <1>2, <1>4 DEF Entering, Alone
<1>10. \A j \in File : Named(j)'
  <2> SUFFICES ASSUME NEW j \in File PROVE Named(j)'
    OBVIOUS
  <2>1. CASE j = i
    BY <1>1, <1>5, <1>9, <2>1 DEF Named
  <2>2. CASE j # i
    <3>1. j \in Id \ {i} /\ Named(j)
      BY <2>2, Constants DEF IInv, NameInv
    <3> QED BY <1>1, <1>8, <1>9, <3>1 DEF Named
  <2> QED BY <2>1, <2>2
<1>11. \A r \in Slot : NameSlot(r, inode[r])'
  <2> SUFFICES ASSUME NEW r \in Slot PROVE NameSlot(r, inode[r])'
    OBVIOUS
  <2>1. CASE r = s
    BY <1>1, <1>3, <1>y, <2>1 DEF NameSlot
  <2>2. CASE r # s
    BY <1>1, <1>3, <1>6, <2>2 DEF NameSlot, IInv, NameInv
  <2> QED BY <2>1, <2>2
<1>12. \A j \in imap' \ {MountRoot} : j \in names' \/ Asked(j)'
  <2>1. Asked(i)'
    BY <1>2 DEF Asked
  <2> SUFFICES ASSUME NEW j \in imap \ {MountRoot, i}, j \notin names PROVE Asked(j)'
    BY <1>1, <2>1
  <2>2. PICK u \in Task : local[u].id = j
    BY DEF IInv, NameInv, Asked
  <2>3. j # NULL
    BY Constants DEF IInv, RefInv, Typed
  <2>4. local'[u].id = j
    BY <1>1, <1>4, <2>2, <2>3 DEF Alone
  <2> QED BY <2>4 DEF Asked
<1>13. /\ Dir \subseteq names' /\ Dir \cup {MountRoot} \subseteq imap'
       /\ \A j \in Id \ File : Known(j)'.nlinks = 1
  BY <1>1, <1>8, Constants DEF IInv, NameInv
<1>14. NameInv'
  BY <1>10, <1>11, <1>12, <1>13 DEF NameInv
<1>15. \A j \in File : Owned(j)' \subseteq Owned(j)
  <2>1. Owned(i)' = {}
    BY <1>7, <1>y DEF Owned
  <2>2. \A j \in File \ {i} : Owned(j)' = Owned(j)
    BY <1>1, <1>8, Constants DEF Owned
  <2> QED BY <2>1, <2>2
<1>16. BlockInv'
  BY <1>1, <1>2, <1>4, <1>15, FewerBlocks DEF IInv
<1> QED BY <1>14, <1>16 DEF Rest

-----------------------------------------------------------------------------
(* What is looked up has links, and is not being made. *)
LEMMA HitAlone ==
    ASSUME IInv, NEW t \in Task, NEW s \in Slot, Hit(t, s), NEW u \in Task,
           Freeing(u) \/ pc[u] = "entry"
    PROVE  slot(u) # s
<1> SUFFICES ASSUME slot(u) = s PROVE FALSE
  OBVIOUS
<1>1. /\ inode[s].id = local[t].id /\ local[t].id \in names \cup {MountRoot}
      /\ pc[t] = "scan"
  BY TaskFacts DEF Hit, At, Cached, IInv, SelfOK
<1>2. /\ inode[s].id = local[u].id /\ local[u].id \in File /\ Holds(u, s)
      /\ pc[u] # "read"
  BY TaskFacts DEF IInv, SelfOK, HeldOK, held, Having, Holds, Freeing
<1>i. PICK i \in File : i = inode[s].id
  BY <1>2
<1>3. i \in names /\ i # NULL
  BY <1>1, <1>i, Constants
<1>4. Known(i).nlinks = 1 /\ ~Entering(i)
  BY <1>3 DEF IInv, NameInv, Named
<1>5. CASE pc[u] = "entry"
  BY <1>2, <1>4, <1>5, <1>i DEF Entering
<1>6. CASE Freeing(u)
  <2>1. Known(i) = inode[s].data
    BY <1>2, <1>3, <1>i, HolderKnows DEF IInv
  <2>2. inode[s].data.nlinks = 0
    BY <1>6, TaskFacts, Constants DEF IInv, HeldOK, held
  <2> QED BY <1>4, <2>1, <2>2
<1> QED BY <1>5, <1>6

LEMMA Done ==
    ASSUME IInv, NEW t \in Task, RefStep(t), Rest
    PROVE  IInv'
<1>1. RefInv'
  BY RefStepOK DEF IInv
<1> QED BY <1>1 DEF IInv, Rest

LEMMA BlockKnown ==
    ASSUME IInv, NEW t \in Task, Truncated(t)
    PROVE  local[t].block \in zmap \cup {NULL}
BY DEF Truncated, At, IInv, BlockInv, BlockOK

(* Inodes are looked up and read. *)
LEMMA LookStepOK ==
    ASSUME IInv, NEW t \in Task,
           \/ \E i \in Id : Lookup(t, i)
           \/ \E s \in Slot : Iget(t, s) \/ Hit(t, s)
           \/ WaitOnInode(t) \/ Redirect(t) \/ Miss(t) \/ ReadInode(t)
    PROVE  IInv'
<1>0. RefInv
  BY DEF IInv
<1>1. CASE \E i \in Id : Lookup(t, i)
  BY <1>0, <1>1, LookupRefs, LookupRest, Done
<1>2. ASSUME NEW s \in Slot, Iget(t, s) PROVE IInv'
  BY <1>0, <1>2, IgetRefs, IgetRest, Done
<1>3. ASSUME NEW s \in Slot, Hit(t, s) PROVE IInv'
  <2>1. \A u \in Task : Freeing(u) \/ pc[u] = "entry" => slot(u) # s
    BY <1>3, HitAlone
  <2>2. RefStep(t)
    BY <1>0, <1>3, <2>1, HitRefs
  <2> QED BY <1>3, <2>2, HitRest, Done
<1>4. CASE WaitOnInode(t)
  BY <1>0, <1>4, WaitRefs, WaitRest, Done
<1>5. CASE Redirect(t)
  BY <1>0, <1>5, RedirectRefs, RedirectRest, Done
<1>6. CASE Miss(t)
  BY <1>0, <1>6, MissRefs, MissRest, Done
<1>7. CASE ReadInode(t)
  BY <1>0, <1>7, ReadInodeRefs, ReadInodeRest, Done
<1> QED BY <1>1, <1>2, <1>3, <1>4, <1>5, <1>6, <1>7

(* They are used and made. *)
LEMMA UseStepOK ==
    ASSUME IInv, NoRaces, NEW t \in Task,
           \/ \E b \in Block : NewBlock(t, b)
           \/ BlockMade(t) \/ StartTruncate(t) \/ Unlink(t) \/ Close(t)
           \/ \E s \in Slot, i \in File : NewInode(t, s, i)
           \/ \E ok \in BOOLEAN : AddEntry(t, ok)
    PROVE  IInv'
<1>0. RefInv
  BY DEF IInv
<1>1. CASE \E b \in Block : NewBlock(t, b)
  BY <1>0, <1>1, NewBlockRefs, NewBlockRest, Done
<1>2. CASE BlockMade(t)
  BY <1>0, <1>2, BlockMadeRefs, BlockMadeRest, Done
<1>3. CASE StartTruncate(t)
  <2>1. local[t].id \in File
    BY <1>3, TaskFacts DEF StartTruncate, InUse, At, IInv, HeldOK, Having, SelfOK
  <2> QED BY <1>0, <1>3, <2>1, StartTruncateRefs, TruncateRest, Done
<1>4. CASE Unlink(t)
  BY <1>0, <1>4, UnlinkRefs, UnlinkRest, Done
<1>5. CASE Close(t)
  BY <1>0, <1>5, CloseRefs, CloseRest, Done
<1>6. ASSUME NEW s \in Slot, NEW i \in File, NewInode(t, s, i) PROVE IInv'
  <2>1. i \notin imap
    BY <1>6 DEF NewInode
  <2>2. Cached(i) = {}
    BY <2>1, FreeInodes
  <2> QED BY <1>0, <1>6, <2>2, NewInodeRefs, NewInodeRest, Done
<1>7. CASE AddEntry(t, TRUE)
  BY <1>0, <1>7, EntryMadeRefs, EntryMadeRest, Done
<1>8. CASE AddEntry(t, FALSE)
  BY <1>0, <1>8, EntryFailsRefs, EntryFailsRest, Done
<1> QED BY <1>1, <1>2, <1>3, <1>4, <1>5, <1>6, <1>7, <1>8

(* They are given up and written. *)
LEMMA PutStepOK ==
    ASSUME IInv, NoRaces, NEW t \in Task,
           \/ \E s \in Slot : SyncInode(t, s)
           \/ Drop(t) \/ DropLast(t) \/ DropWriting(t) \/ WriteInode(t) \/ Truncated(t)
           \/ StartSync(t) \/ SyncDone(t)
    PROVE  IInv'
<1>0. RefInv
  BY DEF IInv
<1>1. ASSUME NEW s \in Slot, SyncInode(t, s) PROVE IInv'
  BY <1>0, <1>1, SyncInodeRefs, SyncInodeRest, Done
<1>2. CASE Drop(t)
  BY <1>0, <1>2, DropRefs, DropRest, Done
<1>3. CASE DropLast(t)
  <2>1. local[t].id \in File
    BY <1>3, LastLink
  <2> QED BY <1>0, <1>3, <2>1, DropLastRefs, TruncateRest, Done
<1>4. CASE DropWriting(t)
  BY <1>0, <1>4, DropWritingRefs, DropWritingRest, Done
<1>5. CASE WriteInode(t)
  BY <1>0, <1>5, WriteInodeRefs, WriteInodeRest, Done
<1>6. CASE Truncated(t)
  <2>1. local[t].block \in zmap \cup {NULL}
    BY <1>6, BlockKnown
  <2>2. CASE local[t].op = "free"
    BY <1>0, <1>6, <2>1, <2>2, FreedRefs, FreedRest, Done
  <2>3. CASE local[t].op # "free"
    BY <1>0, <1>6, <2>1, <2>3, TruncatedRefs, TruncatedRest, Done
  <2> QED BY <2>2, <2>3
<1>7. CASE StartSync(t)
  BY <1>0, <1>7, StartSyncRefs, StartSyncRest, Done
<1>8. CASE SyncDone(t)
  BY <1>0, <1>8, SyncDoneRefs, StartSyncRest, Done
<1> QED BY <1>1, <1>2, <1>3, <1>4, <1>5, <1>6, <1>7, <1>8

(* The device is mounted and unmounted. *)
LEMMA MountStepOK ==
    ASSUME IInv, NoRaces, OneAdmin, NEW t \in Task,
           \/ \E ok \in BOOLEAN : SuperRead(t, ok)
           \/ StartMount(t) \/ WaitOnSuper(t) \/ GetSuper(t) \/ ReadSuper(t)
           \/ Umount(t) \/ Umounted(t)
    PROVE  IInv'
<1>0. RefInv
  BY DEF IInv
<1>1. CASE SuperRead(t, TRUE)
  BY <1>0, <1>1, SuperReadRefs, GetSuperRest, Done
<1>2. CASE SuperRead(t, FALSE)
  BY <1>0, <1>2, SuperFailsRefs, SuperFailsRest, Done
<1>3. CASE StartMount(t)
  BY <1>0, <1>3, StartMountRefs, CloseRest, Done
<1>4. CASE WaitOnSuper(t)
  BY <1>0, <1>4, WaitRefs, WaitRest, Done
<1>5. CASE GetSuper(t)
  BY <1>0, <1>5, GetSuperRefs, GetSuperRest, Done
<1>6. CASE ReadSuper(t)
  BY <1>0, <1>6, ReadSuperRefs, CloseRest, Done
<1>7. CASE Umount(t)
  BY <1>0, <1>7, UmountRefs, UmountRest, Done
<1>8. CASE Umounted(t)
  BY <1>0, <1>8, UmountedRefs, UmountedRest, Done
<1> QED BY <1>1, <1>2, <1>3, <1>4, <1>5, <1>6, <1>7, <1>8

-----------------------------------------------------------------------------
LEMMA InitOK == Init => IInv
<1> SUFFICES ASSUME Init PROVE IInv
  OBVIOUS
<1> USE DEF Init
<1>1. /\ NoLocals \in Locals /\ NoLocals.slot = NULL /\ NoLocals.empty = NULL
      /\ NoLocals.op = NULL /\ NoLocals.id = NULL
  BY DEF Locals, NoLocals, Zone
<1>2. /\ Data(0) \in DataRec /\ Data(1) \in DataRec /\ Data(1).nlinks = 1
      /\ Data(0).nlinks = 0 /\ Data(0).zone = NULL
  BY DEF Data, DataRec, Zone
<1>3. /\ Empty \in InodeRec /\ Empty.id = NULL /\ Empty.count = 0
      /\ ~Empty.dirt /\ ~Empty.lock /\ ~Empty.mount
  BY <1>2 DEF Empty, InodeRec
<1>4. Typed
  BY <1>1, <1>2, <1>3, Constants DEF Typed, Points
<1>5. RefsCounted
  <2> SUFFICES ASSUME NEW s \in Slot
               PROVE  inode[s].count = Cardinality(Refs(s)) + MountRef(s)
    BY DEF RefsCounted
  <2>1. Refs(s) = {}
    BY <1>1, Constants DEF Refs, Holds, slot
  <2>2. MountRef(s) = 0
    BY Constants DEF MountRef
  <2> QED BY <1>3, <2>1, <2>2, FS_EmptySet
<1>6. IdsUnique
  BY <1>3 DEF IdsUnique
<1>7. SlotsOK
  BY <1>3, Constants DEF SlotsOK, SlotOK
<1>8. Apart
  BY DEF Apart, Locking
<1>9. ASSUME NEW t \in Task PROVE TaskOK(t)
  BY <1>1, Constants DEF TaskOK, SelfOK, slot, Having, Locking
<1>10. RefInv
  BY <1>4, <1>5, <1>6, <1>7, <1>8, <1>9 DEF RefInv
<1>11. \A i \in Id : Known(i) = dinode[i]
  <2> SUFFICES ASSUME NEW i \in Id PROVE Known(i) = dinode[i]
    OBVIOUS
  <2>1. \A s \in Slot : inode[s].id # i
    BY <1>3, Constants
  <2> QED BY <2>1, KnownOut
<1>12. \A i \in File : Named(i)
  BY Constants DEF Named
<1>13. NameInv
  BY <1>2, <1>3, <1>11, <1>12, Constants DEF NameInv, NameSlot
<1>14. BlockInv
  <2>1. \A i \in File : Owned(i) = {}
    BY Constants DEF Owned
  <2> QED BY <2>1 DEF BlockInv, BlockOK
<1> QED BY <1>10, <1>13, <1>14 DEF IInv

LEMMA StutterOK ==
    ASSUME IInv, UNCHANGED vars
    PROVE  IInv'
<1> USE DEF vars
<1>1. /\ UNCHANGED <<inode, dinode, imap, zmap, stuck, names, super, pc, local>>
  OBVIOUS
<1>2. \A s \in Slot : (Refs(s)' = Refs(s)) /\ (MountRef(s)' = MountRef(s))
                      /\ (Reading(s)' <=> Reading(s))
  BY DEF Refs, Holds, slot, MountRef, Reading
<1>3. RefInv'
  <2>1. Typed' /\ IdsUnique' /\ SlotsOK' /\ Apart'
    BY <1>1 DEF IInv, RefInv, Typed, IdsUnique, SlotsOK, SlotOK, Umounting, Apart, slot
  <2>2. RefsCounted'
    BY <1>1, <1>2 DEF IInv, RefInv, RefsCounted
  <2>3. ASSUME NEW t \in Task PROVE TaskOK(t)'
    <3>1. TaskOK(t)
      BY DEF IInv, RefInv
    <3> QED BY <1>1, <3>1 DEF TaskOK, SelfOK, HeldOK, Freeing, Umounting, slot, held
  <2> QED BY <2>1, <2>2, <2>3 DEF RefInv
<1>4. Kept
  <2> SUFFICES ASSUME NEW i \in Id PROVE Known(i)' = Known(i)
    BY DEF Kept
  <2>1. Unmoved(i) /\ IdsUnique /\ IdsUnique'
    BY <1>1, <1>2, <1>3 DEF Unmoved, IInv, RefInv
  <2> QED BY <2>1, KnownKept
<1>5. \A i \in Id : (Entering(i)' <=> Entering(i)) /\ (Asked(i)' <=> Asked(i))
  BY <1>1 DEF Entering, Asked
<1>6. \A i \in File : Named(i)'
  <2> SUFFICES ASSUME NEW i \in File PROVE Named(i)'
    OBVIOUS
  <2>1. i \in Id /\ Named(i)
    BY Constants DEF IInv, NameInv
  <2> QED BY <1>1, <1>4, <1>5, <2>1 DEF Named, Kept
<1>7. \A s \in Slot : NameSlot(s, inode[s])'
  BY <1>1, <1>2 DEF IInv, NameInv, NameSlot
<1>8. NameInv'
  <2>1. imap \subseteq Id
    BY DEF IInv, RefInv, Typed
  <2> QED BY <1>1, <1>4, <1>5, <1>6, <1>7, <2>1 DEF IInv, NameInv, Kept
<1>9. \A i \in File : Owned(i)' = Owned(i)
  BY <1>1, <1>4, KeptOwned
<1>10. BlockInv'
  <2>1. ASSUME NEW t \in Task PROVE BlockOK(t)'
    <3>1. BlockOK(t)
      BY DEF IInv, BlockInv
    <3> QED BY <1>1, <1>9, <3>1 DEF BlockOK
  <2> QED BY <1>1, <1>9, <2>1 DEF IInv, BlockInv
<1> QED BY <1>3, <1>8, <1>10 DEF IInv

LEMMA StepOK ==
    ASSUME IInv, NoRaces, OneAdmin, [Next]_vars
    PROVE  IInv'
<1>1. ASSUME NEW t \in Task, Step(t) PROVE IInv'
  <2>1. CASE \/ \E i \in Id : Lookup(t, i)
             \/ \E s \in Slot : Iget(t, s) \/ Hit(t, s)
             \/ WaitOnInode(t) \/ Redirect(t) \/ Miss(t) \/ ReadInode(t)
    BY <2>1, LookStepOK
  <2>2. CASE \/ \E b \in Block : NewBlock(t, b)
             \/ BlockMade(t) \/ StartTruncate(t) \/ Unlink(t) \/ Close(t)
             \/ \E s \in Slot, i \in File : NewInode(t, s, i)
             \/ \E ok \in BOOLEAN : AddEntry(t, ok)
    BY <2>2, UseStepOK
  <2>3. CASE \/ \E s \in Slot : SyncInode(t, s)
             \/ Drop(t) \/ DropLast(t) \/ DropWriting(t) \/ WriteInode(t) \/ Truncated(t)
             \/ StartSync(t) \/ SyncDone(t)
    BY <2>3, PutStepOK
  <2>4. CASE \/ \E ok \in BOOLEAN : SuperRead(t, ok)
             \/ StartMount(t) \/ WaitOnSuper(t) \/ GetSuper(t) \/ ReadSuper(t)
             \/ Umount(t) \/ Umounted(t)
    BY <2>4, MountStepOK
  <2> QED BY <1>1, <2>1, <2>2, <2>3, <2>4 DEF Step
<1> QED BY <1>1, StutterOK DEF Next

(* The inductive invariant: counts, names and blocks. *)
THEOREM InodesInvariant == ASSUME NoRaces, OneAdmin PROVE Spec => []IInv
<1>1. IInv /\ [Next]_vars => IInv'
  BY StepOK
<1> QED BY <1>1, InitOK, PTL DEF Spec

LEMMA CountsOK == IInv => CountIsRefs
<1> SUFFICES ASSUME IInv PROVE CountIsRefs
  OBVIOUS
<1>0. RefInv
  BY DEF IInv
<1>1. TypeOK
  BY DEF IInv, RefInv, Typed, TypeOK, InodeRec, DataRec, Zone
<1>2. FreeIsClean
  BY DEF IInv, RefInv, SlotsOK, SlotOK, FreeIsClean, Free
<1>3. \A s \in Slot : inode[s].count = Cardinality({t \in Task : Holds(t, s)}) + MountRef(s)
  BY DEF IInv, RefInv, RefsCounted, Refs
<1>4. \A i \in Id : Cardinality(Cached(i)) <= 1
  <2> SUFFICES ASSUME NEW i \in Id PROVE Cardinality(Cached(i)) <= 1
    OBVIOUS
  <2>1. CASE Cached(i) = {}
    BY <2>1, FS_EmptySet
  <2>2. CASE Cached(i) # {}
    <3>1. PICK s \in Slot : inode[s].id = i
      BY <2>2 DEF Cached
    <3>2. Cached(i) = {s}
      BY <3>1, Constants DEF Cached, IInv, RefInv, IdsUnique
    <3> QED BY <3>2, FS_Singleton
  <2> QED BY <2>1, <2>2
<1>5. ASSUME NEW t \in Task, slot(t) # NULL, Holds(t, slot(t)) PROVE held(t).id = local[t].id
  <2>1. pc[t] \notin {"user", "iget", "scan"}
    BY <1>0, <1>5, TaskFacts DEF SelfOK, NoLocals, slot
  <2>2. local[t].empty = NULL
    BY <1>0, <2>1, TaskFacts DEF SelfOK
  <2>3. pc[t] \in Having
    BY <1>0, <1>5, <2>1, <2>2, TaskFacts DEF Holds, Points, Having
  <2> QED BY <1>0, <1>5, <2>3, TaskFacts DEF HeldOK
<1> QED BY <1>1, <1>2, <1>3, <1>4, <1>5 DEF CountIsRefs

(* With more slots than tasks one is free for a task that has none: the    *)
(* others have one each, and the mounted directory is in one.              *)
LEMMA SlotLeft ==
    ASSUME IInv, EnoughSlots, NEW t \in Task, pc[t] \in {"iget", "user"}
    PROVE  Free # {}
<1> SUFFICES ASSUME Free = {} PROVE FALSE
  OBVIOUS
<1>0. RefInv
  BY DEF IInv
<1>1. PICK f : f = [u \in Task |-> IF u = t THEN super.imount
                      ELSE IF local[u].empty # NULL THEN local[u].empty ELSE slot(u)]
  OBVIOUS
<1>2. PICK T : T = {f[u] : u \in Task}
  OBVIOUS
<1>3. f \in Surjection(Task, T)
  BY <1>1, <1>2 DEF Surjection
<1>4. IsFiniteSet(T) /\ Cardinality(T) <= Cardinality(Task)
  BY <1>3, Constants, FS_Surjection
<1>5. \A s \in Slot : s \in T
  <2> SUFFICES ASSUME NEW s \in Slot PROVE s \in T
    OBVIOUS
  <2>1. inode[s].count # 0
    BY DEF Free
  <2>2. CASE MountRef(s) # 0
    BY <1>1, <1>2, <2>2 DEF MountRef
  <2>3. CASE MountRef(s) = 0
    <3>1. Cardinality(Refs(s)) # 0
      BY <1>0, <2>1, <2>3, CountSays
    <3>2. PICK u \in Task : Holds(u, s)
      BY <3>1, FS_EmptySet DEF Refs
    <3>3. u # t
      BY <1>0, <3>2, TaskFacts, Constants DEF Holds, SelfOK, NoLocals, slot
    <3>4. local[u].empty # NULL => slot(u) = NULL
      BY <1>0, TaskFacts DEF SelfOK
    <3>5. f[u] = s
      BY <1>1, <3>2, <3>3, <3>4, Constants DEF Holds
    <3> QED BY <1>2, <3>5
  <2> QED BY <2>2, <2>3
<1>6. Slot \in SUBSET T
  BY <1>5
<1>7. Cardinality(Slot) <= Cardinality(T)
  BY <1>4, <1>6, FS_Subset
<1>8. IsFiniteSet(Slot)
  BY <1>4, <1>6, FS_Subset
<1>9. Cardinality(Slot) \in Nat /\ Cardinality(T) \in Nat /\ Cardinality(Task) \in Nat
  BY <1>4, <1>8, Constants, FS_CardinalityType
<1> QED BY <1>4, <1>7, <1>9 DEF EnoughSlots

LEMMA PanicsOK == IInv /\ EnoughSlots => NoPanic
<1> SUFFICES ASSUME IInv, EnoughSlots, NEW t \in Task
             PROVE  /\ Iput(t) => held(t).count > 0
                    /\ pc[t] = "truncate" /\ local[t].op = "free" =>
                          held(t).count = 1 /\ held(t).data.nlinks = 0
                    /\ pc[t] = "truncate" => local[t].block \in zmap \cup {NULL}
                    /\ pc[t] \in {"read", "write", "syncwrite"} /\ held(t).id = MountRoot
                          => super.dev
                    /\ pc[t] = "iget" \/ At(t, "user") => Free # {}
  BY DEF NoPanic
<1>0. RefInv
  BY DEF IInv
<1>1. Iput(t) => held(t).count > 0
  <2>1. Iput(t) => slot(t) \in Slot /\ Holds(t, slot(t))
    BY <1>0, TaskFacts DEF Iput, At, SelfOK, Having, Holds
  <2>2. Iput(t) => inode[slot(t)].count \in Nat \ {0}
    BY <1>0, <2>1, Alive
  <2> QED BY <2>2 DEF held
<1>2. Freeing(t) => held(t).count = 1 /\ held(t).data.nlinks = 0
  BY <1>0, TaskFacts DEF SelfOK, HeldOK, Having, Freeing
<1>3. pc[t] = "truncate" => local[t].block \in zmap \cup {NULL}
  BY DEF IInv, BlockInv, BlockOK
<1>4. ASSUME pc[t] \in {"read", "write", "syncwrite"}, held(t).id = MountRoot PROVE super.dev
  <2>1. slot(t) \in Slot /\ HeldOK(t, held(t)) /\ SelfOK(t)
    BY <1>0, <1>4, TaskFacts DEF SelfOK, Having
  <2>2. CASE pc[t] \in {"read", "write"}
    BY <1>4, <2>1, <2>2 DEF HeldOK, Having, SelfOK
  <2>3. CASE pc[t] = "syncwrite"
    BY <1>0, <1>4, <2>1, <2>3, Constants DEF HeldOK, held, RefInv, SlotsOK, SlotOK
  <2> QED BY <1>4, <2>2, <2>3
<1>5. pc[t] = "iget" \/ At(t, "user") => Free # {}
  BY SlotLeft DEF At
<1> QED BY <1>1, <1>2, <1>3, <1>4, <1>5 DEF Freeing

(* i_count is the number of references that tasks and the mount have, an   *)
(* inode is in one slot at most, and free slots are clean: inode.c:143 to  *)
(* 290, for any number of tasks, inodes and slots.                         *)
THEOREM CountsAreReferences == ASSUME NoRaces, OneAdmin PROVE Spec => []CountIsRefs
BY InodesInvariant, CountsOK, PTL

(* Names are those of the inodes with links, through caching, writing back *)
(* and freeing: inode.c:143 to 338, namei.c:663.                           *)
THEOREM NamesLeadToInodes == ASSUME NoRaces, OneAdmin PROVE Spec => []NamesMatch
<1>1. IInv => NamesMatch
  BY DEF IInv, NameInv, NamesMatch, Named, Entering, Asked
<1> QED BY <1>1, InodesInvariant, PTL

(* No block is given to two files, or to one while it is free.             *)
THEOREM BlocksHaveOneOwner == ASSUME NoRaces, OneAdmin PROVE Spec => []OneOwner
<1>1. ASSUME IInv, NEW t \in Task, pc[t] = "newblock"
      PROVE  local[t].block \in zmap \ UNION {Owned(i) : i \in File}
  <2>1. BlockOK(t) /\ local[t].block # NULL
    BY <1>1, TaskFacts, Constants DEF IInv, BlockInv, SelfOK
  <2> QED BY <1>1, <2>1 DEF BlockOK
<1>2. IInv => OneOwner
  BY <1>1 DEF IInv, BlockInv, OneOwner
<1> QED BY <1>2, InodesInvariant, PTL

(* The states for which the code has panics are not reached, if there are  *)
(* more slots than tasks that can hold one.                                *)
THEOREM NothingPanics == ASSUME NoRaces, OneAdmin, EnoughSlots PROVE Spec => []NoPanic
<1>1. IInv => NoPanic
  BY PanicsOK
<1> QED BY <1>1, InodesInvariant, PTL
=============================================================================
