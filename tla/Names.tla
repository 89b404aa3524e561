-------------------------------- MODULE Names --------------------------------
(***************************************************************************)
(* Directories and links (fs/namei.c): the walk along a path, open with    *)
(* O_CREAT, mknod, mkdir, rmdir, link and unlink by several tasks at once. *)
(* Each action runs from one place where the code can sleep (a buffer, an  *)
(* inode) to the next.  iget and iput are what Inodes shows of them: a     *)
(* count of holders, the last of which frees an inode without links.       *)
(*                                                                         *)
(* Nothing keeps two tasks from changing one directory together.  Where    *)
(* that goes wrong the history variable odd notes what has happened, and   *)
(* the properties say which oddity can break what.                         *)
(***************************************************************************)
EXTENDS Naturals, FiniteSets

CONSTANTS
    Task, Node, Root,   \* inodes, and the root directory
    Name, Pos,          \* names, and the places for entries in a directory
    Dirs,               \* inodes that mkdir takes, to bound the tree
    NONE

ASSUME NamesAssumption ==
    /\ Root \in Dirs /\ Dirs \subseteq Node
    /\ NONE \notin Task \cup Node \cup Name \cup Pos
    /\ NONE \notin [name : Name, node : Node]

VARIABLES
    node,       \* the inodes, with the contents of directories
    pc, local,
    odd         \* history: the collisions that have happened

namesVars == <<node, pc, local, odd>>

NoEntries == [p \in Pos |-> NONE]
FreeNode ==
    [kind |-> "free", nlinks |-> 0, parent |-> NONE, entry |-> NoEntries]
NoLocals == [op |-> NONE, name |-> NONE, dir |-> NONE, pos |-> NONE,
             node |-> NONE]  \* the inode a call holds besides the directory

NamesInit ==
    /\ node = [n \in Node |-> IF n = Root
          THEN [kind |-> "dir", nlinks |-> 2, parent |-> Root,
                entry |-> NoEntries]
          ELSE FreeNode]
    /\ pc = [t \in Task |-> "user"]
    /\ local = [t \in Task |-> NoLocals]
    /\ odd = {}

dir(t) == local[t].dir
held(t) == local[t].node
Doing(t, l, ops) == pc[t] = l /\ local[t].op \in ops
Goto(t, l) == pc' = [pc EXCEPT ![t] = l]
Note(what, if) == odd' = IF if THEN odd \cup {what} ELSE odd

Holders(n) == {u \in Task : n \in {dir(u), held(u)}}
(* i_count; the root is also current->root of every task. *)
Count(n) ==
    Cardinality({u \in Task : dir(u) = n})
    + Cardinality({u \in Task : held(u) = n})
    + IF n = Root THEN 1 ELSE 0

(* What find_entry(dir, name) can return. *)
Found(d, name) ==
    {p \in Pos : node[d].entry[p] # NONE /\ node[d].entry[p].name = name}

(* iput of the inodes in drop, after the changes that lead to nodes: those *)
(* without links and other holders are freed with their blocks.            *)
Iput(t, nodes, drop) ==
    LET gone == {n \in drop \ {NONE, Root} :
                    nodes[n].nlinks = 0 /\ Holders(n) \subseteq {t}}
    IN  node' = [n \in Node |-> IF n \in gone THEN FreeNode ELSE nodes[n]]

(* The end of a system call. *)
Return(t, nodes) ==
    /\ Iput(t, nodes, {dir(t), held(t)})
    /\ local' = [local EXCEPT ![t] = NoLocals]
    /\ Goto(t, "user")

-----------------------------------------------------------------------------
(* dir_namei: the directory of the last name *)

Creating == {"open", "mknod", "mkdir", "link"}
Removing == {"unlink", "rmdir"}

Start(t, op, name) ==
    /\ Doing(t, "user", {NONE})
    /\ local' = [local EXCEPT ![t] =
          [@ EXCEPT !.op = op, !.name = name, !.dir = Root]]
    /\ Goto(t, "walk")
    /\ UNCHANGED <<node, odd>>

(* permission: "not even root can read/write a deleted file"; who may do   *)
(* what otherwise is left open, and a call can fail at any time.           *)
Permitted(t) == pc[t] = "walk" /\ node[dir(t)].nlinks > 0

(* find_entry, iput of the directory and iget of the next one.  rmdir may  *)
(* just be looking whether that is empty.                                  *)
Walk(t, p) ==
    LET next == node[dir(t)].entry[p].node IN
    /\ Permitted(t) /\ node[dir(t)].entry[p] # NONE
    /\ node[next].kind = "dir"
    /\ Iput(t, node, {dir(t)})
    /\ local' = [local EXCEPT ![t].dir = next]
    /\ Note("enter", \E u \in Task \ {t} :
          pc[u] = "empty_dir" /\ held(u) = next)
    /\ UNCHANGED pc

(* find_entry of "..": the root has none.                                  *)
WalkUp(t) ==
    /\ Permitted(t) /\ dir(t) # Root
    /\ Iput(t, node, {dir(t)})
    /\ local' = [local EXCEPT ![t].dir = node[dir(t)].parent]
    /\ Note("enter", \E u \in Task \ {t} :
          pc[u] = "empty_dir" /\ held(u) = node[dir(t)].parent)
    /\ UNCHANGED pc

(* No permission, no such directory, no last name; or the last name exists *)
(* already, or does not exist.                                             *)
Fail(t) ==
    /\ pc[t] = "walk"
    /\ Return(t, node)
    /\ UNCHANGED odd

-----------------------------------------------------------------------------
(* open, mknod, mkdir and link make an entry *)

(* open of a name that exists: iget; the descriptor holds the inode. *)
OpenOld(t, p) ==
    /\ Doing(t, "walk", {"open"}) /\ p \in Found(dir(t), local[t].name)
    /\ Iput(t, node, {dir(t)})
    /\ local' = [local EXCEPT ![t] = [NoLocals EXCEPT !.op = "open",
                                      !.node = node[dir(t)].entry[p].node]]
    /\ Goto(t, "file")
    /\ UNCHANGED odd

Close(t) ==
    /\ pc[t] = "file"
    /\ Return(t, node)
    /\ UNCHANGED odd

(* The name is new: new_inode, with one link until the caller changes it.  *)
NewNode(t, op, n, kind, nlinks) ==
    /\ Doing(t, "walk", {op}) /\ Permitted(t)
    /\ Found(dir(t), local[t].name) = {} /\ node[n].kind = "free"
    /\ node' = [node EXCEPT ![n] = [kind |-> kind, nlinks |-> nlinks,
                                    parent |-> dir(t), entry |-> NoEntries]]
    /\ local' = [local EXCEPT ![t].node = n]
    /\ Goto(t, "add_entry")
    /\ UNCHANGED odd

OpenNew(t, n) == NewNode(t, "open", n, "file", 1)
Mknod(t, n) == NewNode(t, "mknod", n, "file", 1)

(* mkdir also takes a block, writes "." and ".." into it and counts two    *)
(* links; without a block the inode is freed again, and the call fails.    *)
Mkdir(t, n) == n \in Dirs /\ NewNode(t, "mkdir", n, "dir", 2)

(* sys_link: namei of the old name, which is no directory, then dir_namei  *)
(* of the new one.                                                         *)
LinkOld(t, p, name) ==
    /\ Doing(t, "walk", {"link"}) /\ held(t) = NONE
    /\ p \in Found(dir(t), local[t].name)
    /\ node[node[dir(t)].entry[p].node].kind = "file"
    /\ Iput(t, node, {dir(t)})
    /\ local' = [local EXCEPT ![t] =
          [@ EXCEPT !.node = node[dir(t)].entry[p].node,
                    !.dir = Root, !.name = name]]
    /\ UNCHANGED <<pc, odd>>

LinkNew(t) ==
    /\ Doing(t, "walk", {"link"}) /\ Permitted(t) /\ held(t) # NONE
    /\ Found(dir(t), local[t].name) = {}
    /\ Goto(t, "add_entry")
    /\ UNCHANGED <<node, local, odd>>

WithEntry(t, p) ==
    [node EXCEPT ![dir(t)].entry[p] =
        [name |-> local[t].name, node |-> held(t)]]

(* What each call does with the entry it has got; nodes has it filled in.  *)
FillLink(t, nodes) == node' = nodes /\ Goto(t, "linked") /\ UNCHANGED local

FillOpen(t, nodes) ==
    /\ Iput(t, nodes, {dir(t)})
    /\ local' = [local EXCEPT ![t].dir = NONE]
    /\ Goto(t, "file")

FillDir(t, nodes) == Return(t, [nodes EXCEPT ![dir(t)].nlinks = @ + 1])

(* The inode number is put into the entry.  Somebody may have added the    *)
(* same name.                                                              *)
Fill(t, p) ==
    LET nodes == WithEntry(t, p)
        op    == local[t].op
    IN
    /\ \/ op = "link"  /\ FillLink(t, nodes)
       \/ op = "open"  /\ FillOpen(t, nodes)
       \/ op = "mknod" /\ Return(t, nodes)
       \/ op = "mkdir" /\ FillDir(t, nodes)
    /\ Note("twice", Found(dir(t), local[t].name) # {})

(* Mutant: the place chosen is not looked at again after the buffer has    *)
(* been waited for (add_entry: "you may not sleep").                       *)
AddEntryStale(t, p) == pc[t] = "add_entry" /\ Fill(t, p)

(* add_entry after bread: the first free place, here any.                  *)
AddEntry(t, p) ==
    /\ pc[t] = "add_entry" /\ node[dir(t)].entry[p] = NONE
    /\ Fill(t, p)

(* open, mknod and mkdir give the links of the new inode up. *)
Unlinked(t) == [node EXCEPT ![held(t)].nlinks = 0]

(* add_entry fails: the new inode is given up again.  mkdir frees its      *)
(* block itself (namei.c:615), and since the inode is a directory by then, *)
(* iput has truncate free the same block once more.                        *)
AddFails(t) ==
    /\ pc[t] = "add_entry"
    /\ Return(t, IF local[t].op = "link" THEN node ELSE Unlinked(t))
    /\ Note("freed_twice", local[t].op = "mkdir")

(* Mutant: the link is not counted.                                        *)
LinkedForgets(t) ==
    /\ pc[t] = "linked"
    /\ Return(t, node)
    /\ UNCHANGED odd

(* brelse and iput have slept: i_nlinks++.                                 *)
Linked(t) ==
    /\ pc[t] = "linked"
    /\ Return(t, [node EXCEPT ![held(t)].nlinks = (@ + 1) % 256])
    /\ UNCHANGED odd

-----------------------------------------------------------------------------
(* unlink and rmdir *)

(* The entry is found and its inode is there. *)
FindOld(t, p) ==
    /\ Doing(t, "walk", Removing) /\ Permitted(t)
    /\ p \in Found(dir(t), local[t].name)
    /\ local' = [local EXCEPT ![t] =
          [@ EXCEPT !.pos = p, !.node = node[dir(t)].entry[p].node]]
    /\ Goto(t, "got")
    /\ UNCHANGED <<node, odd>>

Removable(t) ==
    IF local[t].op = "unlink" THEN node[held(t)].kind = "file"
    ELSE node[held(t)].kind = "dir" /\ Count(held(t)) = 1

Refuse(t) ==
    /\ pc[t] = "got" /\ ~Removable(t)
    /\ Return(t, node)
    /\ UNCHANGED odd

(* rmdir: nobody else holds the directory; empty_dir waits for its block.  *)
Rmdir(t) ==
    /\ Doing(t, "got", {"rmdir"}) /\ Removable(t)
    /\ Goto(t, "empty_dir")
    /\ UNCHANGED <<node, local, odd>>

NotEmpty(t) ==
    /\ pc[t] = "empty_dir" /\ node[held(t)].entry # NoEntries
    /\ Return(t, node)
    /\ UNCHANGED odd

(* de->inode = 0, whatever the entry is by now; brelse may sleep.  Before  *)
(* that unlink counts the one link of an inode that has none ("Deleting    *)
(* nonexistent file").                                                     *)
Clear(t) ==
    LET late  == local[t].op = "unlink" /\ node[held(t)].nlinks = 0
        stale == node[dir(t)].entry[local[t].pos]
                    # [name |-> local[t].name, node |-> held(t)]
    IN
    /\ node' = [node EXCEPT ![held(t)].nlinks = IF late THEN 1 ELSE @,
                            ![dir(t)].entry[local[t].pos] = NONE]
    /\ odd' = odd \cup (IF stale THEN {"stale"} ELSE {})
                  \cup (IF late THEN {"nonexistent"} ELSE {})
    /\ Goto(t, "cleared")
    /\ UNCHANGED local

ClearFile(t) == Doing(t, "got", {"unlink"}) /\ Removable(t) /\ Clear(t)
ClearDir(t) ==
    pc[t] = "empty_dir" /\ node[held(t)].entry = NoEntries /\ Clear(t)

(* Mutant: "." of the removed directory is not counted off its father.     *)
RemovedForgets(t) ==
    /\ pc[t] = "cleared" /\ odd' = odd
    /\ Return(t, [node EXCEPT ![held(t)].nlinks =
          IF local[t].op = "rmdir" THEN 0 ELSE @ - 1])

DirRemoved(t) == [node EXCEPT ![held(t)].nlinks = 0, ![dir(t)].nlinks = @ - 1]
FileRemoved(t) == [node EXCEPT ![held(t)].nlinks = (@ + 255) % 256]

(* The links go; i_nlinks is an unsigned char.                             *)
Removed(t) ==
    /\ pc[t] = "cleared"
    /\ Return(t, IF local[t].op = "rmdir" THEN DirRemoved(t)
                                          ELSE FileRemoved(t))
    /\ UNCHANGED odd

-----------------------------------------------------------------------------
Step(t) ==
    \/ \E op \in Creating \cup Removing, name \in Name : Start(t, op, name)
    \/ \E p \in Pos :
          Walk(t, p) \/ OpenOld(t, p) \/ AddEntry(t, p) \/ FindOld(t, p)
    \/ \E n \in Node : OpenNew(t, n) \/ Mknod(t, n) \/ Mkdir(t, n)
    \/ \E p \in Pos, name \in Name : LinkOld(t, p, name)
    \/ WalkUp(t) \/ Fail(t) \/ Close(t) \/ LinkNew(t) \/ AddFails(t)
    \/ Linked(t) \/ Refuse(t) \/ Rmdir(t) \/ NotEmpty(t)
    \/ ClearFile(t) \/ ClearDir(t) \/ Removed(t)

(* A panic ends it.  Behaviours are also followed only up to the first     *)
(* entry that is cleared for an inode it does not name any more, and up to *)
(* the first walk into a directory that rmdir is removing: both lose       *)
(* entries without their links, and counts would grow without bound.       *)
Over == odd \cap {"freed_twice", "stale", "enter"} # {}

NamesNext == ~Over /\ \E t \in Task : Step(t)

NamesSpec == NamesInit /\ [][NamesNext]_namesVars

-----------------------------------------------------------------------------
Oddities == {"enter", "twice", "freed_twice", "stale", "nonexistent"}
NamesTypeOK ==
    /\ node \in [Node -> [kind : {"free", "file", "dir"}, nlinks : Nat,
          parent : Node \cup {NONE},
          entry : [Pos -> [name : Name, node : Node] \cup {NONE}]]]
    /\ odd \subseteq Oddities
    /\ pc \in [Task -> {"user", "walk", "file", "add_entry", "linked", "got",
                        "empty_dir", "cleared"}]

Live == {n \in Node : node[n].kind # "free"}
Entries(n) ==
    {e \in Node \X Pos :
        node[e[1]].entry[e[2]] # NONE /\ node[e[1]].entry[e[2]].node = n}
(* Links that are about to be counted, or counted off. *)
Due(l, n) == Cardinality({t \in Task : pc[t] = l /\ held(t) = n /\ n # NONE})

(* An entry never leads to a freed inode, and an inode in use by an entry  *)
(* has a link, unless two calls that removed one name have collided.       *)
NamedIsKept ==
    /\ NamesTypeOK
    /\ "stale" \notin odd => \A n \in Node :
          Entries(n) # {} => n \in Live /\ node[n].nlinks + Due("linked", n) > 0

(* i_nlinks of a file is the number of its names; that of a directory is 2 *)
(* and one for the ".." of each directory in it.                           *)
Children(n) ==
    {m \in Live \ {Root} :
        node[m].kind = "dir" /\ node[m].parent = n /\ Entries(m) # {}}
LinksExact ==
    odd \subseteq {"twice"} => \A n \in Live :
        IF node[n].kind = "file"
          THEN \/ (node[n].nlinks + Due("linked", n)) % 256
                    = Cardinality(Entries(n)) + Due("cleared", n)
               \/ Due("add_entry", n) > 0
          ELSE \/ node[n].nlinks = Cardinality(Children(n)) + 2
                    + Cardinality({t \in Task : pc[t] = "cleared" /\ dir(t) = n
                                                  /\ local[t].op = "rmdir"})
               \/ node[n].nlinks = 0 /\ Entries(n) = {} /\ Children(n) = {}

(* Nothing is lost: what is not free has a name in a directory that is     *)
(* there itself, or is held by a call in progress or an open file.         *)
NoOrphan ==
    odd \subseteq {"twice"} => \A n \in Live \ {Root} :
        \/ Holders(n) # {}
        \/ \E e \in Entries(n) : e[1] \in Live /\ node[e[1]].nlinks > 0

(* No block is freed twice: bitmap.c:83, panic("bit already cleared").     *)
FreedOnce == "freed_twice" \notin odd
=============================================================================
