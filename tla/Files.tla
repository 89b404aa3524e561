------------------------------- MODULE Files -------------------------------
(* Descriptors, open files and a pipe (fs/open.c, fs/fcntl.c, fs/pipe.c,   *)
(* and what fork, execve and exit do to descriptors).                      *)
(*                                                                         *)
(* A task runs in the kernel until it sleeps: cpu names the task that is   *)
(* in the middle of a call.  Sleeping on i_wait is a set of tasks all of   *)
(* which wake_up wakes (WaitQueue implements that).  The bytes written to  *)
(* the pipe are numbered, so that what comes out can be compared with      *)
(* what went in.  The system has room for one pipe: the page of a second   *)
(* one is never to be had, which is how sys_pipe fails late.               *)
EXTENDS Naturals, FiniteSets, SequencesExt

CONSTANTS
    Task,       \* slots of the process table
    First,      \* the task that is there at the start
    NrOpen,     \* descriptors of a task
    NrFile,     \* length of file_table
    Page,       \* bytes in the page of a pipe
    MaxBytes,   \* bound: bytes written during the life of a pipe
    MaxCount,   \* bound: bytes of one call
    MaxMarked,  \* bound: descriptors marked close-on-exec, over all tasks
    Faults      \* may the copy to or from user space sleep in a page fault?

ASSUME FilesAssumption ==
    /\ First \in Task /\ IsFiniteSet(Task)
    /\ {NrOpen, NrFile, Page, MaxBytes, MaxCount, MaxMarked} \subseteq Nat \ {0}
    /\ Faults \in BOOLEAN

VARIABLES
    pc,         \* where each task is
    cpu,        \* the task in the middle of a call, or None
    fd,         \* current->filp: a file of file_table, or 0
    cloexec,    \* current->close_on_exec
    sigpipe,    \* tasks with SIGPIPE pending
    fcount,     \* f_count
    finode,     \* f_inode: it keeps its value when the file is released
    fmode,      \* f_mode, for a pipe
    icount,     \* i_count of the pipe's inode and of the one regular file
    head, tail, ring,
    asleep,     \* tasks asleep on i_wait of the pipe
    io,         \* the read or write under way: bytes left, chunk, place
    sent, received

tables == <<fd, cloexec, fcount, finode, fmode, icount>>
pipe   == <<head, tail, ring, sent, received>>
vars   == <<pc, cpu, sigpipe, asleep, io, tables, pipe>>

None  == "none"
Fd    == 0 .. NrOpen - 1
File  == 1 .. NrFile
Least(S) == CHOOSE x \in S : \A y \in S : x <= y
NoIo  == [left |-> 0, chunk |-> 0, at |-> 0, done |-> FALSE]

ASSUME NoneAssumption == None \notin Task

Size == (head + Page - tail) % Page

(* The mutant: the byte that tells a full pipe from an empty one is used. *)
RoomWhole == Page - Size

Room == (Page - 1) - Size

FreeFiles   == {f \in File : fcount[f] = 0}
FreeFds(p)  == {d \in Fd : fd[p][d] = 0}
OpenFds(p)  == {d \in Fd : fd[p][d] # 0}

Init ==
    /\ pc = [p \in Task |-> IF p = First THEN "user" ELSE "absent"]
    /\ cpu = None /\ sigpipe = {} /\ asleep = {}
    /\ fd = [p \in Task |-> [d \in Fd |-> 0]]
    /\ cloexec = [p \in Task |-> {}]
    /\ fcount = [f \in File |-> 0]
    /\ finode = [f \in File |-> None]
    /\ fmode = [f \in File |-> None]
    /\ icount = [i \in {"pipe", "regular"} |-> 0]
    /\ head = 0 /\ tail = 0 /\ ring = [b \in 0 .. Page - 1 |-> 0]
    /\ io = [p \in Task |-> NoIo]
    /\ sent = 0 /\ received = <<>>

User(p) == cpu = None /\ pc[p] = "user" /\ p \notin sigpipe

(***************************************************************************)
(* Descriptors.  What a call may close is a set of descriptors of a task;  *)
(* a file whose count falls to zero is put, and putting an inode of a pipe *)
(* wakes whoever sleeps on it.                                             *)
(***************************************************************************)
Uses(p, ds, f) == Cardinality({d \in ds : fd[p][d] = f})
Dropped(p, ds) == {f \in File : fcount[f] > 0 /\ fcount[f] = Uses(p, ds, f)}
Lost(p, ds, i) == Cardinality({f \in Dropped(p, ds) : finode[f] = i})

(* The mutant: the wake-up of iput is missing. *)
IputSilent(p, ds) ==
    /\ icount' = [i \in DOMAIN icount |-> icount[i] - Lost(p, ds, i)]
    /\ UNCHANGED asleep
    /\ IF icount["pipe"] > 0 /\ icount["pipe"] = Lost(p, ds, "pipe")
       THEN /\ head' = 0 /\ tail' = 0 /\ sent' = 0 /\ received' = <<>>
            /\ ring' = [b \in DOMAIN ring |-> 0]
       ELSE UNCHANGED pipe

(* iput of the inodes of the files in Dropped; the last one frees the page *)
(* of the pipe, and the sleepers are gone by then.                         *)
Iput(p, ds) ==
    /\ icount' = [i \in DOMAIN icount |-> icount[i] - Lost(p, ds, i)]
    /\ asleep' = IF Lost(p, ds, "pipe") > 0 THEN {} ELSE asleep
    /\ IF icount["pipe"] > 0 /\ icount["pipe"] = Lost(p, ds, "pipe")
       THEN /\ head' = 0 /\ tail' = 0 /\ sent' = 0 /\ received' = <<>>
            /\ ring' = [b \in DOMAIN ring |-> 0]
       ELSE UNCHANGED pipe

CloseFds(p, ds) ==
    /\ Iput(p, ds)
    /\ fcount' = [f \in File |-> fcount[f] - Uses(p, ds, f)]

Close(p, d) ==
    /\ User(p) /\ d \in OpenFds(p)
    /\ CloseFds(p, {d})
    /\ fd' = [fd EXCEPT ![p][d] = 0]
    /\ cloexec' = [cloexec EXCEPT ![p] = @ \ {d}]
    /\ UNCHANGED <<pc, cpu, sigpipe, io, finode, fmode>>

(* dupfd: the least descriptor from arg on. *)
Dup(p, d, arg) ==
    /\ User(p) /\ d \in OpenFds(p)
    /\ \E e \in FreeFds(p) :
          /\ e >= arg /\ \A x \in FreeFds(p) : x >= arg => e <= x
          /\ fd' = [fd EXCEPT ![p][e] = fd[p][d]]
          /\ fcount' = [fcount EXCEPT ![fd[p][d]] = @ + 1]
          /\ cloexec' = [cloexec EXCEPT ![p] = @ \ {e}]
    /\ UNCHANGED <<pc, cpu, sigpipe, asleep, io, finode, fmode, icount, pipe>>

(* dup2 closes the new descriptor first, and then may find that it was the *)
(* old one: the call fails with the descriptor closed.                     *)
Dup2(p, d, e) ==
    /\ User(p) /\ d \in OpenFds(p) /\ e \in OpenFds(p)
    /\ Iput(p, {e})
    /\ fcount' = [f \in File |-> (fcount[f] - Uses(p, {e}, f))
                                 + (IF d # e /\ f = fd[p][d] THEN 1 ELSE 0)]
    /\ fd' = [fd EXCEPT ![p][e] = IF d = e THEN 0 ELSE fd[p][d]]
    /\ cloexec' = [cloexec EXCEPT ![p] = @ \ {e}]
    /\ UNCHANGED <<pc, cpu, sigpipe, io, finode, fmode>>

SetCloexec(p, d) ==     \* F_SETFD
    /\ User(p) /\ d \in OpenFds(p)
    /\ \E ds \in {cloexec[p] \cup {d}, cloexec[p] \ {d}} :
          cloexec' = [cloexec EXCEPT ![p] = ds]
    /\ MapThenSumSet(LAMBDA q : Cardinality(cloexec'[q]), Task) <= MaxMarked
    /\ UNCHANGED <<pc, cpu, sigpipe, asleep, io, fd, fcount, finode, fmode,
                   icount, pipe>>

Exec(p) ==
    /\ User(p) /\ cloexec[p] # {}
    /\ CloseFds(p, cloexec[p] \cap OpenFds(p))
    /\ fd' = [fd EXCEPT ![p] = [d \in Fd |-> IF d \in cloexec[p]
                                             THEN 0 ELSE @[d]]]
    /\ cloexec' = [cloexec EXCEPT ![p] = {}]
    /\ UNCHANGED <<pc, cpu, sigpipe, io, finode, fmode>>

(* The mutant: the child's descriptors are not counted. *)
ForkUncounted(p, q) ==
    /\ User(p) /\ pc[q] = "absent"
    /\ pc' = [pc EXCEPT ![q] = "user"]
    /\ fd' = [fd EXCEPT ![q] = fd[p]]
    /\ cloexec' = [cloexec EXCEPT ![q] = cloexec[p]]
    /\ UNCHANGED <<cpu, sigpipe, asleep, io, fcount, finode, fmode, icount,
                   pipe>>

Fork(p, q) ==
    /\ User(p) /\ pc[q] = "absent"
    /\ pc' = [pc EXCEPT ![q] = "user"]
    /\ fd' = [fd EXCEPT ![q] = fd[p]]
    /\ cloexec' = [cloexec EXCEPT ![q] = cloexec[p]]
    /\ fcount' = [f \in File |-> fcount[f] + Uses(p, Fd, f)]
    /\ UNCHANGED <<cpu, sigpipe, asleep, io, finode, fmode, icount, pipe>>

(* do_exit, for the task's own reasons or of SIGPIPE. *)
Exit(p) ==
    /\ cpu = None /\ pc[p] = "user"
    /\ CloseFds(p, OpenFds(p))
    /\ fd' = [fd EXCEPT ![p] = [d \in Fd |-> 0]]
    /\ cloexec' = [cloexec EXCEPT ![p] = {}]
    /\ pc' = [pc EXCEPT ![p] = "absent"]
    /\ sigpipe' = sigpipe \ {p}
    /\ UNCHANGED <<cpu, io, finode, fmode>>

(* A handler of the task's own, or SIG_IGN. *)
HandleSigpipe(p) ==
    /\ cpu = None /\ pc[p] = "user" /\ p \in sigpipe
    /\ sigpipe' = sigpipe \ {p}
    /\ UNCHANGED <<pc, cpu, asleep, io, tables, pipe>>

(***************************************************************************)
(* sys_open and sys_pipe take files and descriptors, sleep, and may have   *)
(* to give them back.  Meanwhile f_inode is that of the file's last user.  *)
(***************************************************************************)
Reserve(p, n, at) ==
    /\ User(p) /\ Cardinality(FreeFds(p)) >= n /\ Cardinality(FreeFiles) >= n
    /\ LET d1 == Least(FreeFds(p))
           f1 == Least(FreeFiles)
           d2 == Least(FreeFds(p) \ {d1})
           f2 == Least(FreeFiles \ {f1})
       IN IF n = 1
          THEN /\ fd' = [fd EXCEPT ![p][d1] = f1]
               /\ fcount' = [fcount EXCEPT ![f1] = 1]
               /\ io' = [io EXCEPT ![p].chunk = d1]
          ELSE /\ fd' = [fd EXCEPT ![p][d1] = f1, ![p][d2] = f2]
               /\ fcount' = [fcount EXCEPT ![f1] = 1, ![f2] = 1]
               /\ io' = [io EXCEPT ![p].chunk = d1, ![p].at = d2]
    /\ pc' = [pc EXCEPT ![p] = at]
    /\ UNCHANGED <<cpu, sigpipe, asleep, finode, fmode, icount, pipe>>

Open(p) ==
    /\ Reserve(p, 1, "open")
    /\ cloexec' = [cloexec EXCEPT ![p] = @ \ {Least(FreeFds(p))}]

Pipe(p) == Reserve(p, 2, "pipe") /\ UNCHANGED cloexec

(* The descriptors of a call under way: one for open, two for pipe. *)
Mine(p) == CASE pc[p] = "open" -> {io[p].chunk}
             [] pc[p] = "pipe" -> {io[p].chunk, io[p].at}
             [] OTHER -> {}

GiveBack(p) ==      \* open_namei failed, or get_pipe_inode did
    /\ cpu = None /\ pc[p] \in {"open", "pipe"}
    /\ fcount' = [f \in File |-> IF Uses(p, Mine(p), f) > 0 THEN 0
                                 ELSE fcount[f]]
    /\ fd' = [fd EXCEPT ![p] = [d \in Fd |-> IF d \in Mine(p) THEN 0
                                             ELSE @[d]]]
    /\ pc' = [pc EXCEPT ![p] = "user"]
    /\ io' = [io EXCEPT ![p] = NoIo]
    /\ UNCHANGED <<cpu, cloexec, sigpipe, asleep, finode, fmode, icount, pipe>>

Opened(p) ==
    /\ cpu = None /\ pc[p] = "open"
    /\ LET f == fd[p][io[p].chunk]
       IN /\ finode' = [finode EXCEPT ![f] = "regular"]
          /\ fmode' = [fmode EXCEPT ![f] = "regular"]
          /\ fcount' = [fcount EXCEPT ![f] = 1]
    /\ icount' = [icount EXCEPT !["regular"] = @ + 1]
    /\ pc' = [pc EXCEPT ![p] = "user"]
    /\ io' = [io EXCEPT ![p] = NoIo]
    /\ UNCHANGED <<cpu, sigpipe, asleep, fd, cloexec, pipe>>

(* get_pipe_inode: a page, which there is for one pipe, counted twice for  *)
(* the reader and the writer, and empty.                                   *)
GetPipeInode ==
    /\ icount["pipe"] = 0
    /\ icount' = [icount EXCEPT !["pipe"] = 2]
    /\ head' = 0 /\ tail' = 0
    /\ UNCHANGED <<ring, sent, received>>

Piped(p) ==
    /\ cpu = None /\ pc[p] = "pipe"
    /\ GetPipeInode
    /\ LET f0 == fd[p][io[p].chunk]
           f1 == fd[p][io[p].at]
       IN /\ finode' = [finode EXCEPT ![f0] = "pipe", ![f1] = "pipe"]
          /\ fmode' = [fmode EXCEPT ![f0] = "read", ![f1] = "write"]
    /\ pc' = [pc EXCEPT ![p] = "user"]
    /\ io' = [io EXCEPT ![p] = NoIo]
    /\ UNCHANGED <<cpu, sigpipe, asleep, fd, cloexec, fcount>>

(***************************************************************************)
(* Reading and writing the pipe.                                           *)
(***************************************************************************)
Start(p, d, n, mode) ==
    /\ User(p) /\ d \in OpenFds(p)
    /\ finode[fd[p][d]] = "pipe" /\ fmode[fd[p][d]] = mode
    /\ pc' = [pc EXCEPT ![p] = mode]
    /\ cpu' = p
    /\ io' = [io EXCEPT ![p] = [NoIo EXCEPT !.left = n]]
    /\ UNCHANGED <<sigpipe, asleep, tables, pipe>>

(* A task may go on if it has the processor, or if nobody has and it is    *)
(* awake.                                                                  *)
Runs(p, at) == cpu \in {p, None} /\ p \notin asleep /\ pc[p] = at

(* The mutant: a call that ends does not wake the others. *)
ReturnSilent(p) ==
    /\ pc' = [pc EXCEPT ![p] = "user"]
    /\ cpu' = None
    /\ UNCHANGED asleep
    /\ io' = [io EXCEPT ![p] = NoIo]

Return(p) ==        \* every way out of read_pipe and write_pipe wakes
    /\ pc' = [pc EXCEPT ![p] = "user"]
    /\ cpu' = None
    /\ asleep' = {}
    /\ io' = [io EXCEPT ![p] = NoIo]

Sleep(p) ==         \* wake_up, then sleep_on(&inode->i_wait)
    /\ asleep' = {p}
    /\ cpu' = None
    /\ UNCHANGED <<pc, io>>

Done(p, mode) ==
    /\ Runs(p, mode) /\ io[p].left = 0
    /\ Return(p)
    /\ UNCHANGED <<sigpipe, tables, pipe>>

ReadWait(p) ==
    /\ Runs(p, "read") /\ io[p].left > 0 /\ Size = 0
    /\ IF icount["pipe"] # 2 THEN Return(p) ELSE Sleep(p)
    /\ UNCHANGED <<sigpipe, tables, pipe>>

WriteWait(p) ==
    /\ Runs(p, "write") /\ io[p].left > 0 /\ Room = 0
    /\ IF icount["pipe"] # 2
       THEN Return(p) /\ sigpipe' = sigpipe \cup {p}
       ELSE Sleep(p) /\ UNCHANGED sigpipe
    /\ UNCHANGED <<tables, pipe>>

(* The copy that follows may sleep if a page of the task is not there. *)
Copying(p, n, at, next) ==
    /\ io' = [io EXCEPT ![p].left = @ - n, ![p].chunk = n, ![p].at = at]
    /\ pc' = [pc EXCEPT ![p] = next]
    /\ cpu' \in IF Faults THEN {p, None} ELSE {p}

ReadChunk(p) ==     \* the tail moves before the bytes are copied
    /\ Runs(p, "read") /\ io[p].left > 0 /\ Size > 0
    /\ LET n == Least({Page - tail, io[p].left, Size})
       IN Copying(p, n, tail, "rcopy") /\ tail' = (tail + n) % Page
    /\ UNCHANGED <<sigpipe, asleep, tables, head, ring, sent, received>>

WriteChunk(p) ==
    /\ Runs(p, "write") /\ io[p].left > 0 /\ Room > 0
    /\ LET n == Least({Page - head, io[p].left, Room})
       IN Copying(p, n, head, "wcopy") /\ head' = (head + n) % Page
    /\ UNCHANGED <<sigpipe, asleep, tables, tail, ring, sent, received>>

Copied(p, next) ==
    /\ cpu' = p
    /\ pc' = [pc EXCEPT ![p] = next]
    /\ io' = [io EXCEPT ![p].chunk = 0, ![p].at = 0]
    /\ UNCHANGED <<sigpipe, asleep, tables>>

ReadCopy(p) ==
    /\ Runs(p, "rcopy")
    /\ received' = received
                     \o [i \in 1 .. io[p].chunk |-> ring[io[p].at + i - 1]]
    /\ Copied(p, "read")
    /\ UNCHANGED <<head, tail, ring, sent>>

WriteCopy(p) ==
    /\ Runs(p, "wcopy")
    /\ ring' = [b \in DOMAIN ring |->
                   IF b \in io[p].at .. io[p].at + io[p].chunk - 1
                   THEN sent + (b - io[p].at) + 1 ELSE ring[b]]
    /\ sent' = sent + io[p].chunk
    /\ Copied(p, "write")
    /\ UNCHANGED <<head, tail, received>>

Kernel(p) ==        \* what a task does once it is in a call on the pipe
    \/ ReadWait(p) \/ ReadChunk(p) \/ ReadCopy(p)
    \/ WriteWait(p) \/ WriteChunk(p) \/ WriteCopy(p)
    \/ \E mode \in {"read", "write"} : Done(p, mode)

(* Bound: MaxBytes through one pipe, those of the calls under way included. *)
Promised == LET w == {p \in Task : pc[p] \in {"write", "wcopy"}}
            IN MaxCount * Cardinality(w)

Next ==
    \E p \in Task :
       \/ Kernel(p)
       \/ \E d \in Fd :
             \/ Close(p, d) \/ SetCloexec(p, d)
             \/ \E e \in Fd : Dup(p, d, e) \/ Dup2(p, d, e)
             \/ \E n \in 1 .. MaxCount :
                   \/ Start(p, d, n, "read")
                   \/ sent + Promised + n <= MaxBytes /\ Start(p, d, n, "write")
       \/ Exec(p) \/ Exit(p) \/ HandleSigpipe(p)
       \/ \E q \in Task : Fork(p, q)
       \/ Open(p) \/ Pipe(p) \/ GiveBack(p) \/ Opened(p) \/ Piped(p)

Spec == Init /\ [][Next]_vars

(***************************************************************************)
(* Properties.                                                             *)
(***************************************************************************)
TypeOK ==
    /\ pc \in [Task -> {"absent", "user", "open", "pipe", "read", "rcopy",
                        "write", "wcopy"}]
    /\ cpu \in Task \cup {None}
    /\ sigpipe \subseteq Task /\ asleep \subseteq Task
    /\ fd \in [Task -> [Fd -> File \cup {0}]]
    /\ cloexec \in [Task -> SUBSET Fd]
    /\ fcount \in [File -> Nat]
    /\ {head, tail} \subseteq 0 .. Page - 1

InCall(f) == \E p \in Task : Uses(p, Mine(p), f) > 0

(* f_count is the number of descriptors that name the file, over all tasks *)
(* (so sys_close never meets a count of zero, and a file in use is never   *)
(* given to somebody else), and i_count is the number of files in use that *)
(* name the inode: through dup, dup2, fork, exit, close on exec, and open  *)
(* and pipe calls that sleep half-way and give back what they took.        *)
FileCounts ==
    /\ TypeOK
    /\ \A f \in File :
          fcount[f] = Cardinality({u \in Task \X Fd : fd[u[1]][u[2]] = f})
    /\ \A i \in DOMAIN icount :
          icount[i] = Cardinality({f \in File : /\ fcount[f] > 0
                                                /\ ~InCall(f)
                                                /\ finode[f] = i})

(* Nobody sleeps on a pipe in vain: whenever no task is in the middle of a *)
(* call, a sleeping reader has nothing to read and a sleeping writer no    *)
(* room, and the other end is still open.  read_pipe and write_pipe wake   *)
(* only when the pipe is empty or full and when they end, not at every     *)
(* byte, and share one queue for readers and writers.                      *)
SleepIsNeeded ==
    cpu = None =>
       \A p \in asleep : /\ icount["pipe"] = 2
                          /\ IF pc[p] = "read" THEN Size = 0 ELSE Room = 0

(* What is in the ring: the bytes being copied out have left it only in    *)
(* name, and those being copied in are not there yet.                      *)
Being(c) == MapThenSumSet(LAMBDA p : io[p].chunk, {p \in Task : pc[p] = c})
Contents ==
    LET from == tail + Page - Being("rcopy")
        n    == (Size + Being("rcopy")) - Being("wcopy")
    IN [i \in 1 .. n |-> ring[(from + i - 1) % Page]]

(* The pipe is a queue: what read_pipe delivers is what write_pipe was     *)
(* given, in that order, each byte once, whoever of several readers and    *)
(* writers comes in between and however the ring wraps around.             *)
Abstract == INSTANCE Fifo WITH Capacity <- Page - 1, queue <- Contents
ImplementsFifo == Abstract!Spec
=============================================================================
