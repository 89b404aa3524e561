------------------------------- MODULE Memory -------------------------------
(***************************************************************************)
(* The pages of the processes: mm/memory.c with its callers in fork, exit, *)
(* execve and the system calls that write to user memory.                  *)
(*                                                                         *)
(* Every frame of memory above 1 Mb has a counter in mem_map.  fork and    *)
(* demand loading share frames, write protected, and a write to a shared   *)
(* frame copies it.  The kernel is not preemptive: an action lasts until   *)
(* the kernel can sleep or returns to the user.                            *)
(* The pages of the kernel that the first process shares are left out.     *)
(***************************************************************************)
EXTENDS Naturals, FiniteSets

CONSTANTS
    Task,       \* slots of the array task[], without task 0
    Frame,      \* page frames that mem_map describes
    Page,       \* pages of the address space of a process
    FilePage,   \* those below end_data, which come from the executable
    PerTable,   \* pages that one page table describes
    Program,    \* files that can be executed
    NULL

ASSUME MemoryAssumption ==
    /\ Task \subseteq Nat /\ Task # {} /\ Page \subseteq Nat
    /\ IsFiniteSet(Task) /\ IsFiniteSet(Frame) /\ IsFiniteSet(Page)
    /\ FilePage \subseteq Page /\ Page \ FilePage # {}
    /\ PerTable \in Nat \ {0}
    /\ NULL \notin Frame \cup Program \cup Page

(* An entry of a page table, and what do_no_page has while it sleeps. *)
PTE  == [frame : Frame, w : BOOLEAN, dirty : BOOLEAN]
Load == [page : Page, frame : Frame]

ASSUME NullAssumption == NULL \notin PTE \cup Load

Dir == {p \div PerTable : p \in Page}
DirOf(p) == p \div PerTable

VARIABLES
    mem_map,    \* the counters of the frames
    content,    \* what the frames hold
    task,       \* the frame of the task_struct and kernel stack, or NULL
    dir,        \* the page directory: frames of the page tables, or NULL
    pte,        \* the page tables: NULL or [frame, w, dirty]
    executable, \* current->executable
    pc,
    call,       \* the page a system call has verified and will write to
    args,       \* page[] of do_execve, one frame or NULL
    loading,    \* do_no_page while bread_page sleeps: [page, frame]
    lost        \* history: frames that were forgotten when memory ran out

vars == <<mem_map, content, task, dir, pte, executable, pc, call, args,
          loading, lost>>

(* Contents: of a page of a program, zeros, or what a process wrote; two   *)
(* writes in a row by one process are told apart.                          *)
File(e, p) == <<"file", e, p>>
Zero == <<"zero", NULL, 0>>
Content ==
    {File(e, p) : e \in Program, p \in Page} \cup {Zero}
        \cup {<<"data", t, k>> : t \in Task, k \in {0, 1}}
Written(t, old) == <<"data", t, IF old = <<"data", t, 0>> THEN 1 ELSE 0>>

NoTables == [d \in Dir |-> NULL]
NoPages == [p \in Page |-> NULL]
ArgPage == CHOOSE p \in Page \ FilePage : \A q \in Page \ FilePage : q <= p

Present(t, p) == pte[t][p] # NULL
FrameOf(t, p) == pte[t][p].frame

(* get_free_page takes a free frame (the last one; here any) and sets its  *)
(* counter to 1.                                                           *)
FreeIn(map) == {f \in Frame : map[f] = 0}
Free == FreeIn(mem_map)
Get(map, f) == [map EXCEPT ![f] = 1]

(* get_free_page clears a page; as nobody reads a free page, it is cleared *)
(* here when it is freed.                                                  *)
ClearFreed == content' = [f \in Frame |-> IF mem_map'[f] = 0 THEN Zero ELSE content[f]]
FreePage(map, f) == [map EXCEPT ![f] = @ - 1]

Init ==
    LET first == CHOOSE t \in Task : \A u \in Task : t <= u
    IN \E stack \in Frame :
    /\ mem_map = [f \in Frame |-> IF f = stack THEN 1 ELSE 0]
    /\ content = [f \in Frame |-> Zero]
    /\ task = [t \in Task |-> IF t = first THEN stack ELSE NULL]
    /\ dir = [t \in Task |-> NoTables]
    /\ pte = [t \in Task |-> NoPages]
    /\ executable = [t \in Task |-> NULL]
    /\ pc = [t \in Task |-> IF t = first THEN "user" ELSE "none"]
    /\ call = [t \in Task |-> NULL]
    /\ args = [t \in Task |-> NULL]
    /\ loading = [t \in Task |-> NULL]
    /\ lost = {}

(* t is not asleep in bread_page. *)
Runs(t) == loading[t] = NULL
At(t, l) == pc[t] = l /\ Runs(t)

-----------------------------------------------------------------------------
(* free_page_tables and do_exit *)

References(t, f) ==
    Cardinality({p \in Page : Present(t, p) /\ FrameOf(t, p) = f})
      + Cardinality({d \in Dir : dir[t][d] = f})

FreePageTables(map, t) == [f \in Frame |-> map[f] - References(t, f)]

(* do_exit up to the point where it can sleep.  What the functions it was  *)
(* called from hold in local variables is forgotten.                       *)
DoExit(t, map, held) ==
    /\ mem_map' = FreePageTables(map, t)
    /\ dir' = [dir EXCEPT ![t] = NoTables]
    /\ pte' = [pte EXCEPT ![t] = NoPages]
    /\ pc' = [pc EXCEPT ![t] = "exiting"]
    /\ call' = [call EXCEPT ![t] = NULL]
    /\ args' = [args EXCEPT ![t] = NULL]
    /\ loading' = [loading EXCEPT ![t] = NULL]
    /\ lost' = lost \cup (held \ {NULL})
    /\ ClearFreed
    /\ UNCHANGED <<task, executable>>

(* oom() *)
Oom(t, map) == DoExit(t, map, {args[t]})

Exit(t) == At(t, "user") /\ DoExit(t, mem_map, {})

(* Files and the executable are closed; a zombie is left. *)
ExitDone(t) ==
    /\ At(t, "exiting")
    /\ executable' = [executable EXCEPT ![t] = NULL]
    /\ pc' = [pc EXCEPT ![t] = "zombie"]
    /\ UNCHANGED <<mem_map, content, task, dir, pte, call, args, loading, lost>>

(* waitpid of the father: release(). *)
Release(t) ==
    /\ At(t, "zombie")
    /\ mem_map' = FreePage(mem_map, task[t])
    /\ task' = [task EXCEPT ![t] = NULL]
    /\ pc' = [pc EXCEPT ![t] = "none"]
    /\ UNCHANGED <<content, dir, pte, executable, call, args, loading, lost>>

-----------------------------------------------------------------------------
(* put_page: enter frame f, for which map counts, in the page tables.      *)

(* There is a page table for p, or a frame for one. *)
CanPut(t, p, map) == dir[t][DirOf(p)] # NULL \/ FreeIn(map) # {}

TakeTable(t, p, map) ==
    IF dir[t][DirOf(p)] # NULL
      THEN mem_map' = map /\ UNCHANGED dir
      ELSE \E g \in FreeIn(map) :
            /\ mem_map' = Get(map, g)
            /\ dir' = [dir EXCEPT ![t][DirOf(p)] = g]

PutPage(t, p, entry, map) ==
    TakeTable(t, p, map) /\ pte' = [pte EXCEPT ![t][p] = entry]

Entry(f) == [frame |-> f, w |-> TRUE, dirty |-> FALSE]   \* page | 7

(* The page fault of t at p, in user mode or in get_fs and put_fs.  Before *)
(* its first execve a process has pages of the kernel below end_data.      *)
Faults(t, p) ==
    /\ Runs(t) /\ pc[t] \in {"user", "exec", "syscall"}
    /\ pc[t] = "syscall" => call[t] = p
    /\ ~Present(t, p)
    /\ p \in FilePage => executable[t] # NULL

OnDemand(p) == p \in FilePage

(* do_no_page: get_empty_page, which gives the page back if put_page fails.*)
EmptyPage(t, p) ==
    /\ Faults(t, p) /\ ~OnDemand(p)
    /\ \E f \in Free :
          IF CanPut(t, p, Get(mem_map, f))
            THEN /\ PutPage(t, p, Entry(f), Get(mem_map, f))
                 /\ UNCHANGED <<content, task, executable, pc, call, args,
                                loading, lost>>
            ELSE Oom(t, mem_map)

(* share_page: the last other process with the same executable and a clean *)
(* page there.  If there is one, i_count of the executable is at least 2.  *)
Clean(u, p) == Present(u, p) /\ ~pte[u][p].dirty
Sharers(t, p) ==
    {u \in Task \ {t} : executable[u] = executable[t] /\ Clean(u, p)}
LastSharer(t, p, u) == u \in Sharers(t, p) /\ \A v \in Sharers(t, p) : v <= u

(* do_no_page finds no free page for a page of zeros or of the file. *)
NoFreePage(t, p) ==
    /\ Faults(t, p) /\ Free = {}
    /\ OnDemand(p) => Sharers(t, p) = {}
    /\ Oom(t, mem_map)

(* try_to_share: both get the page write protected. *)
TryToShare(t, p, u) ==
    LET f == FrameOf(u, p)
        entry == [pte[u][p] EXCEPT !.w = FALSE]
    IN
    /\ Faults(t, p) /\ OnDemand(p) /\ LastSharer(t, p, u)
    /\ IF CanPut(t, p, mem_map)
         THEN /\ TakeTable(t, p, [mem_map EXCEPT ![f] = @ + 1])
              /\ pte' = [pte EXCEPT ![u][p] = entry, ![t][p] = entry]
              /\ UNCHANGED <<content, task, executable, pc, call, args,
                             loading, lost>>
         ELSE Oom(t, mem_map)

(* do_no_page takes a page and bread_page sleeps.  A block that cannot be  *)
(* read is not modelled.                                                   *)
StartLoad(t, p) ==
    /\ Faults(t, p) /\ OnDemand(p) /\ Sharers(t, p) = {}
    /\ \E f \in Free :
        /\ mem_map' = Get(mem_map, f)
        /\ loading' = [loading EXCEPT ![t] = [page |-> p, frame |-> f]]
    /\ UNCHANGED <<content, task, dir, pte, executable, pc, call, args, lost>>

FinishLoad(t) ==
    LET p == loading[t].page
        f == loading[t].frame
        c == File(executable[t], p)
    IN
    /\ loading[t] # NULL
    /\ IF CanPut(t, p, mem_map)
         THEN /\ PutPage(t, p, Entry(f), mem_map)
              /\ content' = [content EXCEPT ![f] = c]
              /\ loading' = [loading EXCEPT ![t] = NULL]
              /\ UNCHANGED <<task, executable, pc, call, args, lost>>
         ELSE Oom(t, FreePage(mem_map, f))

-----------------------------------------------------------------------------
(* Writes *)

Write(t, p) ==
    LET c == Written(t, content[FrameOf(t, p)]) IN
    /\ content' = [content EXCEPT ![FrameOf(t, p)] = c]
    /\ pte' = [pte EXCEPT ![t][p].dirty = TRUE]

UserWrite(t, p) ==
    /\ At(t, "user") /\ Present(t, p) /\ pte[t][p].w
    /\ Write(t, p)
    /\ UNCHANGED <<mem_map, task, dir, executable, pc, call, args, loading, lost>>

WriteProtected(t, p) == Present(t, p) /\ ~pte[t][p].w

(* Mutant: un_wp_page does not look at mem_map. *)
UnWpInPlace(t, p) ==
    /\ pte' = [pte EXCEPT ![t][p].w = TRUE]
    /\ UNCHANGED <<mem_map, content, task, dir, executable, args, loading, lost>>

(* un_wp_page: make the frame writable if nobody else has it, or copy it.  *)
UnWpPage(t, p) ==
    LET f == FrameOf(t, p) IN
    IF mem_map[f] = 1
      THEN /\ pte' = [pte EXCEPT ![t][p].w = TRUE]
           /\ UNCHANGED <<mem_map, content, task, dir, executable, args,
                          loading, lost>>
      ELSE \E g \in Free :
            /\ mem_map' = FreePage(Get(mem_map, g), f)
            /\ content' = [content EXCEPT ![g] = content[f]]
            /\ pte' = [pte EXCEPT ![t][p] = Entry(g)]
            /\ UNCHANGED <<task, dir, executable, args, loading, lost>>
UnWpFails(t, p) == mem_map[FrameOf(t, p)] # 1 /\ Free = {}

(* do_wp_page; the write is repeated when the process runs again. *)
WpPage(t, p) ==
    /\ At(t, "user") /\ WriteProtected(t, p)
    /\ IF UnWpFails(t, p) THEN Oom(t, mem_map)
       ELSE UnWpPage(t, p) /\ UNCHANGED <<pc, call>>

(* A system call with a pointer to p: verify_area. *)
VerifyArea(t, p) ==
    /\ At(t, "user")
    /\ IF WriteProtected(t, p) /\ UnWpFails(t, p) THEN Oom(t, mem_map)
       ELSE /\ pc' = [pc EXCEPT ![t] = "syscall"]
            /\ call' = [call EXCEPT ![t] = p]
            /\ IF WriteProtected(t, p) THEN UnWpPage(t, p)
               ELSE UNCHANGED <<mem_map, content, task, dir, pte, executable,
                                args, loading, lost>>

(* put_fs: the processor ignores write protection in kernel mode. *)
PutFs(t) ==
    /\ At(t, "syscall") /\ Present(t, call[t])
    /\ Write(t, call[t])
    /\ pc' = [pc EXCEPT ![t] = "user"]
    /\ call' = [call EXCEPT ![t] = NULL]
    /\ UNCHANGED <<mem_map, task, dir, executable, args, loading, lost>>

-----------------------------------------------------------------------------
(* fork *)

Tables(t) == {d \in Dir : dir[t][d] # NULL}

(* Mutant: copy_page_tables leaves the pages of the father writable. *)
ProtectChildOnly(t, done) == pte[t]

(* The entries of t after copy_page_tables has copied the tables in done. *)
Protected(t, done) ==
    [p \in Page |-> IF Present(t, p) /\ DirOf(p) \in done
                      THEN [pte[t][p] EXCEPT !.w = FALSE] ELSE pte[t][p]]

(* The slot find_empty_process returns. *)
EmptySlot(u) ==
    task[u] = NULL /\ \A v \in Task : task[v] = NULL => u <= v

(* copy_mem with enough memory: page tables in the frames of new, which    *)
(* share the pages that are there, writable by neither.                    *)
CopyMem(t, u, new) ==
    /\ dir' = [dir EXCEPT ![u] = [d \in Dir |-> IF d \in Tables(t) THEN new[d] ELSE NULL]]
    /\ pte' = [pte EXCEPT ![t] = Protected(t, Dir),
                          ![u] = [p \in Page |->
                                    IF Present(t, p) THEN [pte[t][p] EXCEPT !.w = FALSE]
                                    ELSE NULL]]

(* copy_process with enough memory: the new task_struct takes the frame s. *)
Fork(t, u, s, new) ==
    /\ At(t, "user") /\ EmptySlot(u)
    /\ \A d, e \in Tables(t) : new[d] # s /\ (new[d] = new[e] => d = e)
    /\ mem_map' = [f \in Frame |->
          IF f = s \/ f \in {new[d] : d \in Tables(t)} THEN 1
          ELSE mem_map[f]
                 + Cardinality({p \in Page : Present(t, p) /\ FrameOf(t, p) = f})]
    /\ task' = [task EXCEPT ![u] = s]
    /\ CopyMem(t, u, new)
    /\ executable' = [executable EXCEPT ![u] = executable[t]]
    /\ pc' = [pc EXCEPT ![u] = "user"]
    /\ UNCHANGED <<content, call, args, loading, lost>>

(* Memory runs out in copy_page_tables: free_page_tables and free_page     *)
(* undo it, but the pages of the tables copied so far stay protected.      *)
ForkFails(t, done) ==
    /\ At(t, "user") /\ \E u \in Task : EmptySlot(u)
    /\ Cardinality(Free) \in 1..Cardinality(Tables(t))
    /\ Cardinality(done) = Cardinality(Free) - 1
    /\ \A d \in done, e \in Tables(t) \ done : d < e
    /\ pte' = [pte EXCEPT ![t] = Protected(t, done)]
    /\ UNCHANGED <<mem_map, content, task, dir, executable, pc, call, args,
                   loading, lost>>

-----------------------------------------------------------------------------
(* do_execve *)

(* copy_strings takes a page; it then reads from user memory. *)
ExecStart(t) ==
    /\ At(t, "user")
    /\ \E f \in Free :
        /\ mem_map' = Get(mem_map, f)
        /\ args' = [args EXCEPT ![t] = f]
    /\ pc' = [pc EXCEPT ![t] = "exec"]
    /\ UNCHANGED <<content, task, dir, pte, executable, call, loading, lost>>

(* exec_error: the page is given back. *)
ExecError(t) ==
    /\ At(t, "exec")
    /\ mem_map' = FreePage(mem_map, args[t])
    /\ args' = [args EXCEPT ![t] = NULL]
    /\ pc' = [pc EXCEPT ![t] = "user"]
    /\ UNCHANGED <<content, task, dir, pte, executable, call, loading, lost>>

(* The point of no return; iput and sys_close can sleep after it. *)
ExecCommit(t, e) ==
    /\ At(t, "exec")
    /\ executable' = [executable EXCEPT ![t] = e]
    /\ pc' = [pc EXCEPT ![t] = "execclose"]
    /\ UNCHANGED <<mem_map, content, task, dir, pte, call, args, loading, lost>>

(* free_page_tables, and change_ldt puts the page with the arguments, in   *)
(* which create_tables writes.  If put_page fails the page is lost, and so *)
(* is the process: create_tables meets a page fault without memory.        *)
ExecDone(t) ==
    LET map == FreePageTables(mem_map, t)
        c == Written(t, Zero)
    IN
    /\ At(t, "execclose")
    /\ IF FreeIn(map) = {} THEN Oom(t, mem_map)
       ELSE \E g \in FreeIn(map) :
            /\ mem_map' = Get(map, g)
            /\ dir' = [dir EXCEPT ![t] = [NoTables EXCEPT ![DirOf(ArgPage)] = g]]
            /\ pte' = [pte EXCEPT ![t] = [NoPages EXCEPT ![ArgPage] =
                                            [Entry(args[t]) EXCEPT !.dirty = TRUE]]]
            /\ content' = [f \in Frame |-> IF f = args[t] THEN c
                                           ELSE IF map[f] = 0 THEN Zero ELSE content[f]]
            /\ args' = [args EXCEPT ![t] = NULL]
            /\ pc' = [pc EXCEPT ![t] = "user"]
            /\ UNCHANGED <<task, executable, call, loading, lost>>

-----------------------------------------------------------------------------
NoPage(t, p) ==
    \/ EmptyPage(t, p) \/ NoFreePage(t, p)
    \/ (\E u \in Task : TryToShare(t, p, u))
    \/ StartLoad(t, p)

DoFork(t) ==
    \/ \E u \in Task, s \in Free, new \in [Tables(t) -> Free] : Fork(t, u, s, new)
    \/ \E done \in SUBSET Tables(t) : ForkFails(t, done)

DoExecve(t) ==
    ExecStart(t) \/ ExecError(t) \/ (\E e \in Program : ExecCommit(t, e)) \/ ExecDone(t)

Next ==
    \E t \in Task :
        \/ Exit(t) \/ ExitDone(t) \/ Release(t)
        \/ \E p \in Page : NoPage(t, p) \/ UserWrite(t, p) \/ WpPage(t, p)
                            \/ VerifyArea(t, p)
        \/ FinishLoad(t) \/ PutFs(t) \/ DoFork(t) \/ DoExecve(t)

Spec == Init /\ [][Next]_vars

-----------------------------------------------------------------------------
(* Types; a page table entry exists only in a page table (memory.c). *)
TypeOK ==
    /\ mem_map \in [Frame -> Nat]
    /\ content \in [Frame -> Content]
    /\ task \in [Task -> Frame \cup {NULL}]
    /\ dir \in [Task -> [Dir -> Frame \cup {NULL}]]
    /\ pte \in [Task -> [Page -> PTE \cup {NULL}]]
    /\ executable \in [Task -> Program \cup {NULL}]
    /\ pc \in [Task -> {"none", "user", "syscall", "exec", "execclose",
                        "exiting", "zombie"}]
    /\ call \in [Task -> Page \cup {NULL}]
    /\ args \in [Task -> Frame \cup {NULL}]
    /\ loading \in [Task -> Load \cup {NULL}]
    /\ lost \subseteq Frame
    /\ \A t \in Task, p \in Page : Present(t, p) => dir[t][DirOf(p)] # NULL

(* What refers to the frame f. *)
Owners(f) ==
    Cardinality({t \in Task : task[t] = f})
      + Cardinality({x \in Task \X Dir : dir[x[1]][x[2]] = f})
      + Cardinality({t \in Task : args[t] = f})
      + Cardinality({t \in Task : loading[t] # NULL /\ loading[t].frame = f})
      + (IF f \in lost THEN 1 ELSE 0)
Mappings(f) == {x \in Task \X Page : Present(x[1], x[2]) /\ FrameOf(x[1], x[2]) = f}

(* memory.c:62: mem_map counts the references to every frame, whatever     *)
(* fork, exec and exit did and wherever memory ran out: none is freed      *)
(* while in use or twice, and none is lost except where `lost' says so.    *)
(* What a process leaves behind (exit.c:120) does not stop the next fork:  *)
(* "copy_page_tables: already exist" is never reached.                     *)
CountsMatch ==
    /\ \A f \in Frame : mem_map[f] = Owners(f) + Cardinality(Mappings(f))
    /\ \A t \in Task : pc[t] \in {"none", "zombie", "exiting"} => Tables(t) = {}

(* A frame that one process can write to is in no other page and is not    *)
(* the stack or a page table of anybody (memory.c:205, 401).               *)
Exclusive ==
    \A t \in Task, p \in Page :
        Present(t, p) /\ pte[t][p].w =>
            Owners(FrameOf(t, p)) = 0 /\ Mappings(FrameOf(t, p)) = {<<t, p>>}

(* Counters and page tables agree on who has which frame. *)
MemoryInv == TypeOK /\ CountsMatch /\ Exclusive

(* The page p of t is replaced, or its contents change, in a step that is  *)
(* not a write of t to p.                                                  *)
Changed(t, p) ==
    Present(t, p) /\ pte'[t][p] # NULL
        /\ content'[pte'[t][p].frame] # content[FrameOf(t, p)]
OwnWrite(t, p) == UserWrite(t, p) \/ (PutFs(t) /\ call[t] = p) \/ ExecDone(t)

(* head.s:38-39 and memory.c:289-291: what a process has in its pages is   *)
(* changed by nobody else.                                                 *)
Isolation ==
    [][\A t \in Task, p \in Page : Changed(t, p) => OwnWrite(t, p)]_vars

(* The same, except for a system call that writes through an entry that is *)
(* write protected: verify_area saw another page there, or none.           *)
IsolationFromUsers ==
    [][\A t \in Task, p \in Page : Changed(t, p) =>
          OwnWrite(t, p) \/ \E u \in Task : PutFs(u) /\ ~pte[u][call[u]].w]_vars
=============================================================================
