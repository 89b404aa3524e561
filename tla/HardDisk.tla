------------------------------- MODULE HardDisk -------------------------------
(***************************************************************************)
(* The request list of one block device, add_request of ll_rw_blk.c with   *)
(* its elevator, and the hard disk driver that empties it, hd.c.           *)
(*                                                                         *)
(* A request moves the two sectors of a block.  The driver runs on         *)
(* interrupts: do_hd_request gives the controller a command for CURRENT,   *)
(* and the handler in do_hd deals with the answer and calls it again.  A   *)
(* bad answer is counted in CURRENT->errors and the command repeated, with *)
(* a reset of the controller first once there are many.                    *)
(***************************************************************************)
EXTENDS Naturals, FiniteSets, Sequences, SequencesExt

CONSTANTS
    Slot,       \* indices into the request table
    NULL,
    Block,      \* block numbers asked for
    NrSects,    \* hd[dev].nr_sects
    MAX_ERRORS

ASSUME DiskAssumption ==
    /\ Block \subseteq Nat /\ NrSects \in Nat
    /\ MAX_ERRORS \in Nat \ {0}
    /\ NULL \notin Slot

VARIABLES
    request,        \* the request table: NULL (dev = -1) or a record
    queue,          \* the list that current_request starts
    do_hd,          \* the handler of the next interrupt, or NULL
    reset, recalibrate,
    busy,           \* do_hd_request is running: no interrupt, no other task
    drive,          \* external: the command the controller is working at
    moved,          \* history: sectors transferred for the request of a slot
    status          \* history: how the last request of a slot ended

vars == <<request, queue, do_hd, reset, recalibrate, busy, drive, moved, status>>

READ  == 0
WRITE == 1
NoCommand == [cmd |-> "none", sector |-> 0, left |-> 0]

Current == Head(queue)
CURRENT == request[Current]

Init ==
    /\ request = [s \in Slot |-> NULL]
    /\ queue = <<>>
    /\ do_hd = NULL
    /\ reset = TRUE /\ recalibrate = TRUE
    /\ busy = FALSE
    /\ drive = NoCommand
    /\ moved = [s \in Slot |-> {}]
    /\ status = [s \in Slot |-> "none"]

-----------------------------------------------------------------------------
(* add_request *)

IN_ORDER(r, s) == r.cmd < s.cmd \/ (r.cmd = s.cmd /\ r.sector < s.sector)

(* Mutants: reads go first whatever their sector; requests in order of     *)
(* their sectors may overtake CURRENT.                                     *)
PlaceReadsFirst(q, req) == IF req.cmd = READ THEN 1 ELSE Len(q)
PlaceBeforeCurrent(q, req) == IF IN_ORDER(req, request[q[1]]) THEN 0 ELSE Len(q)

(* The number of requests in q that the new request req goes behind; it    *)
(* never goes before CURRENT.                                              *)
Place(q, req) ==
    LET Fits(i) ==
            /\ \/ IN_ORDER(request[q[i]], req)
               \/ ~IN_ORDER(request[q[i]], request[q[i + 1]])
            /\ IN_ORDER(req, request[q[i + 1]])
        places == {i \in 1..Len(q) - 1 : Fits(i)} \cup {Len(q)}
    IN  CHOOSE i \in places : \A j \in places : i <= j

(* A block has one buffer, which is locked while a request for it waits.   *)
AddRequest(s, cmd, b) ==
    LET req == [cmd |-> cmd, block |-> b, sector |-> 2 * b, nr_sectors |-> 2,
                errors |-> 0]
    IN
    /\ ~busy /\ request[s] = NULL
    /\ \A r \in Slot : request[r] # NULL => request[r].block # b
    /\ request' = [request EXCEPT ![s] = req]
    /\ moved' = [moved EXCEPT ![s] = {}]
    /\ status' = [status EXCEPT ![s] = "none"]
    /\ IF queue = <<>>
         THEN queue' = <<s>> /\ busy' = TRUE
         ELSE queue' = InsertAt(queue, Place(queue, req) + 1, s) /\ UNCHANGED busy
    /\ UNCHANGED <<do_hd, reset, recalibrate, drive>>

-----------------------------------------------------------------------------
(* end_request, bad_rw_intr *)

EndRequest(how) ==
    /\ status' = [status EXCEPT ![Current] = how]
    /\ request' = [request EXCEPT ![Current] = NULL]
    /\ queue' = Tail(queue)

(* After end_request, CURRENT->errors is the next request's; if there is   *)
(* none it is whatever the memory at address 8 holds.                      *)
bad_rw_intr ==
    LET errors == CURRENT.errors + 1
        next == Tail(queue)
    IN
    /\ UNCHANGED <<moved, recalibrate>>
    /\ IF errors >= MAX_ERRORS
         THEN /\ EndRequest("failed")
              /\ reset' \in IF next = <<>> THEN {TRUE, reset}
                            ELSE {reset \/ request[Head(next)].errors > MAX_ERRORS \div 2}
         ELSE /\ request' = [request EXCEPT ![Current].errors = errors]
              /\ reset' = (reset \/ errors > MAX_ERRORS \div 2)
              /\ UNCHANGED <<queue, status>>

-----------------------------------------------------------------------------
(* do_hd_request *)

InRange == CURRENT.sector + 2 <= NrSects

hd_out(cmd, handler) ==
    /\ do_hd' = handler
    /\ drive' = [cmd |-> cmd, sector |-> CURRENT.sector, left |-> CURRENT.nr_sectors]
    /\ busy' = FALSE

NoMoreRequests ==
    /\ busy /\ queue = <<>>
    /\ busy' = FALSE
    /\ UNCHANGED <<request, queue, do_hd, reset, recalibrate, drive, moved, status>>

OutOfRange ==
    /\ busy /\ queue # <<>> /\ ~InRange
    /\ EndRequest("failed")
    /\ UNCHANGED <<do_hd, reset, recalibrate, busy, drive, moved>>

(* reset_hd: reset_controller, which changes nothing of this, however the  *)
(* controller takes it, then the parameters of the drive.                  *)
reset_hd == hd_out("SPECIFY", "recal_intr")

Reset ==
    /\ busy /\ queue # <<>> /\ InRange /\ reset
    /\ reset' = FALSE /\ recalibrate' = TRUE
    /\ reset_hd
    /\ UNCHANGED <<request, queue, moved, status>>

Recalibrate ==
    /\ busy /\ queue # <<>> /\ InRange /\ ~reset /\ recalibrate
    /\ recalibrate' = FALSE
    /\ hd_out("RESTORE", "recal_intr")
    /\ UNCHANGED <<request, queue, reset, moved, status>>

Ready == busy /\ queue # <<>> /\ InRange /\ ~reset /\ ~recalibrate

ReadCommand ==
    /\ Ready /\ CURRENT.cmd = READ
    /\ hd_out("READ", "read_intr")
    /\ UNCHANGED <<request, queue, reset, recalibrate, moved, status>>

(* The controller takes the data of the first sector ... *)
WriteCommand ==
    /\ Ready /\ CURRENT.cmd = WRITE
    /\ hd_out("WRITE", "write_intr")
    /\ UNCHANGED <<request, queue, reset, recalibrate, moved, status>>

(* ... or does not ask for them in time: bad_rw_intr, goto repeat. *)
WriteTimeout ==
    /\ Ready /\ CURRENT.cmd = WRITE
    /\ bad_rw_intr
    /\ do_hd' = "write_intr"
    /\ UNCHANGED <<busy, drive>>

-----------------------------------------------------------------------------
(* The interrupt: do_hd is cleared and the handler called.                 *)
Interrupt(handler) == drive # NoCommand /\ do_hd = handler

(* Mutant: a good interrupt ends the request whatever is left of it. *)
AdvanceOnce ==
    /\ moved' = [moved EXCEPT ![Current] = @ \cup {drive.sector}]
    /\ UNCHANGED <<reset, recalibrate>>
    /\ EndRequest("ok")
    /\ do_hd' = NULL /\ drive' = NoCommand /\ busy' = TRUE

(* A sector is done. *)
Advance ==
    /\ moved' = [moved EXCEPT ![Current] = @ \cup {drive.sector}]
    /\ UNCHANGED <<reset, recalibrate>>
    /\ IF CURRENT.nr_sectors = 1
         THEN /\ EndRequest("ok")
              /\ do_hd' = NULL /\ drive' = NoCommand /\ busy' = TRUE
         ELSE /\ request' = [request EXCEPT ![Current].sector = @ + 1,
                    ![Current].nr_sectors = @ - 1,
                    ![Current].errors = IF CURRENT.cmd = READ THEN 0 ELSE @]
              /\ drive' = [drive EXCEPT !.sector = @ + 1, !.left = @ - 1]
              /\ UNCHANGED <<queue, do_hd, busy, status>>

Bad ==
    /\ bad_rw_intr
    /\ do_hd' = NULL /\ drive' = NoCommand /\ busy' = TRUE

read_intr == Interrupt("read_intr") /\ (Advance \/ Bad)
write_intr == Interrupt("write_intr") /\ (Advance \/ Bad)

recal_intr ==
    /\ Interrupt("recal_intr")
    /\ \/ Bad
       \/ /\ do_hd' = NULL /\ drive' = NoCommand /\ busy' = TRUE
          /\ UNCHANGED <<request, queue, reset, recalibrate, moved, status>>

do_hd_request ==
    \/ NoMoreRequests \/ OutOfRange \/ Reset \/ Recalibrate
    \/ ReadCommand \/ WriteCommand \/ WriteTimeout

Answer == read_intr \/ write_intr \/ recal_intr

Next ==
    \/ \E s \in Slot, cmd \in {READ, WRITE}, b \in Block : AddRequest(s, cmd, b)
    \/ do_hd_request
    \/ Answer

Spec == Init /\ [][Next]_vars

(* do_hd_request runs to its end, and the controller answers commands.     *)
FairSpec == Spec /\ WF_vars(do_hd_request) /\ WF_vars(Answer)

-----------------------------------------------------------------------------
Request == [cmd : {READ, WRITE}, block : Block, sector : Nat, nr_sectors : {1, 2},
            errors : 0..MAX_ERRORS - 1]

ASSUME NullAssumption == NULL \notin Request \cup {"read_intr", "write_intr", "recal_intr"}

TypeOK ==
    /\ request \in [Slot -> Request \cup {NULL}]
    /\ queue \in Seq(Slot)
    /\ do_hd \in {NULL, "read_intr", "write_intr", "recal_intr"}
    /\ reset \in BOOLEAN /\ recalibrate \in BOOLEAN /\ busy \in BOOLEAN
    /\ drive.cmd \in {"none", "READ", "WRITE", "SPECIFY", "RESTORE"}
    /\ status \in [Slot -> {"none", "ok", "failed"}]

(* Every request in use is in the list, once: none is forgotten when       *)
(* requests are inserted and ended.                                        *)
Listed ==
    /\ \A i, j \in 1..Len(queue) : queue[i] = queue[j] => i = j
    /\ {queue[i] : i \in 1..Len(queue)} = {s \in Slot : request[s] # NULL}

(* The answer the controller is going to give is for CURRENT, at the       *)
(* sector CURRENT has come to, and do_hd is the handler for it; with       *)
(* requests waiting the controller always has a command, and never one     *)
(* without.                                                                *)
HandlerFits ==
    /\ ~busy => (queue = <<>> <=> drive = NoCommand)
    /\ drive # NoCommand =>
          /\ drive.sector = CURRENT.sector /\ drive.left = CURRENT.nr_sectors
          /\ do_hd = CASE drive.cmd = "READ" -> "read_intr"
                       [] drive.cmd = "WRITE" -> "write_intr"
                       [] OTHER -> "recal_intr"
          /\ do_hd = "read_intr" => CURRENT.cmd = READ
          /\ do_hd = "write_intr" => CURRENT.cmd = WRITE

(* The list and the handler say together where the transfer is. *)
QueueInv == TypeOK /\ Listed /\ HandlerFits

(* A request that ends well has moved the two sectors of its block, across *)
(* any errors, resets and repeated commands in between.                    *)
OkMeansMoved ==
    [][\A s \in Slot : request[s] # NULL /\ status'[s] = "ok" =>
          moved'[s] = {2 * request[s].block, 2 * request[s].block + 1}]_vars

(* blk.h:36: the elevator lets no request wait for ever, whatever else     *)
(* is asked for, and errors are not repeated for ever.                     *)
EveryRequestEnds == \A s \in Slot : (request[s] # NULL) ~> (request[s] = NULL)
=============================================================================
