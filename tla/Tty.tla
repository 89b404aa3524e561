-------------------------------- MODULE Tty --------------------------------
(* A terminal (kernel/chr_drv/tty_io.c, tty_ioctl.c, rs_io.s, serial.c and *)
(* the interrupt of keyboard.S): tasks that read and write it, and the     *)
(* interrupts that bring characters and take them away.                    *)
(*                                                                         *)
(* Interrupts come between any two steps of a task; a task keeps the       *)
(* processor until it sleeps or calls schedule.  A queue is the sequence   *)
(* of its characters.  Taking a character from a queue, and putting one    *)
(* in, is two steps for a task: the cell, then the index.  A tail that     *)
(* passes its head, a head that reaches its tail, and a cell written by    *)
(* two, leave in the queue what nobody wrote: broken says that it          *)
(* happened.  What OPOST and the input flags turn a character into, and    *)
(* that some echo as two, is left out.                                     *)
EXTENDS Naturals, FiniteSets, SequencesExt

CONSTANTS
    Task,
    Reading, Writing,   \* the tasks that read, and those that write
    Group,      \* the tasks of the terminal's process group
    Kinds,      \* subset of {"console", "serial"}: whose write function it is
    Modes,      \* the termios that ioctl sets
    Cap,        \* TTY_BUF_SIZE - 1, the characters a queue can hold
    Spare,      \* 20: with less room left, half a line may be read
    Low,        \* 128: room a writer waits for
    Startup,    \* 256: characters at which rs_io.s wakes the writer
    Ahead,      \* bound: characters waiting in read_q when one arrives
    MaxNr,      \* bound: characters of one call
    Typed,      \* characters that arrive: "a" stands for all the plain ones
    Alarms,     \* may a task call with an alarm of its own?
    Races       \* what is let in, of {"erase", "echo", "full", "query", "eof"}

Mode == [canon : BOOLEAN, echo : BOOLEAN, isig : BOOLEAN, timed : BOOLEAN,
         min : Nat]

ASSUME TtyAssumption ==
    /\ Typed \subseteq {"a", "nl", "eof", "erase", "kill", "intr"}
    /\ Reading \subseteq Task /\ Writing \subseteq Task /\ Group \subseteq Task
    /\ Kinds \subseteq {"console", "serial"}
    /\ Modes \subseteq Mode
    /\ {Cap, Low, MaxNr} \subseteq Nat \ {0} /\ {Spare, Startup, Ahead} \subseteq Nat
    /\ Low <= Cap /\ Alarms \in BOOLEAN

VARIABLES
    kind, mode,
    rq, sq, wq,     \* read_q, secondary, write_q
    lines,          \* secondary.data: line ends in sq
    irq,            \* copy_to_cooked is running, in an interrupt or in respond
    thre,           \* the transmit interrupt is enabled
    broken,         \* a queue holds what nobody wrote
    pc, cpu, asleep, signal,
    alarm,          \* current->alarm: "none", "own" or that of the read
    job             \* what a call has left, has read, holds, and remembers

queues == <<rq, sq, wq, lines>>
vars   == <<kind, mode, queues, irq, thre, broken, pc, cpu, asleep, signal,
            alarm, job>>

None   == "none"
ASSUME NoneAssumption == None \notin Task

Ends   == {"nl", "eof"}
NoJob  == [left |-> 0, got |-> 0, c |-> None, n |-> 0, min |-> 0,
           timed |-> FALSE, flag |-> FALSE, old |-> None]

(* An echo on a serial line, which nobody sets at the start, may find no   *)
(* room in write_q: copy_to_cooked does not look.                          *)
Allowed(m) == "full" \in Races \/ kind = "console" \/ ~m.echo

Init ==
    /\ kind \in Kinds /\ mode \in {m \in Modes : Allowed(m)}
    /\ rq = <<>> /\ sq = <<>> /\ wq = <<>> /\ lines = 0
    /\ irq = FALSE /\ thre = FALSE /\ broken = FALSE
    /\ pc = [p \in Task |-> "user"] /\ cpu = None /\ asleep = {}
    /\ signal = [p \in Task |-> {}]
    /\ alarm \in [Task -> IF Alarms THEN {None, "own"} ELSE {None}]
    /\ job = [p \in Task |-> NoJob]

User(p)     == ~irq /\ cpu = None /\ pc[p] = "user"
At(p, at)   == ~irq /\ cpu = p /\ pc[p] = at
Goto(p, at) == pc' = [pc EXCEPT ![p] = at]
Readers     == {p \in Task : pc[p] \in {"rtest", "rget", "rinc", "rmore", "rend"}}
Writers     == {p \in Task : pc[p] # "user"} \ Readers

(* schedule gives the processor to a task that nothing keeps from running, *)
(* and makes a sleeper with a signal runnable.                             *)
Dispatch(p) ==
    /\ ~irq /\ cpu = None /\ pc[p] # "user"
    /\ p \notin asleep \/ signal[p] # {}
    /\ cpu' = p /\ asleep' = asleep \ {p}
    /\ UNCHANGED <<kind, mode, queues, irq, thre, broken, pc, signal, alarm,
                   job>>

(***************************************************************************)
(* Input.  A character is put in read_q, or thrown away if that is full,   *)
(* and copy_to_cooked runs until read_q is empty or secondary full.        *)
(***************************************************************************)
(* What an interrupt may overtake only if Races says so: an erasing one a  *)
(* reader between its test or its GETCH and the moved tail; an echo a      *)
(* writer in the middle of PUTCH, or of con_write, which counted before it *)
(* began; and any character the answer to a query.                         *)
Quiet(c) ==
    /\ \/ "erase" \in Races
       \/ (ToSet(rq) \cup {c}) \cap {"erase", "kill"} = {}
       \/ \A p \in Task : pc[p] \notin {"rget", "rinc"}
    /\ \/ "echo" \in Races \/ ~mode.echo
       \/ \A p \in Task : pc[p] \notin {"winc", "cnext", "cinc"}
    /\ \/ "query" \in Races
       \/ "query" \notin ToSet(wq) \cup {job[p].c : p \in Task}

Arrives(c) ==
    /\ ~irq /\ Quiet(c) /\ Len(rq) <= Ahead
    /\ rq' = IF Len(rq) < Cap THEN Append(rq, c) ELSE rq
    /\ irq' = TRUE
    /\ UNCHANGED <<kind, mode, sq, wq, lines, thre, broken, pc, cpu, asleep,
                   signal, alarm, job>>

Key(c)      == kind = "console" /\ Arrives(c)    \* keyboard_interrupt
ReadChar(c) == kind = "serial" /\ Arrives(c)     \* rs1_interrupt, read_char

(* PUTCH(n characters, write_q); tty->write(tty).  con_write takes all     *)
(* that is there, rs_write starts the transmitter.                         *)
Echo(n) ==
    IF ~mode.echo \/ n = 0 THEN UNCHANGED <<wq, thre, broken>>
    ELSE IF kind = "console"
    THEN /\ wq' = <<>>
         /\ broken' = (broken \/ \E p \in Task : pc[p] = "winc")
         /\ UNCHANGED thre
    ELSE /\ wq' = IF Len(wq) + n <= Cap THEN wq \o [i \in 1 .. n |-> "a"]
                  ELSE wq
         /\ thre' = TRUE
         /\ broken' = \/ broken \/ Len(wq) + n > Cap
                      \/ \E p \in Task : pc[p] = "winc"

(* The mutant: erasing does not stop at the end of the line before. *)
Tail0Lost == 0

(* The end of the line being typed. *)
Tail0 == SelectLastInSeq(sq, LAMBDA c : c \in Ends)

(* One turn of the loop of copy_to_cooked: a line is killed, a character   *)
(* is erased, a signal is sent, or the character goes to secondary.        *)
Cook ==
    /\ irq /\ rq # <<>> /\ Len(sq) < Cap
    /\ LET c == Head(rq) IN
       CASE c = "kill" /\ mode.canon ->
              /\ sq' = SubSeq(sq, 1, Tail0) /\ Echo(Len(sq) - Tail0)
              /\ UNCHANGED <<lines, signal>>
         [] c = "erase" /\ mode.canon ->
              /\ IF Len(sq) > Tail0 THEN sq' = Front(sq) /\ Echo(1)
                 ELSE UNCHANGED <<sq, wq, thre, broken>>
              /\ UNCHANGED <<lines, signal>>
         [] c = "intr" /\ mode.isig ->
              /\ signal' = [p \in Task |-> signal[p] \cup
                                      IF p \in Group THEN {"int"} ELSE {}]
              /\ UNCHANGED <<sq, wq, thre, broken, lines>>
         [] OTHER ->
              /\ sq' = Append(sq, c) /\ Echo(1)
              /\ lines' = lines + (IF c \in Ends THEN 1 ELSE 0)
              /\ UNCHANGED signal
    /\ rq' = Tail(rq)
    /\ UNCHANGED <<kind, mode, irq, pc, cpu, asleep, alarm, job>>

Cooked ==           \* wake_up(&tty->secondary.proc_list)
    /\ irq /\ (rq = <<>> \/ Len(sq) >= Cap)
    /\ irq' = FALSE
    /\ asleep' = asleep \ Readers
    /\ UNCHANGED <<kind, mode, queues, thre, broken, pc, cpu, signal, alarm,
                   job>>

(***************************************************************************)
(* tty_read.                                                               *)
(***************************************************************************)
(* Is the alarm the process has later than the one of the read?            *)
Later(old) == IF old = None THEN {TRUE} ELSE BOOLEAN

StartRead(p, n) ==
    /\ User(p) /\ signal[p] = {}
    /\ cpu' = p /\ Goto(p, "rtest")
    /\ LET only == mode.timed /\ mode.min = 0
           min  == IF only THEN 1 ELSE mode.min
       IN \E flag \in IF only THEN Later(alarm[p]) ELSE {FALSE} :
             /\ job' = [job EXCEPT ![p] =
                           [NoJob EXCEPT !.left = n, !.flag = flag,
                            !.min = IF min > n THEN n ELSE min,
                            !.timed = mode.timed, !.old = alarm[p]]]
             /\ alarm' = IF flag THEN [alarm EXCEPT ![p] = "read"] ELSE alarm
    /\ UNCHANGED <<kind, mode, queues, irq, thre, broken, asleep, signal>>

(* The mutant: the process is left with the alarm of the read. *)
FinishArmed(p) ==
    /\ cpu' = None /\ Goto(p, "user")
    /\ job' = [job EXCEPT ![p] = NoJob]
    /\ UNCHANGED alarm

Finish(p) ==
    /\ cpu' = None /\ Goto(p, "user")
    /\ job' = [job EXCEPT ![p] = NoJob]
    /\ alarm' = [alarm EXCEPT ![p] = job[p].old]

(* Half a line does not wake a canonical reader, and does not let it sleep *)
(* either: sleep_if_empty sleeps only if there is nothing at all.          *)
HalfLine == sq # <<>> /\ mode.canon /\ lines = 0 /\ Cap - Len(sq) > Spare
Spinning(p) == At(p, "rtest") /\ signal[p] = {} /\ HalfLine

ReadLeave(p) ==
    /\ At(p, "rtest") /\ signal[p] # {}
    /\ signal' = [signal EXCEPT ![p] = IF job[p].flag THEN @ \ {"alrm"} ELSE @]
    /\ Finish(p)
    /\ UNCHANGED <<kind, mode, queues, irq, thre, broken, asleep>>

ReadTest(p) ==
    /\ At(p, "rtest") /\ signal[p] = {} /\ ~HalfLine
    /\ IF sq = <<>> THEN asleep' = asleep \cup {p} /\ cpu' = None /\ UNCHANGED pc
       ELSE Goto(p, "rget") /\ UNCHANGED <<cpu, asleep>>
    /\ UNCHANGED <<kind, mode, queues, irq, thre, broken, signal, alarm, job>>

ReadGet(p) ==
    /\ At(p, "rget") /\ Goto(p, "rinc")
    /\ job' = [job EXCEPT ![p].c = IF sq = <<>> THEN None ELSE Head(sq)]
    /\ broken' = (broken \/ sq = <<>>)
    /\ UNCHANGED <<kind, mode, queues, irq, thre, cpu, asleep, signal, alarm>>

(* The tail moves and lines follows; an end of file ends a canonical read  *)
(* there and then, with the alarm of the read still set.                   *)
ReadInc(p) ==
    /\ At(p, "rinc")
    /\ LET c == job[p].c IN
       /\ sq' = IF sq = <<>> THEN sq ELSE Tail(sq)
       /\ lines' = IF c \in Ends /\ lines > 0 THEN lines - 1 ELSE lines
       /\ broken' = (broken \/ sq = <<>>)
       /\ IF c = "eof" /\ mode.canon
          THEN /\ Goto(p, "user") /\ cpu' = None
               /\ job' = [job EXCEPT ![p] = NoJob]
          ELSE /\ Goto(p, IF job[p].left = 1 THEN "rend" ELSE "rmore")
               /\ job' = [job EXCEPT ![p].left = @ - 1, ![p].got = @ + 1,
                                     ![p].c = None]
               /\ UNCHANGED cpu
    /\ UNCHANGED <<kind, mode, rq, wq, irq, thre, asleep, signal, alarm>>

ReadMore(p) ==
    /\ At(p, "rmore") /\ Goto(p, IF sq = <<>> THEN "rend" ELSE "rget")
    /\ UNCHANGED <<kind, mode, queues, irq, thre, broken, cpu, asleep, signal,
                   alarm, job>>

ReadEnd(p) ==
    /\ At(p, "rend")
    /\ \E flag \in IF job[p].timed /\ ~mode.canon THEN Later(job[p].old)
                   ELSE {job[p].flag} :
          IF \/ mode.canon \/ job[p].got >= job[p].min
          THEN Finish(p)
          ELSE /\ Goto(p, "rtest")
               /\ job' = [job EXCEPT ![p].flag = flag]
               /\ alarm' = IF ~job[p].timed THEN alarm
                           ELSE [alarm EXCEPT ![p] = IF flag THEN "read"
                                                     ELSE job[p].old]
               /\ UNCHANGED cpu
    /\ UNCHANGED <<kind, mode, queues, irq, thre, broken, asleep, signal>>

(***************************************************************************)
(* tty_write, con_write and rs_write.                                      *)
(***************************************************************************)
StartWrite(p, n) ==
    /\ User(p) /\ signal[p] = {}
    /\ cpu' = p /\ Goto(p, "wtest")
    /\ job' = [job EXCEPT ![p] = [NoJob EXCEPT !.left = n]]
    /\ UNCHANGED <<kind, mode, queues, irq, thre, broken, asleep, signal,
                   alarm>>

(* sleep_if_full, and the end of the call if there is a signal. *)
WriteTest(p) ==
    /\ At(p, "wtest") /\ Len(wq) = Cap /\ Goto(p, "wfull")
    /\ UNCHANGED <<kind, mode, queues, irq, thre, broken, cpu, asleep, signal,
                   alarm, job>>

WriteSleep(p) ==
    /\ At(p, "wfull") /\ signal[p] = {} /\ Cap - Len(wq) < Low
    /\ asleep' = asleep \cup {p} /\ cpu' = None
    /\ UNCHANGED <<kind, mode, queues, irq, thre, broken, pc, signal, alarm,
                   job>>

WriteGo(p) ==
    /\ \/ At(p, "wtest") /\ Len(wq) < Cap
       \/ At(p, "wfull") /\ (signal[p] # {} \/ Cap - Len(wq) >= Low)
    /\ IF signal[p] # {}
       THEN Goto(p, "user") /\ cpu' = None /\ job' = [job EXCEPT ![p] = NoJob]
       ELSE Goto(p, "wput") /\ UNCHANGED <<cpu, job>>
    /\ UNCHANGED <<kind, mode, queues, irq, thre, broken, asleep, signal,
                   alarm>>

WritePut(p) ==      \* the cell; "query" is the escape sequence ESC Z
    /\ At(p, "wput") /\ job[p].left > 0 /\ Len(wq) < Cap
    /\ \E c \in {"a", "query"} :
          /\ c = "query" => \/ "query" \in Races
                            \/ kind = "console" /\ job[p].left = 1 /\ rq = <<>>
          /\ job' = [job EXCEPT ![p].c = c]
    /\ Goto(p, "winc")
    /\ UNCHANGED <<kind, mode, queues, irq, thre, broken, cpu, asleep, signal,
                   alarm>>

WriteInc(p) ==      \* the head
    /\ At(p, "winc") /\ Goto(p, "wput")
    /\ wq' = IF Len(wq) < Cap THEN Append(wq, job[p].c) ELSE wq
    /\ broken' = (broken \/ Len(wq) = Cap)
    /\ job' = [job EXCEPT ![p].left = @ - 1, ![p].c = None]
    /\ UNCHANGED <<kind, mode, rq, sq, lines, irq, thre, cpu, asleep, signal,
                   alarm>>

(* tty->write: con_write counts what is there, once; rs_write starts the   *)
(* transmitter.                                                            *)
WriteOut(p) ==
    /\ At(p, "wput") /\ (job[p].left = 0 \/ Len(wq) = Cap)
    /\ Goto(p, "cnext")
    /\ IF kind = "console"
       THEN job' = [job EXCEPT ![p].n = Len(wq)] /\ UNCHANGED thre
       ELSE thre' = (thre \/ wq # <<>>) /\ UNCHANGED job
    /\ UNCHANGED <<kind, mode, queues, irq, broken, cpu, asleep, signal, alarm>>

ConGet(p) ==
    /\ At(p, "cnext") /\ job[p].n > 0 /\ Goto(p, "cinc")
    /\ job' = [job EXCEPT ![p].c = IF wq = <<>> THEN None ELSE Head(wq),
                          ![p].n = @ - 1]
    /\ broken' = (broken \/ wq = <<>>)
    /\ UNCHANGED <<kind, mode, queues, irq, thre, cpu, asleep, signal, alarm>>

(* respond answers a query through read_q and runs copy_to_cooked, whose   *)
(* echo is another con_write.                                              *)
ConInc(p) ==
    /\ At(p, "cinc") /\ Goto(p, "cnext")
    /\ wq' = IF wq = <<>> THEN wq ELSE Tail(wq)
    /\ IF job[p].c = "query"
       THEN /\ rq' = IF Len(rq) < Cap THEN Append(rq, "a") ELSE rq
            /\ irq' = TRUE
            /\ broken' = (broken \/ wq = <<>> \/ Len(rq) = Cap)
       ELSE broken' = (broken \/ wq = <<>>) /\ UNCHANGED <<rq, irq>>
    /\ job' = [job EXCEPT ![p].c = None]
    /\ UNCHANGED <<kind, mode, sq, lines, thre, cpu, asleep, signal, alarm>>

WriteNext(p) ==     \* schedule(), if there is more
    /\ At(p, "cnext") /\ job[p].n = 0 /\ cpu' = None
    /\ IF job[p].left > 0 THEN Goto(p, "wtest") /\ UNCHANGED job
       ELSE Goto(p, "user") /\ job' = [job EXCEPT ![p] = NoJob]
    /\ UNCHANGED <<kind, mode, queues, irq, thre, broken, asleep, signal,
                   alarm>>

(* The mutant: the last character that leaves does not wake the writer. *)
TransmitSilent ==
    /\ ~irq /\ thre
    /\ wq' = IF wq = <<>> THEN wq ELSE Tail(wq)
    /\ thre' = (Len(wq) > 1)
    /\ asleep' = IF Len(wq) \in 1 .. Startup THEN asleep \ Writers ELSE asleep
    /\ UNCHANGED <<kind, mode, rq, sq, lines, irq, broken, pc, cpu, signal,
                   alarm, job>>

Transmit ==         \* write_char and write_buffer_empty
    /\ ~irq /\ thre
    /\ wq' = IF wq = <<>> THEN wq ELSE Tail(wq)
    /\ thre' = (Len(wq) > 1)
    /\ asleep' = IF Len(wq) <= Startup \/ Len(wq) = 1 THEN asleep \ Writers
                 ELSE asleep
    /\ UNCHANGED <<kind, mode, rq, sq, lines, irq, broken, pc, cpu, signal,
                   alarm, job>>

(***************************************************************************)
(* ioctl, signals and time.                                                *)
(***************************************************************************)
SetTermios(p) ==    \* TCSETS, TCSETSW, and TCSETSF, which flushes read_q
    /\ User(p) /\ signal[p] = {}
    /\ mode' \in {m \in Modes : Allowed(m)} \ {mode}
    /\ "eof" \in Races \/ \A q \in Task : job[q].flag => ~mode'.canon
    /\ rq' \in {rq, <<>>}
    /\ UNCHANGED <<kind, sq, wq, lines, irq, thre, broken, pc, cpu, asleep,
                   signal, alarm, job>>

Flush(p) ==         \* TCFLSH
    /\ User(p) /\ signal[p] = {}
    /\ rq' \in {rq, <<>>} /\ wq' \in {wq, <<>>}
    /\ UNCHANGED <<kind, mode, sq, lines, irq, thre, broken, pc, cpu, asleep,
                   signal, alarm, job>>

Deliver(p) ==       \* do_signal, on the way to user mode
    /\ User(p) /\ signal[p] # {}
    /\ signal' = [signal EXCEPT ![p] = {}]
    /\ UNCHANGED <<kind, mode, queues, irq, thre, broken, pc, cpu, asleep,
                   alarm, job>>

AlarmRings(p) ==    \* schedule finds it past
    /\ ~irq /\ cpu = None /\ alarm[p] # None
    /\ signal' = [signal EXCEPT ![p] = @ \cup {"alrm"}]
    /\ alarm' = [alarm EXCEPT ![p] = None]
    /\ UNCHANGED <<kind, mode, queues, irq, thre, broken, pc, cpu, asleep, job>>

Step(p) ==
    \/ ReadLeave(p) \/ ReadTest(p) \/ ReadGet(p) \/ ReadInc(p) \/ ReadMore(p)
    \/ ReadEnd(p) \/ WriteTest(p) \/ WriteSleep(p) \/ WriteGo(p) \/ WritePut(p) \/ WriteInc(p)
    \/ WriteOut(p) \/ ConGet(p) \/ ConInc(p) \/ WriteNext(p)

Next ==
    \/ \E c \in Typed : Key(c) \/ ReadChar(c)
    \/ Cook \/ Cooked \/ Transmit
    \/ \E p \in Task :
          \/ Dispatch(p) \/ Step(p)
          \/ \E n \in 1 .. MaxNr :
                \/ p \in Reading /\ StartRead(p, n)
                \/ p \in Writing /\ StartWrite(p, n)
          \/ SetTermios(p) \/ Flush(p) \/ Deliver(p) \/ AlarmRings(p)

Spec == Init /\ [][Next]_vars

(***************************************************************************)
(* Properties.                                                             *)
(***************************************************************************)
TypeOK ==
    /\ mode \in Modes
    /\ \A q \in {rq, sq, wq} : Len(q) <= Cap
    /\ lines \in 0 .. Cap
    /\ cpu \in Task \cup {None} /\ asleep \subseteq Task
    /\ signal \in [Task -> SUBSET {"int", "alrm"}]
    /\ alarm \in [Task -> {None, "own", "read"}]

(* No queue ever holds what nobody wrote, and secondary.data is the number *)
(* of ends of line in secondary, through erasing, killing, changes of mode *)
(* and reads of part of a line; a canonical reader would otherwise spin on *)
(* a line that is there, or read before there is one.  It holds of what    *)
(* interrupts and tasks do at once as far as Quiet lets them.              *)
QueuesSound ==
    /\ TypeOK
    /\ ~broken
    /\ lines = Cardinality({i \in DOMAIN sq : sq[i] \in Ends})

(* Nobody sleeps for what has happened: a sleeping reader has nothing to   *)
(* read, and a sleeping writer a transmitter that is still going to        *)
(* interrupt, whatever another task flushes meanwhile (con_write takes     *)
(* everything at once, so that nobody sleeps for the console).             *)
SleepersServed ==
    ~irq => \A p \in asleep :
               signal[p] = {} =>
                  IF p \in Readers THEN sq = <<>> ELSE kind = "serial" /\ thre

(* The alarm that a timed read borrows is given back however the read ends *)
(* (an end of file in a canonical read with a time limit is the exception: *)
(* tty_read returns at once, and the process gets a SIGALRM later).        *)
AlarmKept == \A p \in Task : alarm[p] = "read" => p \in Readers

(* What a process may ask, and what an alarm of its own shows: it rings    *)
(* once (tty_read sets it again after it has rung).                        *)
RingsOnce ==
    [][\A p \in Task : alarm[p] = None => alarm'[p] # "own"]_vars

(* Whoever sleeps in a read has no character waiting in read_q either:     *)
(* not so once secondary has been full.                                    *)
InputServed == ~irq => \A p \in asleep \cap Readers :
                          signal[p] = {} => rq = <<>>
=============================================================================
