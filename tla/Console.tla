------------------------------ MODULE Console ------------------------------
(* The console (kernel/chr_drv/console.c): con_write takes characters one  *)
(* by one, some of which are escape sequences, and keeps a cursor, a       *)
(* scrolling region and a window on video memory.  Addresses count cells,  *)
(* of which a line has Cols.  Characters are classes; the attribute that   *)
(* csi_m sets, the bell, the answer to ESC Z (Tty has it) and the video    *)
(* controller's registers are left out.                                    *)
EXTENDS Integers, FiniteSets

CONSTANTS
    Cols, Lines,
    MemLines,       \* lines of video memory
    Cards,          \* subset of BOOLEAN: is it an EGA or VGA?
    TabStop,        \* 8
    Seven, Eight,   \* the codes of '7' and '8', 55 and 56
    NPar,           \* parameters of a sequence, 16
    Width,          \* an unsigned long holds 0 .. Width - 1
    Digits,         \* bound: the digits that arrive
    MaxFirst,       \* bound: a second digit follows one up to this
    MaxMarks        \* bound: characters in video memory that are not blank

ASSUME ConsoleAssumption ==
    /\ {Cols, Lines, MemLines, TabStop, NPar, Width} \subseteq Nat \ {0}
    /\ {Seven, Eight, MaxFirst, MaxMarks} \subseteq Nat
    /\ MemLines > Lines /\ TabStop <= Cols /\ NPar >= 2 /\ Cards \subseteq BOOLEAN
    /\ Width > 2 * (Cols + Lines) /\ Digits \subseteq 0 .. 9

VARIABLES
    ega,
    scr,        \* x, y, pos, origin, scr_end (here end) and video memory
    top, bottom,
    saved,      \* saved_x, saved_y
    state,      \* 0 to 3 in the code; 4 does not last
    npar, par

conVars == <<ega, scr, top, bottom, saved, state, npar, par>>

Blank  == 0
Mark   == 1
Addr   == 0 .. MemLines * Cols - 1
NoPar  == [i \in 0 .. NPar - 1 |-> 0]
Marks(m) == Cardinality({a \in Addr : m[a] = Mark})

(* con_init finds the cursor, and what is on the screen, as setup.s did. *)
ConInit ==
    /\ ega \in Cards
    /\ \E x \in 0 .. Cols - 1, y \in 0 .. Lines - 1, m \in [Addr -> {Blank, Mark}] :
          /\ Marks(m) <= MaxMarks
          /\ scr = [x |-> x, y |-> y, pos |-> y * Cols + x, origin |-> 0,
                    end |-> Lines * Cols, mem |-> m]
    /\ top = 0 /\ bottom = Lines
    /\ saved = <<0, 0>>
    /\ state = "text" /\ npar = 0 /\ par = NoPar

(***************************************************************************)
(* Video memory: rep movs and rep stos, in the direction that lets source  *)
(* and destination overlap.                                                *)
(***************************************************************************)
Copied(m, to, from, n) ==
    [a \in Addr |-> IF a \in to .. to + n - 1 THEN m[from + (a - to)] ELSE m[a]]

Erased(m, from, n) == [a \in Addr |-> IF a \in from .. from + n - 1 THEN Blank
                                      ELSE m[a]]

Blanked(s, from, n) == [s EXCEPT !.mem = Erased(@, from, n)]

(* gotoxy takes x = Cols; what has wrapped around is too large. *)
GotoXY(s, x, y) ==
    LET nx == x % Width
        ny == y % Width
    IN IF nx > Cols \/ ny >= Lines THEN s
       ELSE [s EXCEPT !.x = nx, !.y = ny, !.pos = s.origin + ny * Cols + nx]

(* The lines from t to b - 1 go up by one in memory. *)
RegionUp(s, t, b) ==
    LET m == Copied(s.mem, s.origin + t * Cols, s.origin + (t + 1) * Cols,
                    ((b - t) - 1) * Cols)
    IN [s EXCEPT !.mem = Erased(m, s.origin + (b - 1) * Cols, Cols)]

(* The window goes down by one, and back to the start of memory when it    *)
(* would leave it.                                                         *)
WindowDown(s) ==
    LET o   == s.origin + Cols
        end == s.end + Cols
    IN IF end > MemLines * Cols
       THEN [s EXCEPT !.mem = Erased(Copied(s.mem, 0, o, (Lines - 1) * Cols),
                                     (Lines - 1) * Cols, Cols),
                      !.end = end - o, !.pos = (s.pos + Cols) - o, !.origin = 0]
       ELSE [s EXCEPT !.mem = Erased(s.mem, end - Cols, Cols),
                      !.end = end, !.pos = s.pos + Cols, !.origin = o]

(* The mutant: an EGA moves the window whatever the region. *)
ScrUpWindow(s, t, b) == IF ega THEN WindowDown(s) ELSE RegionUp(s, t, b)

ScrUp(s, t, b) ==
    IF ega /\ t = 0 /\ b = Lines THEN WindowDown(s) ELSE RegionUp(s, t, b)

ScrDown(s, t, b) ==
    LET m == Copied(s.mem, s.origin + (t + 1) * Cols, s.origin + t * Cols,
                    ((b - t) - 1) * Cols)
    IN [s EXCEPT !.mem = Erased(m, s.origin + t * Cols, Cols)]

Lf(s) == IF s.y + 1 < bottom THEN [s EXCEPT !.y = @ + 1, !.pos = @ + Cols]
         ELSE ScrUp(s, top, bottom)

Ri(s) == IF s.y > top THEN [s EXCEPT !.y = @ - 1, !.pos = @ - Cols]
         ELSE ScrDown(s, top, bottom)

Cr(s) == [s EXCEPT !.pos = @ - s.x, !.x = 0]

Del(s) ==
    IF s.x = 0 THEN s
    ELSE [s EXCEPT !.pos = @ - 1, !.x = @ - 1, !.mem[s.pos - 1] = Blank]

(* The mutant: the address of the cursor is not taken back to its line. *)
WrapAhead(s) == Lf([s EXCEPT !.x = @ - Cols])

(* The column after the last is column 0 of the next line. *)
Wrap(s) == Lf([s EXCEPT !.x = @ - Cols, !.pos = @ - Cols])

Printed(s, v) ==
    LET w == IF s.x >= Cols THEN Wrap(s) ELSE s
    IN [w EXCEPT !.mem[w.pos] = v, !.pos = @ + 1, !.x = @ + 1]

Tabbed(s) ==
    LET n == TabStop - (s.x % TabStop)
        t == [s EXCEPT !.x = @ + n, !.pos = @ + n]
    IN IF t.x > Cols THEN Wrap(t) ELSE t

InsertChar(s) ==
    IF s.x >= Cols THEN s
    ELSE [s EXCEPT !.mem = Erased(Copied(@, s.pos + 1, s.pos, (Cols - s.x) - 1),
                                  s.pos, 1)]

DeleteChar(s) ==
    IF s.x >= Cols THEN s
    ELSE [s EXCEPT !.mem = Erased(Copied(@, s.pos, s.pos + 1, (Cols - s.x) - 1),
                                  s.pos + ((Cols - s.x) - 1), 1)]

InsertLine(s) == ScrDown(s, s.y, Lines)
DeleteLine(s) == ScrUp(s, s.y, Lines)

Times(n, Op(_), s) ==
    LET after[i \in 0 .. n] == IF i = 0 THEN s ELSE Op(after[i - 1]) IN after[n]
AtMost(n, max) == IF n > max THEN max ELSE IF n = 0 THEN 1 ELSE n
InsertChars(s, n) == Times(AtMost(n, Cols), InsertChar, s)      \* csi_at
InsertLines(s, n) == Times(AtMost(n, Lines), InsertLine, s)     \* csi_L
DeleteChars(s, n) == Times(AtMost(n, Cols), DeleteChar, s)      \* csi_P
DeleteLines(s, n) == Times(AtMost(n, Lines), DeleteLine, s)     \* csi_M

EraseDisplay(s, n) ==   \* csi_J
    CASE n = 0 -> Blanked(s, s.pos, s.end - s.pos)
      [] n = 1 -> Blanked(s, s.origin, s.pos - s.origin)
      [] n = 2 -> Blanked(s, s.origin, Cols * Lines)
      [] OTHER -> s

EraseLine(s, n) ==      \* csi_K
    CASE n = 0 /\ s.x < Cols -> Blanked(s, s.pos, Cols - s.x)
      [] n = 1 -> Blanked(s, s.pos - s.x, s.x)
      [] n = 2 -> Blanked(s, s.pos - s.x, Cols)
      [] OTHER -> s

(***************************************************************************)
(* Text, and what follows an escape character.                             *)
(***************************************************************************)
OnlyText == UNCHANGED <<ega, top, bottom, saved, npar, par>>

PrintChar ==
    /\ state = "text"
    /\ \E v \in {Blank, Mark} :
          /\ v = Mark => Marks(scr.mem) < MaxMarks
          /\ scr' = Printed(scr, v)
    /\ OnlyText /\ UNCHANGED state

Control ==      \* LF, VT and FF; CR; DEL; BS; TAB
    /\ state = "text"
    /\ scr' \in {Lf(scr), Cr(scr), Del(scr), Tabbed(scr),
                 IF scr.x > 0 THEN [scr EXCEPT !.x = @ - 1, !.pos = @ - 1]
                 ELSE scr}
    /\ OnlyText /\ UNCHANGED state

Escape == state = "text" /\ state' = "esc" /\ OnlyText /\ UNCHANGED scr

Bracket == state = "esc" /\ state' = "csi" /\ OnlyText /\ UNCHANGED scr

EscMove ==      \* ESC E, ESC M, ESC D
    /\ state = "esc" /\ state' = "text"
    /\ scr' \in {GotoXY(scr, 0, scr.y + 1), Ri(scr), Lf(scr)}
    /\ OnlyText

(* Any other character: the cursor is saved in column '7' and restored in  *)
(* column '8', since the code compares x and not c.                        *)
EscOther ==
    /\ state = "esc" /\ state' = "text"
    /\ saved' = IF scr.x = Seven THEN <<scr.x, scr.y>> ELSE saved
    /\ scr' = IF scr.x = Eight THEN GotoXY(scr, saved[1], saved[2]) ELSE scr
    /\ UNCHANGED <<ega, top, bottom, npar, par>>

(***************************************************************************)
(* ESC [ parameters command.  The first character after the bracket clears *)
(* the parameters, and is one itself unless it is a question mark.         *)
(***************************************************************************)
Npar == IF state = "csi" THEN 0 ELSE npar
Par  == IF state = "csi" THEN NoPar ELSE par
InCsi == state \in {"csi", "par"}

Question ==
    /\ state = "csi" /\ state' = "par" /\ npar' = 0 /\ par' = NoPar
    /\ UNCHANGED <<ega, scr, top, bottom, saved>>

Semicolon ==
    /\ InCsi /\ state' = "par" /\ Npar < NPar - 1
    /\ npar' = Npar + 1 /\ par' = Par
    /\ UNCHANGED <<ega, scr, top, bottom, saved>>

Digit ==
    /\ InCsi /\ state' = "par" /\ Par[Npar] <= MaxFirst
    /\ \E d \in Digits : par' = [Par EXCEPT ![Npar] = (10 * @ + d) % Width]
    /\ npar' = Npar
    /\ UNCHANGED <<ega, scr, top, bottom, saved>>

Command ==
    /\ InCsi /\ state' = "text"
    /\ npar' = 0 /\ par' = NoPar    \* cleared before they are read again
    /\ UNCHANGED ega

One(p)  == IF p > 0 THEN p ELSE 1
Less(p) == IF p > 0 THEN p - 1 ELSE 0

CursorTo ==     \* G A B C D E F d H
    /\ Command
    /\ LET x == scr.x
           y == scr.y
           p == One(Par[0])
       IN \E to \in { <<Less(Par[0]), y>>, <<x, y - p>>, <<x, y + p>>, <<x + p, y>>,
                      <<x - p, y>>, <<0, y + p>>, <<0, y - p>>,
                      <<x, Less(Par[0])>>, <<Less(Par[1]), Less(Par[0])>> } :
             scr' = GotoXY(scr, to[1], to[2])
    /\ UNCHANGED <<top, bottom, saved>>

Edit ==         \* J K L M P @, and m or what is no command
    /\ Command
    /\ LET n == Par[0]
       IN scr' \in { scr, EraseDisplay(scr, n), EraseLine(scr, n),
                     InsertChars(scr, n), InsertLines(scr, n),
                     DeleteChars(scr, n), DeleteLines(scr, n) }
    /\ UNCHANGED <<top, bottom, saved>>

SetRegion ==    \* r
    /\ Command
    /\ LET t == Less(Par[0])
           b == IF Par[1] = 0 THEN Lines ELSE Par[1]
       IN IF t < b /\ b <= Lines THEN top' = t /\ bottom' = b
          ELSE UNCHANGED <<top, bottom>>
    /\ UNCHANGED <<scr, saved>>

Cursor ==       \* s u
    /\ Command
    /\ \/ saved' = <<scr.x, scr.y>> /\ UNCHANGED scr
       \/ scr' = GotoXY(scr, saved[1], saved[2]) /\ UNCHANGED saved
    /\ UNCHANGED <<top, bottom>>

ConNext ==
    \/ PrintChar \/ Control \/ Escape \/ Bracket \/ EscMove \/ EscOther
    \/ Question \/ Semicolon \/ Digit \/ CursorTo \/ Edit \/ SetRegion \/ Cursor

ConSpec == ConInit /\ [][ConNext]_conVars

(***************************************************************************)
(* Properties.                                                             *)
(***************************************************************************)
(* The cursor's address is that of its line and column (the column after   *)
(* the last included), the window lies in video memory, and the region is  *)
(* not empty: what every handler relies on and none checks.                *)
CursorInside ==
    /\ state \in {"text", "esc", "csi", "par"} /\ npar \in 0 .. NPar - 1
    /\ scr.x \in 0 .. Cols /\ scr.y \in 0 .. Lines - 1
    /\ scr.pos = scr.origin + scr.y * Cols + scr.x
    /\ scr.origin >= 0 /\ scr.end = scr.origin + Lines * Cols
    /\ scr.end <= MemLines * Cols
    /\ 0 <= top /\ top < bottom /\ bottom <= Lines

(* The screen is a screen: however the window wanders through memory,      *)
(* what is seen changes as Screen allows, next to the cursor or in the     *)
(* region, and in no other place.                                          *)
Seen == [r \in 0 .. Lines - 1 |->
            [c \in 0 .. Cols - 1 |-> scr.mem[scr.origin + r * Cols + c]]]
Abstract == INSTANCE Screen WITH Char <- {Blank, Mark}, cell <- Seen,
                                 x <- scr.x, y <- scr.y
ImplementsScreen == Abstract!Spec

(* What a comment says of ESC 7: it saves the cursor.  Of the characters   *)
(* that reach EscOther, '7' is one.                                        *)
SavesCursor == [][EscOther => saved' = <<scr.x, scr.y>>]_conVars
=============================================================================
