------------------------------- MODULE Screen -------------------------------
(* What the console promises of the screen, whatever it does with video    *)
(* memory: a character that it is given writes one cell and may scroll the *)
(* region by a line first, or scrolls the region or the lines from the     *)
(* cursor's on, shifts the end of the cursor's line, or blanks the cells   *)
(* between two places next to the cursor.                                  *)
EXTENDS Integers

CONSTANTS Cols, Lines, Char, Blank

VARIABLES
    cell,           \* what is seen at each line and column
    x, y,           \* the cursor; x = Cols before it wraps around
    top, bottom     \* the region: the lines from top to bottom - 1

Row == 0 .. Lines - 1
Col == 0 .. Cols - 1

Init == cell \in [Row -> [Col -> Char]]

Empty == [c \in Col |-> Blank]

(* The lines from t to b - 1 move n lines up, or down if n is negative.    *)
Scrolled(t, b, n) ==
    [r \in Row |-> IF r < t \/ r >= b THEN cell[r]
                   ELSE IF t <= r + n /\ r + n < b THEN cell[r + n] ELSE Empty]

Scroll == \E n \in -Lines .. Lines :
             \/ n \in {-1, 1} /\ cell' = Scrolled(top, bottom, n)
             \/ cell' = Scrolled(y, Lines, n)

(* The cell before the new place of the cursor is written.  Only a line    *)
(* that is full can scroll, at the end of the region or below it.          *)
Write ==
    \E n \in {0, 1}, v \in Char :
       /\ n = 1 => x = Cols /\ y + 1 >= bottom
       /\ x' = (x % Cols) + 1
       /\ cell' = [Scrolled(top, bottom, n) EXCEPT ![y'][x' - 1] = v]

(* The line from the cursor on moves n to the left, or to the right. *)
Shift ==
    \E n \in -Cols .. Cols :
       cell' = [cell EXCEPT ![y] =
                  [c \in Col |-> IF c < x THEN @[c]
                                 ELSE IF x <= c + n /\ c + n < Cols
                                 THEN @[c + n] ELSE Blank]]

Erase ==        \* in the order of reading
    LET here == y * Cols + x
    IN \E from \in {0, y * Cols, here - 1, here},
          to \in {here, (y + 1) * Cols, Lines * Cols} :
          cell' = [r \in Row |-> [c \in Col |->
                     IF r * Cols + c \in from .. to - 1 THEN Blank
                     ELSE cell[r][c]]]

Spec == Init /\ [][Scroll \/ Write \/ Shift \/ Erase]_cell
=============================================================================
