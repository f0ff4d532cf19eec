------------------------------ MODULE InputArea ------------------------------
(***************************************************************************)
(* The two input rows of the chat client, cell by cell: what               *)
(* refresh_input_area of src/lab2/lab2.c leaves on the screen after each   *)
(* key and each blink.  ChatClient has the interleavings, and shows that   *)
(* the last redraw is of the current line; here a key and its redraw are   *)
(* one step.  The characters of the line are their own positions, so that  *)
(* one drawn in a wrong place shows.                                       *)
(***************************************************************************)
EXTENDS Integers

CONSTANT Cols   \* SCREEN_COLS

ASSUME ColsAssumption == Cols \in Nat /\ Cols > 2

FirstCap == Cols - 2          \* the first row has the prompt "> "
MaxLen   == FirstCap + Cols   \* INPUT_MAX_LEN

Columns == 0 .. Cols - 1
Cells   == {1, 2} \X Columns

\* What a cell shows besides a character of the line.
Blank == -1
Underscore == -2
Prompt == -3

VARIABLES input_len, cursor_pos, cursor_visible,
          area   \* the cells of INPUT_ROW1 and INPUT_ROW2

vars == <<input_len, cursor_pos, cursor_visible, area>>

-----------------------------------------------------------------------------
(* refresh_input_area. *)

Smaller(a, b) == IF a < b THEN a ELSE b

\* The rows: both are written over their whole width.
Line1(len) ==
    LET first_len == Smaller(len, FirstCap)
    IN  [col \in Columns |-> IF col = 0 THEN Prompt
                             ELSE IF col - 2 \in 0 .. first_len - 1 THEN col - 2
                             ELSE Blank]

\* The variant copies from the start of input_buf.
Line2First(len) ==
    LET rem == len - Smaller(len, FirstCap)
    IN  [col \in Columns |-> IF col < rem THEN col ELSE Blank]
Line2(len) ==
    LET first_len == Smaller(len, FirstCap)
        rem       == len - first_len
    IN  [col \in Columns |-> IF col < rem THEN first_len + col ELSE Blank]

\* The cell the cursor is drawn in; the variant does not subtract the first row.
MarkCellFar(pos) ==
    IF pos <= FirstCap THEN <<1, Smaller(2 + pos, Cols - 1)>>
                       ELSE <<2, Smaller(pos, Cols - 1)>>
MarkCell(pos) ==
    IF pos <= FirstCap THEN <<1, Smaller(2 + pos, Cols - 1)>>
                       ELSE <<2, Smaller(pos - FirstCap, Cols - 1)>>

Under(len, pos) == IF pos < len THEN pos ELSE Blank

Area(len, pos, visible) ==
    [cell \in Cells |->
        IF cell = MarkCell(pos)
        THEN IF visible THEN Underscore ELSE Under(len, pos)
        ELSE IF cell[1] = 1 THEN Line1(len)[cell[2]] ELSE Line2(len)[cell[2]]]

Show(len, pos, visible) ==
    /\ input_len' = len /\ cursor_pos' = pos /\ cursor_visible' = visible
    /\ area' = Area(len, pos, visible)

-----------------------------------------------------------------------------

Init ==
    /\ input_len = 0 /\ cursor_pos = 0 /\ cursor_visible = TRUE
    /\ area = Area(0, 0, TRUE)

Insert ==
    /\ input_len < MaxLen
    /\ Show(input_len + 1, cursor_pos + 1, cursor_visible)

Backspace ==
    /\ cursor_pos > 0
    /\ Show(input_len - 1, cursor_pos - 1, cursor_visible)

Left  == cursor_pos > 0 /\ Show(input_len, cursor_pos - 1, cursor_visible)
Right == cursor_pos < input_len /\ Show(input_len, cursor_pos + 1, cursor_visible)

Send == input_len > 0 /\ Show(0, 0, cursor_visible)

Blink == Show(input_len, cursor_pos, ~cursor_visible)

Next == Insert \/ Backspace \/ Left \/ Right \/ Send \/ Blink

Spec == Init /\ [][Next]_vars

-----------------------------------------------------------------------------
(* What must hold. *)

\* Where the character at a position of the line belongs: behind the prompt, and
\* on the second row when the first is full.
CharCell(pos) == IF pos < FirstCap THEN <<1, pos + 2>> ELSE <<2, pos - FirstCap>>

\* The area with the line and no cursor.
Plain == [cell \in Cells |->
    IF cell = <<1, 0>> THEN Prompt
    ELSE IF \E pos \in 0 .. input_len - 1 : cell = CharCell(pos)
         THEN CHOOSE pos \in 0 .. input_len - 1 : cell = CharCell(pos)
    ELSE Blank]

\* Two positions whose cursor the code draws elsewhere: the first of the second
\* row, and the one behind a full line, which has no cell.
Displaced == {FirstCap, MaxLen}

\* The area shows each character in its cell, with the cursor, or what is under
\* it, in the cell of the next character: no redraw leaves a cell of an earlier
\* line or of an earlier cursor behind (lab2.c:325-380).
AreaRight ==
    cursor_pos \notin Displaced =>
        area = IF cursor_visible
               THEN [Plain EXCEPT ![CharCell(cursor_pos)] = Underscore]
               ELSE Plain

\* Wherever the cursor is, it disturbs one cell of the two rows, and a blink
\* touches no other (lab2.c:358-366).
OneCellOff ==
    \E off \in Cells : \A cell \in Cells \ {off} : area[cell] = Plain[cell]
=============================================================================
