----------------------------- MODULE InputScreen -----------------------------
(***************************************************************************)
(* The input rows of the chat client in the memory of the framebuffer:     *)
(* InputArea says which character each call leaves in which cell, and      *)
(* Framebuffer which words that is.  refresh_input_area is its whole       *)
(* sequence of calls.                                                      *)
(***************************************************************************)
EXTENDS InputArea, Framebuffer

CONSTANT DIVIDER_ROW

\* The display is large enough for the rows and columns of lab2.c.  fbopen looks at
\* the bits of a pixel only (fbputchar.c:58).
ASSUME DisplayAssumption ==
    /\ Space = Blank
    /\ DIVIDER_ROW \in Nat
    /\ Lines >= (DIVIDER_ROW + 3) * FONT_HEIGHT * 2 + yoffset
    /\ LineWords >= Cols * FONT_WIDTH * 2 + xoffset

INPUT_ROW1 == DIVIDER_ROW + 1
INPUT_ROW2 == DIVIDER_ROW + 2

Dash == -4

VARIABLE memory

screenVars == <<vars, memory>>

-----------------------------------------------------------------------------

\* A row of characters as a string.
String(line) == [i \in 1 .. Cols |-> line[i - 1]]
Row(c)       == [i \in 1 .. Cols |-> c]

clear_row(m, row) == Put(m, Row(Blank), row, 0)

refresh_input_area(m, len, pos, visible) ==
    LET cleared == clear_row(clear_row(m, INPUT_ROW1), INPUT_ROW2)
        lines   == Put(Put(cleared, String(Line1(len)), INPUT_ROW1, 0),
                       String(Line2(len)), INPUT_ROW2, 0)
        mark    == MarkCell(pos)
    IN  Painted(lines, IF visible THEN Underscore ELSE Under(len, pos),
                DIVIDER_ROW + mark[1], mark[2])

draw_divider(m) == Put(m, Row(Dash), DIVIDER_ROW, 0)

ScreenInit ==
    /\ Init
    /\ memory = refresh_input_area(draw_divider(Cleared), 0, 0, TRUE)

ScreenNext ==
    /\ Next
    /\ memory' = refresh_input_area(memory, input_len', cursor_pos', cursor_visible')

ScreenSpec == ScreenInit /\ [][ScreenNext]_screenVars

-----------------------------------------------------------------------------
(* What must hold. *)

\* What a cell of the screen shows.
Cell(row, col) ==
    CASE row < DIVIDER_ROW -> Blank
      [] row = DIVIDER_ROW -> Dash
      [] row > DIVIDER_ROW -> area[<<row - DIVIDER_ROW, col>>]

\* "String must fit on a single line: wrap-around is not handled"
\* (fbputchar.c:115): the strings of the client fit, so that after any redraws each
\* cell of the rows has the glyph that was put there last, whole, and not a word of
\* the divider, of the chat rows or of the margins has changed (lab2.c:230-242,
\* 323-383, fbputchar.c:70-122).
ScreenRight ==
    memory = [w \in Words |->
        LET line == (w \div LineWords) - yoffset
            word == (w % LineWords) - xoffset
            row  == line \div (FONT_HEIGHT * 2)
            col  == word \div (FONT_WIDTH * 2)
        IN  IF line >= 0 /\ row <= INPUT_ROW2 /\ col \in Columns
            THEN Pixel(Cell(row, col), (line % (FONT_HEIGHT * 2)) \div 2,
                                       (word % (FONT_WIDTH * 2)) \div 2)
            ELSE Dark]
=============================================================================
