----------------------------- MODULE Framebuffer -----------------------------
(***************************************************************************)
(* The character generator of src/lab2/fbputchar.c: characters painted     *)
(* into the memory of the framebuffer, four bytes to a word and a word to  *)
(* a pixel, each pixel of the font as a square of four.                    *)
(***************************************************************************)
EXTENDS Integers, Sequences, FiniteSetsExt

CONSTANTS FONT_WIDTH, FONT_HEIGHT,
          LineWords,         \* fb_finfo.line_length, in words
          Lines,             \* fb_finfo.smem_len, in lines
          xoffset, yoffset   \* of fb_vinfo

ASSUME FontAssumption == FONT_WIDTH \in Nat \ {0} /\ FONT_HEIGHT \in Nat \ {0}
ASSUME MemoryAssumption ==
    LineWords \in Nat \ {0} /\ Lines \in Nat /\ xoffset \in Nat /\ yoffset \in Nat

Words == 0 .. Lines * LineWords - 1

Space == -1   \* the character whose glyph is empty
Dark  == <<>>

\* What the glyph of a character has at a place: only where a pixel of a glyph ends
\* up matters, not whether it is set.
Pixel(c, y, x) == IF c = Space THEN Dark ELSE <<c, y, x>>

\* fbclear.
Cleared == [w \in Words |-> Dark]

\* Where a cell begins; the variant forgets that the font is drawn at twice its size.
CellStartNarrow(row, col) ==
    (row * FONT_HEIGHT * 2 + yoffset) * LineWords + col * FONT_WIDTH + xoffset
CellStart(row, col) ==
    (row * FONT_HEIGHT * 2 + yoffset) * LineWords + col * FONT_WIDTH * 2 + xoffset

\* fbputchar goes down the lines and along each: which of its pixels a word is.
Y(w, row, col) == (w - CellStart(row, col)) \div LineWords
X(w, row, col) == (w - CellStart(row, col)) % LineWords

Draws(w, row, col) ==
    Y(w, row, col) \in 0 .. FONT_HEIGHT * 2 - 1 /\ X(w, row, col) < FONT_WIDTH * 2

Glyph(c, w, row, col) == Pixel(c, Y(w, row, col) \div 2, X(w, row, col) \div 2)

\* fbputchar, on a memory.
Painted(memory, c, row, col) ==
    [w \in Words |-> IF Draws(w, row, col) THEN Glyph(c, w, row, col) ELSE memory[w]]

\* fbputs: one cell after the other, also past the end of the row; a word that
\* several of them have is left by the last.
Put(memory, s, row, col) ==
    [w \in Words |->
        LET drawn == {j \in DOMAIN s : Draws(w, row, col + j - 1)}
            last  == Max(drawn)
        IN  IF drawn = {} THEN memory[w] ELSE Glyph(s[last], w, row, col + last - 1)]
=============================================================================
