----------------------------- MODULE InputProofs -----------------------------
(***************************************************************************)
(* The input side of the chat client: the cells and the words of the rows  *)
(* it draws, the keyboard it finds and the keys it takes, for every size   *)
(* of the screen and of the font, and every number of devices and keys.    *)
(***************************************************************************)
EXTENDS InputScreen, Keyboard, SequenceTheorems, FiniteSetTheorems, TLAPS

-----------------------------------------------------------------------------
(* The cells of the input rows. *)

AreaInv ==
    /\ input_len \in 0 .. MaxLen
    /\ cursor_pos \in 0 .. input_len
    /\ area = Area(input_len, cursor_pos, cursor_visible)

LEMMA AreaInit == Init => AreaInv
  BY ColsAssumption DEF Init, AreaInv, MaxLen, FirstCap

LEMMA AreaNext == AreaInv /\ [Next]_vars => AreaInv'
<1> SUFFICES ASSUME AreaInv, [Next]_vars PROVE AreaInv'
  OBVIOUS
<1>1. CASE Next
  <2>1. MaxLen \in Nat
    BY ColsAssumption DEF MaxLen, FirstCap
  <2>2. input_len' \in 0 .. MaxLen /\ cursor_pos' \in 0 .. input_len'
    BY <1>1, <2>1 DEF AreaInv, Next, Insert, Backspace, Left, Right, Send, Blink, Show
  <2>3. area' = Area(input_len', cursor_pos', cursor_visible')
    BY <1>1 DEF Next, Insert, Backspace, Left, Right, Send, Blink, Show
  <2> QED
    BY <2>2, <2>3 DEF AreaInv
<1>2. CASE UNCHANGED vars
  BY <1>2 DEF AreaInv, vars
<1> QED
  BY <1>1, <1>2

\* No two characters share a cell.
LEMMA CellsApart ==
  ASSUME NEW p \in Nat, NEW q \in Nat, CharCell(p) = CharCell(q)
  PROVE  p = q
  BY ColsAssumption DEF CharCell, FirstCap

\* The two lines the code copies are the line without a cursor.
LEMMA LinesPlain ==
  ASSUME AreaInv, NEW cell \in Cells
  PROVE  Plain[cell] = IF cell[1] = 1 THEN Line1(input_len)[cell[2]]
                                      ELSE Line2(input_len)[cell[2]]
<1> DEFINE Drawn == IF cell[1] = 1 THEN Line1(input_len)[cell[2]]
                                   ELSE Line2(input_len)[cell[2]]
           Sits(pos) == cell = CharCell(pos)
<1>1. PICK row \in {1, 2}, col \in Columns : cell = <<row, col>>
  BY DEF Cells
<1>2. cell[1] = row /\ cell[2] = col
  BY <1>1
<1>3. input_len \in Nat /\ input_len <= FirstCap + Cols /\ FirstCap = Cols - 2
  BY ColsAssumption DEF AreaInv, MaxLen, FirstCap
<1>4. Drawn = IF row = 1 THEN Line1(input_len)[col] ELSE Line2(input_len)[col]
  BY <1>2
<1>5. CASE cell = <<1, 0>>
  <2>1. row = 1 /\ col = 0
    BY <1>1, <1>5
  <2> QED
    BY <1>4, <1>5, <2>1 DEF Plain, Line1
<1>6. CASE cell # <<1, 0>> /\ \E pos \in 0 .. input_len - 1 : Sits(pos)
  <2>1. PICK pos \in 0 .. input_len - 1 : Sits(pos)
    BY <1>6
  <2>2. (CHOOSE q \in 0 .. input_len - 1 : Sits(q)) = pos
    <3>1. \A q \in Nat : Sits(q) => q = pos
      <4>1. pos \in Nat
        BY <1>3, <2>1
      <4> QED
        BY <2>1, <4>1, CellsApart
    <3> QED
      BY <1>3, <2>1, <3>1
  <2>3. Plain[cell] = pos
    BY <1>6, <2>2 DEF Plain
  <2>4. IF pos < FirstCap THEN row = 1 /\ col = pos + 2
                          ELSE row = 2 /\ col = pos - FirstCap
    BY <1>1, <2>1 DEF CharCell
  <2>5. CASE pos < FirstCap
    BY <1>1, <1>3, <1>4, <2>1, <2>3, <2>4, <2>5, ColsAssumption
       DEF Line1, Smaller, Columns
  <2>6. CASE ~(pos < FirstCap)
    <3>1. Smaller(input_len, FirstCap) = FirstCap
      BY <1>3, <2>1, <2>6, ColsAssumption DEF Smaller
    <3> QED
      BY <1>1, <1>3, <1>4, <2>1, <2>3, <2>4, <2>6, <3>1, ColsAssumption
         DEF Line2, Columns
  <2> QED
    BY <2>5, <2>6
<1>7. CASE cell # <<1, 0>> /\ ~\E pos \in 0 .. input_len - 1 : Sits(pos)
  <2>1. Plain[cell] = Blank
    BY <1>7 DEF Plain
  <2>2. row = 1 => col # 0 /\ ~(col - 2 \in 0 .. Smaller(input_len, FirstCap) - 1)
    <3>1. ASSUME row = 1, col - 2 \in 0 .. Smaller(input_len, FirstCap) - 1
          PROVE  FALSE
      <4>1. col - 2 \in 0 .. input_len - 1 /\ col - 2 < FirstCap /\ col \in Nat
        BY <1>3, <3>1, ColsAssumption DEF Smaller, Columns
      <4>2. Sits(col - 2)
        BY <1>1, <3>1, <4>1 DEF CharCell
      <4> QED
        BY <1>7, <4>1, <4>2
    <3>2. row = 1 => col # 0
      BY <1>1, <1>7
    <3> QED
      BY <3>1, <3>2
  <2>3. row = 2 => ~(col < input_len - Smaller(input_len, FirstCap))
    <3>1. ASSUME row = 2, col < input_len - Smaller(input_len, FirstCap)
          PROVE  FALSE
      <4>1. FirstCap + col \in 0 .. input_len - 1 /\ col \in Nat
        BY <1>3, <3>1, ColsAssumption DEF Smaller, Columns
      <4>2. Sits(FirstCap + col)
        BY <1>1, <1>3, <3>1, <4>1, ColsAssumption DEF CharCell
      <4> QED
        BY <1>7, <4>1, <4>2
    <3> QED
      BY <3>1
  <2>4. Drawn = Blank
    BY <1>3, <1>4, <2>2, <2>3 DEF Line1, Line2
  <2> QED
    BY <2>1, <2>4
<1> QED
  BY <1>5, <1>6, <1>7

\* Away from two places the cursor is drawn in the cell of its character.
LEMMA MarkRight ==
  ASSUME NEW p \in 0 .. MaxLen, p \notin Displaced
  PROVE  MarkCell(p) = CharCell(p) /\ CharCell(p) \in Cells
  BY ColsAssumption DEF MaxLen, FirstCap, Displaced, MarkCell, CharCell, Smaller,
     Cells, Columns

\* A cursor that is not drawn leaves the character it would cover.
LEMMA UnderPlain ==
  ASSUME AreaInv, cursor_pos \notin Displaced
  PROVE  Plain[CharCell(cursor_pos)] = Under(input_len, cursor_pos)
<1> DEFINE cell == CharCell(cursor_pos)
           Sits(pos) == cell = CharCell(pos)
<1>1. /\ cursor_pos \in Nat /\ input_len \in Nat
      /\ cursor_pos \in 0 .. MaxLen
      /\ cell \in Cells /\ cell # <<1, 0>>
  BY MarkRight, ColsAssumption DEF AreaInv, MaxLen, FirstCap, CharCell
<1>2. \A q \in 0 .. input_len - 1 : Sits(q) => q = cursor_pos
  BY <1>1, CellsApart
<1>3. CASE cursor_pos < input_len
  <2>1. cursor_pos \in 0 .. input_len - 1
    BY <1>1, <1>3
  <2>2. (CHOOSE q \in 0 .. input_len - 1 : Sits(q)) = cursor_pos
    BY <1>2, <2>1
  <2>3. Plain[cell] = cursor_pos
    BY <1>1, <2>1, <2>2 DEF Plain
  <2> QED
    BY <1>3, <2>3 DEF Under
<1>4. CASE ~(cursor_pos < input_len)
  <2>1. ~\E q \in 0 .. input_len - 1 : Sits(q)
    BY <1>1, <1>2, <1>4
  <2>2. Plain[cell] = Blank
    BY <1>1, <2>1 DEF Plain
  <2> QED
    BY <1>4, <2>2 DEF Under
<1> QED
  BY <1>3, <1>4

LEMMA AreaInvRight == AreaInv => AreaRight
<1> SUFFICES ASSUME AreaInv, cursor_pos \notin Displaced
             PROVE  area = IF cursor_visible
                           THEN [Plain EXCEPT ![CharCell(cursor_pos)] = Underscore]
                           ELSE Plain
  BY DEF AreaRight
<1>1. cursor_pos \in 0 .. MaxLen
  BY ColsAssumption DEF AreaInv, MaxLen, FirstCap
<1>2. MarkCell(cursor_pos) = CharCell(cursor_pos)
  BY <1>1, MarkRight
<1>3. Plain = [cell \in Cells |-> Plain[cell]]
  BY DEF Plain
<1>4. \A cell \in Cells :
         area[cell] = IF cell = CharCell(cursor_pos)
                      THEN IF cursor_visible THEN Underscore ELSE Plain[cell]
                      ELSE Plain[cell]
  <2> SUFFICES ASSUME NEW cell \in Cells
               PROVE  area[cell] = IF cell = CharCell(cursor_pos)
                                   THEN IF cursor_visible THEN Underscore ELSE Plain[cell]
                                   ELSE Plain[cell]
    OBVIOUS
  <2>1. area[cell] = IF cell = CharCell(cursor_pos)
                     THEN IF cursor_visible THEN Underscore
                                            ELSE Under(input_len, cursor_pos)
                     ELSE IF cell[1] = 1 THEN Line1(input_len)[cell[2]]
                                         ELSE Line2(input_len)[cell[2]]
    BY <1>2 DEF AreaInv, Area
  <2> QED
    BY <2>1, LinesPlain, UnderPlain
<1>5. area = [cell \in Cells |-> area[cell]]
  BY DEF AreaInv, Area
<1> QED
  BY <1>3, <1>4, <1>5

\* Whatever is typed, deleted or sent, and however wide the screen is, the area
\* shows the line and the cursor in the cells they belong in, but for the two
\* positions of Displaced (lab2.c:323-383).
THEOREM AreaSafe == Spec => []AreaRight
  BY AreaInit, AreaNext, AreaInvRight, PTL DEF Spec

\* Wherever the cursor is, also at those two positions, no more than the cell it
\* is drawn in differs from the line (lab2.c:358-366).
THEOREM OneCellSafe == Spec => []OneCellOff
<1>1. ASSUME AreaInv PROVE OneCellOff
  <2>1. MarkCell(cursor_pos) \in Cells
    BY <1>1, ColsAssumption
       DEF AreaInv, MaxLen, FirstCap, MarkCell, Smaller, Cells, Columns
  <2>2. ASSUME NEW cell \in Cells, cell # MarkCell(cursor_pos)
        PROVE  area[cell] = Plain[cell]
    BY <1>1, <2>2, LinesPlain DEF AreaInv, Area
  <2> QED
    BY <2>1, <2>2 DEF OneCellOff
<1> QED
  BY <1>1, AreaInit, AreaNext, PTL DEF Spec

-----------------------------------------------------------------------------
(* The words of the framebuffer. *)

\* Quotients and remainders.
LEMMA DivModType ==
  ASSUME NEW a \in Int, NEW b \in Int, b > 0
  PROVE  a \div b \in Int /\ a % b \in 0 .. b - 1
OBVIOUS

LEMMA DivModOf ==
  ASSUME NEW a \in Int, NEW b \in Int, b > 0, NEW q \in Int, NEW r \in Int, q = a \div b, r = a % b
  PROVE  a = q * b + r
OBVIOUS

LEMMA DivMod ==
  ASSUME NEW q \in Int, NEW b \in Int, b > 0, NEW r \in 0 .. b - 1
  PROVE  (q * b + r) \div b = q /\ (q * b + r) % b = r
OBVIOUS

LEMMA Within ==
  ASSUME NEW a \in Int, NEW r \in Int, NEW b \in Int, b > 0
  PROVE  /\ a - r * b \in 0 .. b - 1 <=> a \div b = r
         /\ a \div b = r => a % b = a - r * b
<1>1. r * b \in Int
  OBVIOUS
<1>2. ASSUME a - r * b \in 0 .. b - 1 PROVE a \div b = r
  <2>1. PICK x \in 0 .. b - 1 : x = a - r * b
    BY <1>2
  <2>2. a = r * b + x
    BY <1>1, <2>1
  <2> QED
    BY <2>2, DivMod
<1>3. ASSUME a \div b = r PROVE a % b = a - r * b /\ a - r * b \in 0 .. b - 1
  <2> DEFINE x == a % b
  <2>1. x \in 0 .. b - 1 /\ a = r * b + x
    <3>1. x \in 0 .. b - 1
      BY DivModType
    <3> QED
      BY <1>3, <3>1, DivModOf
  <2> HIDE DEF x
  <2>2. x = a - r * b
    BY <1>1, <2>1
  <2> QED
    BY <2>1, <2>2 DEF x
<1> QED
  BY <1>2, <1>3

LineOf(w) == (w \div LineWords) - yoffset
WordOf(w) == (w % LineWords) - xoffset
RowOf(w)  == LineOf(w) \div (FONT_HEIGHT * 2)
ColOf(w)  == WordOf(w) \div (FONT_WIDTH * 2)

LEMMA Sizes ==
  /\ FONT_HEIGHT * 2 \in Int /\ FONT_HEIGHT * 2 > 0 /\ FONT_WIDTH * 2 \in Int /\ FONT_WIDTH * 2 > 0
  /\ LineWords \in Int /\ LineWords > 0 /\ Lines \in Nat /\ xoffset \in Nat /\ yoffset \in Nat
  /\ DIVIDER_ROW \in Nat /\ Cols \in Nat
BY FontAssumption, MemoryAssumption, DisplayAssumption, ColsAssumption

LEMMA WordPlace ==
  ASSUME NEW w \in Words
  PROVE  /\ w \in Int /\ LineOf(w) \in Int /\ WordOf(w) \in Int /\ RowOf(w) \in Int /\ ColOf(w) \in Int
         /\ LineOf(w) >= 0 <=> RowOf(w) >= 0
<1>1. w \in Int
  BY DEF Words
<1>2. LineOf(w) \in Int /\ WordOf(w) \in Int
  BY <1>1, Sizes, DivModType DEF LineOf, WordOf
<1>3. RowOf(w) \in Int /\ ColOf(w) \in Int
  BY <1>2, Sizes, DivModType DEF RowOf, ColOf
<1>4. LineOf(w) >= 0 <=> RowOf(w) >= 0
  BY <1>2, Sizes DEF RowOf
<1> QED
  BY <1>1, <1>2, <1>3, <1>4

\* No cell of the rows goes past the end of a line.
LEMMA CellsFit ==
  ASSUME NEW col \in Columns
  PROVE  /\ col * (FONT_WIDTH * 2) \in Nat
         /\ col * (FONT_WIDTH * 2) + FONT_WIDTH * 2 + xoffset <= LineWords
<1> DEFINE W == FONT_WIDTH * 2
<1>1. W \in Nat /\ LineWords >= Cols * W + xoffset /\ LineWords \in Int /\ xoffset \in Nat /\ Cols \in Nat
  <2>1. Cols * FONT_WIDTH * 2 = Cols * W /\ W \in Nat
    BY FontAssumption, ColsAssumption
  <2> QED
    BY <2>1, DisplayAssumption, Sizes
<1> HIDE DEF W
<1>2. col \in Nat /\ col + 1 <= Cols
  BY Sizes DEF Columns
<1>3. col * W \in Nat /\ (col + 1) * W = col * W + W /\ (col + 1) * W <= Cols * W /\ Cols * W \in Nat
  BY <1>1, <1>2
<1>4. col * W \in Nat /\ col * W + W + xoffset <= LineWords
  BY <1>1, <1>3
<1> QED
  BY <1>4 DEF W

\* Which cell of a row a word is of, and which pixel of its glyph.
LEMMA CellWords ==
  ASSUME NEW w \in Words, NEW row \in Int, NEW col \in Columns
  PROVE  /\ Draws(w, row, col) <=> RowOf(w) = row /\ ColOf(w) = col
         /\ Draws(w, row, col) => /\ Y(w, row, col) = LineOf(w) % (FONT_HEIGHT * 2)
                                  /\ X(w, row, col) = WordOf(w) % (FONT_WIDTH * 2)
<1> DEFINE H  == FONT_HEIGHT * 2
           W  == FONT_WIDTH * 2
           q  == w \div LineWords
           p  == w % LineWords
           rr == row * H
           cc == col * W
<1>1. /\ H \in Int /\ H > 0 /\ W \in Int /\ W > 0 /\ LineWords \in Int /\ LineWords > 0
      /\ xoffset \in Int /\ xoffset >= 0 /\ yoffset \in Int /\ rr \in Int
  BY Sizes
<1>2. q \in Int /\ p \in 0 .. LineWords - 1 /\ w = q * LineWords + p /\ w \in Int
  <2>1. w \in Int
    BY WordPlace
  <2>2. q \in Int /\ p \in 0 .. LineWords - 1
    BY <1>1, <2>1, DivModType
  <2> QED
    BY <1>1, <2>1, <2>2, DivModOf
<1>3. cc \in Nat /\ cc + W + xoffset <= LineWords
  BY CellsFit
<1>4. CellStart(row, col) = (rr + yoffset) * LineWords + cc + xoffset
  <2>1. row * FONT_HEIGHT * 2 = rr /\ col * FONT_WIDTH * 2 = cc
    BY FontAssumption DEF Columns
  <2> QED
    BY <2>1 DEF CellStart
<1>5. /\ LineOf(w) = q - yoffset /\ WordOf(w) = p - xoffset
      /\ RowOf(w) = (q - yoffset) \div H /\ ColOf(w) = (p - xoffset) \div W
  BY DEF LineOf, WordOf, RowOf, ColOf
<1>6. /\ (q - yoffset) - rr \in 0 .. H - 1 <=> (q - yoffset) \div H = row
      /\ (q - yoffset) \div H = row => (q - yoffset) % H = (q - yoffset) - rr
  BY <1>1, <1>2, Within
<1>7. /\ (p - xoffset) - cc \in 0 .. W - 1 <=> (p - xoffset) \div W = col
      /\ (p - xoffset) \div W = col => (p - xoffset) % W = (p - xoffset) - cc
  <2>1. col \in Int
    BY DEF Columns
  <2> QED
    BY <1>1, <1>2, <2>1, Within
<1> HIDE DEF H, W, q, p, rr, cc
<1>8. w - CellStart(row, col) = (q - rr - yoffset) * LineWords + (p - cc - xoffset)
  <2>1. (q - rr - yoffset) * LineWords = q * LineWords - (rr + yoffset) * LineWords
        /\ q * LineWords \in Int /\ (rr + yoffset) * LineWords \in Int
    BY <1>1, <1>2
  <2> QED
    BY <1>1, <1>2, <1>3, <1>4, <2>1
<1>9. CASE p - cc - xoffset >= 0
  <2>1. p - cc - xoffset \in 0 .. LineWords - 1 /\ q - rr - yoffset \in Int
    BY <1>1, <1>2, <1>3, <1>9
  <2>2. Y(w, row, col) = q - rr - yoffset /\ X(w, row, col) = p - cc - xoffset
    <3> DEFINE v == q - rr - yoffset
               u == p - cc - xoffset
    <3>1. v \in Int /\ u \in 0 .. LineWords - 1 /\ w - CellStart(row, col) = v * LineWords + u
      BY <1>8, <2>1
    <3> HIDE DEF v, u
    <3>2. (v * LineWords + u) \div LineWords = v /\ (v * LineWords + u) % LineWords = u
      BY <1>1, <3>1, DivMod
    <3>3. Y(w, row, col) = v /\ X(w, row, col) = u
      BY <3>1, <3>2 DEF Y, X
    <3> QED
      BY <3>3 DEF v, u
  <2>3. Draws(w, row, col) <=> q - rr - yoffset \in 0 .. H - 1 /\ p - cc - xoffset < W
    BY <2>2 DEF Draws, H, W
  <2>4. /\ q - rr - yoffset = (q - yoffset) - rr /\ p - cc - xoffset = (p - xoffset) - cc
    BY <1>1, <1>2, <1>3
  <2>5. p - cc - xoffset < W <=> p - cc - xoffset \in 0 .. W - 1
    BY <1>1, <1>9, <2>1
  <2>6. Draws(w, row, col) <=> RowOf(w) = row /\ ColOf(w) = col
    BY <1>5, <1>6, <1>7, <2>3, <2>4, <2>5
  <2>7. Draws(w, row, col) => /\ Y(w, row, col) = LineOf(w) % H
                              /\ X(w, row, col) = WordOf(w) % W
    BY <1>5, <1>6, <1>7, <2>2, <2>4, <2>6
  <2> QED
    BY <2>6, <2>7 DEF H, W
<1>10. CASE p - cc - xoffset < 0
  <2>1. p - cc - xoffset + LineWords \in 0 .. LineWords - 1 /\ q - rr - yoffset - 1 \in Int
    BY <1>1, <1>2, <1>3, <1>10
  <2>2. w - CellStart(row, col) = (q - rr - yoffset - 1) * LineWords + (p - cc - xoffset + LineWords)
    <3> DEFINE n == q - rr - yoffset
    <3>1. n \in Int /\ p - cc - xoffset \in Int
      BY <1>1, <1>2, <1>3
    <3>2. w - CellStart(row, col) = n * LineWords + (p - cc - xoffset)
      BY <1>8
    <3> HIDE DEF n
    <3>3. n * LineWords = (n - 1) * LineWords + LineWords /\ (n - 1) * LineWords \in Int
      BY <1>1, <3>1
    <3>4. w - CellStart(row, col) = (n - 1) * LineWords + (p - cc - xoffset + LineWords)
      BY <1>1, <3>1, <3>2, <3>3
    <3> QED
      BY <3>4 DEF n
  <2>3. X(w, row, col) = p - cc - xoffset + LineWords
    <3> DEFINE v == q - rr - yoffset - 1
               u == p - cc - xoffset + LineWords
    <3>1. v \in Int /\ u \in 0 .. LineWords - 1 /\ w - CellStart(row, col) = v * LineWords + u
      BY <2>1, <2>2
    <3> HIDE DEF v, u
    <3>2. (v * LineWords + u) % LineWords = u
      BY <1>1, <3>1, DivMod
    <3>3. X(w, row, col) = u
      BY <3>1, <3>2 DEF X
    <3> QED
      BY <3>3 DEF u
  <2>4. ~Draws(w, row, col)
    BY <1>1, <1>2, <1>3, <2>1, <2>3 DEF Draws, W
  <2>5. ColOf(w) # col
    BY <1>1, <1>2, <1>3, <1>5, <1>7, <1>10
  <2> QED
    BY <2>4, <2>5
<1> QED
  BY <1>1, <1>2, <1>3, <1>9, <1>10

\* The pixel of a character's glyph that a word is.
GlyphAt(c, w) == Pixel(c, (LineOf(w) % (FONT_HEIGHT * 2)) \div 2, (WordOf(w) % (FONT_WIDTH * 2)) \div 2)

LEMMA PaintedCell ==
  ASSUME NEW m, NEW c, NEW row \in Int, NEW col \in Columns, NEW w \in Words
  PROVE  Painted(m, c, row, col)[w] =
            IF RowOf(w) = row /\ ColOf(w) = col THEN GlyphAt(c, w) ELSE m[w]
<1>1. Painted(m, c, row, col)[w] = IF Draws(w, row, col) THEN Glyph(c, w, row, col) ELSE m[w]
  BY DEF Painted
<1>2. CASE Draws(w, row, col)
  BY <1>1, <1>2, CellWords DEF Glyph, GlyphAt
<1>3. CASE ~Draws(w, row, col)
  BY <1>1, <1>3, CellWords
<1> QED
  BY <1>2, <1>3

\* A string over the whole width of a row.
LEMMA PutRow ==
  ASSUME NEW m, NEW f, NEW row \in Int, NEW w \in Words
  PROVE  Put(m, String(f), row, 0)[w] =
            IF RowOf(w) = row /\ ColOf(w) \in Columns THEN GlyphAt(f[ColOf(w)], w) ELSE m[w]
<1> DEFINE s     == String(f)
           drawn == {j \in DOMAIN s : Draws(w, row, 0 + j - 1)}
           last  == Max(drawn)
<1>s. DOMAIN s = 1 .. Cols /\ \A j \in 1 .. Cols : s[j] = f[j - 1]
  BY DEF String
<1>1. Put(m, s, row, 0)[w] = IF drawn = {} THEN m[w] ELSE Glyph(s[last], w, row, 0 + last - 1)
  BY DEF Put
<1>2. \A j \in 1 .. Cols : 0 + j - 1 = j - 1 /\ j - 1 \in Columns
  BY Sizes DEF Columns
<1>3. drawn = {j \in 1 .. Cols : RowOf(w) = row /\ ColOf(w) = j - 1}
  <2>1. \A j \in 1 .. Cols : Draws(w, row, 0 + j - 1) <=> RowOf(w) = row /\ ColOf(w) = j - 1
    BY <1>2, CellWords
  <2> QED
    BY <1>s, <2>1
<1> HIDE DEF drawn, last, s
<1>4. CASE RowOf(w) = row /\ ColOf(w) \in Columns
  <2>1. ColOf(w) + 1 \in 1 .. Cols /\ ColOf(w) + 1 - 1 = ColOf(w) /\ ColOf(w) \in Int
    BY <1>4, Sizes DEF Columns
  <2>2. drawn = {ColOf(w) + 1}
    BY <1>3, <1>4, <2>1
  <2>3. last = ColOf(w) + 1
    BY <2>1, <2>2 DEF last, Max
  <2>4. s[last] = f[ColOf(w)] /\ 0 + last - 1 = ColOf(w)
    BY <1>s, <2>1, <2>3
  <2>5. Glyph(f[ColOf(w)], w, row, ColOf(w)) = GlyphAt(f[ColOf(w)], w)
    BY <1>4, CellWords DEF Glyph, GlyphAt
  <2> QED
    BY <1>1, <1>4, <2>2, <2>4, <2>5 DEF s
<1>5. CASE ~(RowOf(w) = row /\ ColOf(w) \in Columns)
  <2>1. drawn = {}
    BY <1>2, <1>3, <1>5
  <2> QED
    BY <1>1, <1>5, <2>1 DEF s
<1> QED
  BY <1>4, <1>5

\* What the calls of refresh_input_area leave at a word.
LEMMA Refreshed ==
  ASSUME NEW m, NEW len \in 0 .. MaxLen, NEW pos \in 0 .. len, NEW visible, NEW w \in Words
  PROVE  refresh_input_area(m, len, pos, visible)[w] =
            IF RowOf(w) \in {INPUT_ROW1, INPUT_ROW2} /\ ColOf(w) \in Columns
            THEN GlyphAt(Area(len, pos, visible)[<<RowOf(w) - DIVIDER_ROW, ColOf(w)>>], w)
            ELSE m[w]
<1> DEFINE m1    == clear_row(m, INPUT_ROW1)
           m2    == clear_row(m1, INPUT_ROW2)
           m3    == Put(m2, String(Line1(len)), INPUT_ROW1, 0)
           m4    == Put(m3, String(Line2(len)), INPUT_ROW2, 0)
           mark  == MarkCell(pos)
           under == IF visible THEN Underscore ELSE Under(len, pos)
           row   == RowOf(w)
           col   == ColOf(w)
<1>1. refresh_input_area(m, len, pos, visible) = Painted(m4, under, DIVIDER_ROW + mark[1], mark[2])
  BY DEF refresh_input_area
<1>2. /\ INPUT_ROW1 \in Int /\ INPUT_ROW2 \in Int /\ INPUT_ROW1 # INPUT_ROW2 /\ row \in Int
      /\ INPUT_ROW1 = DIVIDER_ROW + 1 /\ INPUT_ROW2 = DIVIDER_ROW + 2 /\ DIVIDER_ROW \in Int
  BY Sizes, WordPlace DEF INPUT_ROW1, INPUT_ROW2
<1>3. mark \in Cells /\ mark[1] \in {1, 2} /\ mark[2] \in Columns /\ mark = <<mark[1], mark[2]>>
  BY ColsAssumption DEF MarkCell, Cells, Columns, Smaller, FirstCap, MaxLen
<1> HIDE DEF mark, row, col, under
<1>c. ASSUME NEW n, NEW r \in Int
      PROVE  \/ row = r /\ col \in Columns
             \/ clear_row(n, r)[w] = n[w]
  <2> DEFINE blanks == [z \in Columns |-> Blank]
  <2>1. Row(Blank) = String(blanks)
    BY Sizes DEF Row, String, Columns
  <2> HIDE DEF blanks
  <2> QED
    BY <2>1, PutRow DEF clear_row, row, col
<1>4. \/ row \in {INPUT_ROW1, INPUT_ROW2} /\ col \in Columns
      \/ m2[w] = m[w]
  BY <1>2, <1>c
<1>5. m3[w] = IF row = INPUT_ROW1 /\ col \in Columns THEN GlyphAt(Line1(len)[col], w) ELSE m2[w]
  BY <1>2, PutRow DEF row, col
<1>6. m4[w] = IF row = INPUT_ROW2 /\ col \in Columns THEN GlyphAt(Line2(len)[col], w) ELSE m3[w]
  BY <1>2, PutRow DEF row, col
<1> HIDE DEF m1, m2, m3, m4
<1>7. Painted(m4, under, DIVIDER_ROW + mark[1], mark[2])[w] =
        IF row = DIVIDER_ROW + mark[1] /\ col = mark[2] THEN GlyphAt(under, w) ELSE m4[w]
  BY <1>2, <1>3, PaintedCell DEF row, col
<1> DEFINE cell == <<row - DIVIDER_ROW, col>>
<1>8. CASE row \in {INPUT_ROW1, INPUT_ROW2} /\ col \in Columns
  <2>1. /\ cell \in Cells /\ cell[1] = row - DIVIDER_ROW /\ cell[2] = col
        /\ (cell[1] = 1 <=> row = INPUT_ROW1) /\ (cell[1] # 1 => row = INPUT_ROW2)
    BY <1>2, <1>8 DEF Cells
  <2>2. Area(len, pos, visible)[cell] =
          IF cell = mark THEN under
          ELSE IF cell[1] = 1 THEN Line1(len)[cell[2]] ELSE Line2(len)[cell[2]]
    BY <2>1 DEF Area, mark, under
  <2>3. cell = mark <=> row = DIVIDER_ROW + mark[1] /\ col = mark[2]
    BY <1>2, <1>3, <2>1
  <2> HIDE DEF cell
  <2>4. Painted(m4, under, DIVIDER_ROW + mark[1], mark[2])[w] = GlyphAt(Area(len, pos, visible)[cell], w)
    BY <1>2, <1>5, <1>6, <1>7, <1>8, <2>1, <2>2, <2>3
  <2> QED
    BY <1>1, <1>8, <2>4 DEF row, col, cell
<1>9. CASE ~(row \in {INPUT_ROW1, INPUT_ROW2} /\ col \in Columns)
  <2>1. ~(row = DIVIDER_ROW + mark[1] /\ col = mark[2])
    BY <1>2, <1>3, <1>9
  <2> QED
    BY <1>1, <1>4, <1>5, <1>6, <1>7, <1>9, <2>1 DEF row, col
<1> QED
  BY <1>8, <1>9

\* What a word of the screen shows.
Shown(w) == IF LineOf(w) >= 0 /\ RowOf(w) <= INPUT_ROW2 /\ ColOf(w) \in Columns
            THEN GlyphAt(Cell(RowOf(w), ColOf(w)), w)
            ELSE Dark

LEMMA ScreenWords == ScreenRight <=> memory = [w \in Words |-> Shown(w)]
BY DEF ScreenRight, Shown, GlyphAt, LineOf, WordOf, RowOf, ColOf

LEMMA RefreshedWords ==
  ASSUME NEW m, NEW len, NEW pos, NEW visible, NEW n, n = refresh_input_area(m, len, pos, visible)
  PROVE  n = [w \in Words |-> n[w]]
BY DEF refresh_input_area, Painted

LEMMA ScreenStart == ScreenInit => ScreenRight
<1> SUFFICES ASSUME ScreenInit PROVE ScreenRight
  OBVIOUS
<1> DEFINE visible == TRUE
<1>0. /\ area = Area(0, 0, visible) /\ 0 \in 0 .. MaxLen /\ 0 \in 0 .. 0
      /\ memory = refresh_input_area(draw_divider(Cleared), 0, 0, visible)
  BY ColsAssumption DEF ScreenInit, Init, MaxLen, FirstCap
<1> HIDE DEF visible
<1>1. ASSUME NEW w \in Words PROVE memory[w] = Shown(w)
  <2> DEFINE row == RowOf(w)
             col == ColOf(w)
  <2>1. memory[w] = IF row \in {INPUT_ROW1, INPUT_ROW2} /\ col \in Columns
                    THEN GlyphAt(area[<<row - DIVIDER_ROW, col>>], w)
                    ELSE draw_divider(Cleared)[w]
    BY <1>0, Refreshed
  <2>2. draw_divider(Cleared)[w] =
          IF row = DIVIDER_ROW /\ col \in Columns THEN GlyphAt(Dash, w) ELSE Dark
    <3> DEFINE dashes == [z \in Columns |-> Dash]
    <3>1. Row(Dash) = String(dashes) /\ \A z \in Columns : dashes[z] = Dash
      BY Sizes DEF Row, String, Columns
    <3>2. Cleared[w] = Dark /\ DIVIDER_ROW \in Int
      BY Sizes DEF Cleared
    <3> HIDE DEF dashes
    <3> QED
      BY <3>1, <3>2, PutRow DEF draw_divider
  <2>3. /\ row \in Int /\ (LineOf(w) >= 0 <=> row >= 0) /\ DIVIDER_ROW \in Nat
        /\ INPUT_ROW1 = DIVIDER_ROW + 1 /\ INPUT_ROW2 = DIVIDER_ROW + 2
    BY WordPlace, Sizes DEF INPUT_ROW1, INPUT_ROW2
  <2>4. GlyphAt(Blank, w) = Dark
    BY DisplayAssumption DEF GlyphAt, Pixel
  <2>5. Shown(w) = IF LineOf(w) >= 0 /\ row <= INPUT_ROW2 /\ col \in Columns
                   THEN GlyphAt(Cell(row, col), w) ELSE Dark
    BY DEF Shown
  <2> HIDE DEF row, col
  <2>6. CASE row < DIVIDER_ROW
    <3>1. Cell(row, col) = Blank
      BY <2>3, <2>6 DEF Cell
    <3> QED
      BY <2>1, <2>2, <2>3, <2>4, <2>5, <2>6, <3>1
  <2>7. CASE row = DIVIDER_ROW
    <3>1. Cell(row, col) = Dash
      BY <2>3, <2>7 DEF Cell
    <3> QED
      BY <2>1, <2>2, <2>3, <2>5, <2>7, <3>1
  <2>8. CASE row > DIVIDER_ROW
    <3>1. Cell(row, col) = area[<<row - DIVIDER_ROW, col>>]
      BY <2>3, <2>8 DEF Cell
    <3> QED
      BY <2>1, <2>2, <2>3, <2>5, <2>8, <3>1
  <2> QED
    BY <2>3, <2>6, <2>7, <2>8
<1>2. memory = [w \in Words |-> memory[w]]
  BY <1>0, RefreshedWords
<1> QED
  BY <1>1, <1>2, ScreenWords

LEMMA ScreenStep == AreaInv' /\ ScreenRight /\ [ScreenNext]_screenVars => ScreenRight'
<1> SUFFICES ASSUME AreaInv', ScreenRight, [ScreenNext]_screenVars PROVE ScreenRight'
  OBVIOUS
<1>s. (memory' = [w \in Words |-> Shown(w)']) => ScreenRight'
  BY DEF ScreenRight, Shown, GlyphAt, LineOf, WordOf, RowOf, ColOf
<1>m. memory = [w \in Words |-> Shown(w)]
  BY ScreenWords
<1>1. CASE ScreenNext
  <2>1. memory' = refresh_input_area(memory, input_len', cursor_pos', cursor_visible')
    BY <1>1 DEF ScreenNext
  <2>2. /\ input_len' \in 0 .. MaxLen /\ cursor_pos' \in 0 .. input_len'
        /\ area' = Area(input_len', cursor_pos', cursor_visible')
    BY DEF AreaInv
  <2>3. ASSUME NEW w \in Words PROVE memory'[w] = Shown(w)'
    <3> DEFINE row == RowOf(w)
               col == ColOf(w)
    <3>1. memory'[w] = IF row \in {INPUT_ROW1, INPUT_ROW2} /\ col \in Columns
                       THEN GlyphAt(area'[<<row - DIVIDER_ROW, col>>], w)
                       ELSE Shown(w)
      BY <1>m, <2>1, <2>2, Refreshed
    <3>2. /\ row \in Int /\ (LineOf(w) >= 0 <=> row >= 0) /\ DIVIDER_ROW \in Nat
          /\ INPUT_ROW1 = DIVIDER_ROW + 1 /\ INPUT_ROW2 = DIVIDER_ROW + 2
      BY WordPlace, Sizes DEF INPUT_ROW1, INPUT_ROW2
    <3>3. /\ Shown(w) = IF LineOf(w) >= 0 /\ row <= INPUT_ROW2 /\ col \in Columns
                        THEN GlyphAt(Cell(row, col), w) ELSE Dark
          /\ Shown(w)' = IF LineOf(w) >= 0 /\ row <= INPUT_ROW2 /\ col \in Columns
                         THEN GlyphAt(Cell(row, col)', w) ELSE Dark
      BY DEF Shown, GlyphAt, LineOf, WordOf, RowOf, ColOf
    <3> HIDE DEF row, col
    <3>4. CASE row <= DIVIDER_ROW
      <4>1. Cell(row, col)' = Cell(row, col)
        BY <3>2, <3>4 DEF Cell
      <4> QED
        BY <3>1, <3>2, <3>3, <3>4, <4>1
    <3>5. CASE row > DIVIDER_ROW
      <4>1. Cell(row, col)' = area'[<<row - DIVIDER_ROW, col>>]
        BY <3>2, <3>5 DEF Cell
      <4> QED
        BY <3>1, <3>2, <3>3, <3>5, <4>1
    <3> QED
      BY <3>2, <3>4, <3>5
  <2>4. memory' = [w \in Words |-> memory'[w]]
    BY <2>1, RefreshedWords
  <2> QED
    BY <1>s, <2>3, <2>4
<1>2. CASE UNCHANGED screenVars
  BY <1>2 DEF screenVars, vars, ScreenRight, Cell
<1> QED
  BY <1>1, <1>2

\* Whatever the size of the font, the screen and its margins, the words of the
\* framebuffer are those of the glyphs of the cells and of the divider, and no
\* other word is touched (fbputchar.c:70-122, lab2.c:230-242, 323-383).
THEOREM ScreenSafe == ScreenSpec => []ScreenRight
<1>1. ScreenInit => Init
  BY DEF ScreenInit
<1>2. [ScreenNext]_screenVars => [Next]_vars
  BY DEF ScreenNext, screenVars
<1> QED
  BY <1>1, <1>2, AreaInit, AreaNext, ScreenStart, ScreenStep, PTL DEF ScreenSpec

-----------------------------------------------------------------------------
(* The search for the keyboard. *)

LEMMA UpToIsSeq ==
  ASSUME NEW n \in Nat, NEW S, NEW s \in UpTo(n, S)
  PROVE  s \in Seq(S) /\ Len(s) <= n /\ \A j \in 1 .. Len(s) : s[j] \in S
<1>1. PICK m \in 0 .. n : s \in [1 .. m -> S]
  BY DEF UpTo
<1>2. s \in Seq(S) /\ Len(s) = m
  BY <1>1, IsASeq, LenProperties
<1> QED
  BY <1>1, <1>2

LEMMA ConfigShape ==
  ASSUME NEW c \in Configs
  PROVE  /\ Len(c) \in 0 .. MaxInterfaces
         /\ DOMAIN c = 1 .. Len(c)
         /\ \A j \in 1 .. Len(c) : /\ Len(c[j]) \in 0 .. MaxSettings
                                   /\ DOMAIN c[j] = 1 .. Len(c[j])
                                   /\ \A l \in 1 .. Len(c[j]) : c[j][l] \in Settings
<1> DEFINE Interfaces == UpTo(MaxSettings, Settings) \ {<<>>}
<1>0. MaxInterfaces \in Nat /\ MaxSettings \in Nat
  BY SearchAssumption
<1>1. c \in Seq(Interfaces) /\ Len(c) <= MaxInterfaces
      /\ \A j \in 1 .. Len(c) : c[j] \in UpTo(MaxSettings, Settings)
  BY <1>0, UpToIsSeq DEF Configs
<1>2. ASSUME NEW j \in 1 .. Len(c)
      PROVE  Len(c[j]) \in 0 .. MaxSettings /\ DOMAIN c[j] = 1 .. Len(c[j]) /\ \A l \in 1 .. Len(c[j]) : c[j][l] \in Settings
  <2>1. /\ c[j] \in Seq(Settings) /\ Len(c[j]) <= MaxSettings
        /\ \A l \in 1 .. Len(c[j]) : c[j][l] \in Settings
    BY <1>0, <1>1, UpToIsSeq
  <2> QED
    BY <2>1, <1>0, LenProperties
<1>3. Len(c) \in 0 .. MaxInterfaces /\ DOMAIN c = 1 .. Len(c)
  BY <1>0, <1>1, LenProperties
<1> QED
  BY <1>2, <1>3

\* Where each keyboard is.
LEMMA PlacesShape ==
  ASSUME NEW q \in Places
  PROVE  q = <<q[1], q[2], q[3]>> /\ {q[1], q[2], q[3]} \subseteq Nat \ {0}
BY SearchAssumption DEF Places

LEMMA KeyboardPlaces ==
  ASSUME NEW q \in Keyboards
  PROVE  /\ q \in Places
         /\ q[1] \in DOMAIN devs /\ devs[q[1]] # OtherClass
         /\ q[2] \in DOMAIN devs[q[1]] /\ q[3] \in DOMAIN devs[q[1]][q[2]]
         /\ devs[q[1]][q[2]][q[3]] # "other"
BY DEF Keyboards

\* Until a configuration is misread, the search has yet to come to each keyboard.
SearchInv ==
    /\ devs \in UpTo(MaxDevices, Configs \cup {OtherClass})
    /\ phase = "start" => d = 1
    /\ phase = "next device" /\ ~misread =>
          d \in 1 .. Len(devs) + 1 /\ \A q \in Keyboards : d <= q[1]
    /\ phase = "search" /\ ~misread =>
          /\ d \in 1 .. Len(devs) /\ devs[d] # OtherClass /\ config = devs[d]
          /\ i \in 1 .. Len(config) + 1
          /\ k \in Nat /\ k >= 1
          /\ \A q \in Keyboards : NotAfter(<<d, i, k>>, q)

LEMMA DevsShape ==
  ASSUME SearchInv
  PROVE  /\ devs \in Seq(Configs \cup {OtherClass}) /\ Len(devs) \in Nat /\ Len(devs) <= MaxDevices
         /\ \A n \in 1 .. Len(devs) : devs[n] \in Configs \cup {OtherClass}
         /\ DOMAIN devs = 1 .. Len(devs)
<1>1. MaxDevices \in Nat
  BY SearchAssumption
<1>2. /\ devs \in Seq(Configs \cup {OtherClass}) /\ Len(devs) <= MaxDevices
      /\ \A n \in 1 .. Len(devs) : devs[n] \in Configs \cup {OtherClass}
  BY <1>1, UpToIsSeq DEF SearchInv
<1> QED
  BY <1>2, LenProperties

LEMMA NoDevices == <<>> \in UpTo(MaxDevices, Configs \cup {OtherClass})
<1>1. <<>> \in [1 .. 0 -> Configs \cup {OtherClass}] /\ 0 \in 0 .. MaxDevices
  BY SearchAssumption
<1> QED
  BY <1>1 DEF UpTo

\* What is searched.
LEMMA Searched ==
  ASSUME SearchInv, phase = "search", ~misread
  PROVE  /\ Len(config) \in 0 .. MaxInterfaces /\ d \in 1 .. MaxDevices
         /\ \A j \in 1 .. Len(config) : Len(config[j]) \in 0 .. MaxSettings
<1>1. config \in Configs /\ d \in 1 .. Len(devs)
  BY DevsShape DEF SearchInv
<1> QED
  BY <1>1, ConfigShape, DevsShape, SearchAssumption

\* A keyboard in the device that is searched is in its configuration.
LEMMA KeyboardsThere ==
  ASSUME SearchInv, phase = "search", ~misread, NEW q \in Keyboards
  PROVE  /\ {q[1], q[2], q[3]} \subseteq Nat \ {0} /\ NotAfter(<<d, i, k>>, q)
         /\ q[1] = d => /\ q[2] \in 1 .. Len(config) /\ q[3] \in 1 .. Len(config[q[2]])
                        /\ config[q[2]][q[3]] # "other"
<1>1. config \in Configs /\ config = devs[d] /\ NotAfter(<<d, i, k>>, q)
  BY DevsShape DEF SearchInv
<1>2. {q[1], q[2], q[3]} \subseteq Nat \ {0}
  BY KeyboardPlaces, PlacesShape
<1>3. DOMAIN config = 1 .. Len(config) /\ \A j \in 1 .. Len(config) : DOMAIN config[j] = 1 .. Len(config[j])
  BY <1>1, ConfigShape
<1> QED
  BY <1>1, <1>2, <1>3, KeyboardPlaces

LEMMA SearchNext == SearchInv /\ [UsbNext]_usbVars => SearchInv'
<1> SUFFICES ASSUME SearchInv, [UsbNext]_usbVars PROVE SearchInv'
  OBVIOUS
<1>d. devs \in UpTo(MaxDevices, Configs \cup {OtherClass})
  BY DEF SearchInv
<1>1. CASE List
  <2>1. ASSUME NEW q \in Keyboards' PROVE q[1] \in Nat /\ 1 <= q[1]
    <3>1. q \in Places
      BY DEF Keyboards, Places
    <3> QED
      BY <3>1, PlacesShape
  <2>2. devs' \in UpTo(MaxDevices, Configs \cup {OtherClass})
    BY <1>1, <1>d, NoDevices DEF List
  <2>3. Len(devs') \in Nat
    BY <2>2, UpToIsSeq, SearchAssumption
  <2>4. phase' \in {"next device", "exit"} /\ d' = 1
    BY <1>1 DEF List, SearchInv
  <2>5. d' \in 1 .. Len(devs') + 1
    <3>1. d' = 1
      BY <2>4
    <3> QED
      BY <2>3, <3>1
  <2>7. \A q \in Keyboards' : d' <= q[1]
    BY <2>1, <2>4
  <2>6. phase' # "search" /\ phase' # "start"
    BY <2>4
  <2> QED
    BY <2>2, <2>5, <2>6, <2>7 DEF SearchInv
<1>2. CASE Device
  <2>1. UNCHANGED devs /\ Keyboards' = Keyboards /\ phase = "next device" /\ d <= Len(devs)
    BY <1>2 DEF Device, Keyboards, Places
  <2>2. /\ DOMAIN devs = 1 .. Len(devs) /\ Len(devs) \in Nat
        /\ \A n \in 1 .. Len(devs) : devs[n] \in Configs \cup {OtherClass}
    BY DevsShape
  <2>0. ~misread => d \in 1 .. Len(devs) + 1 /\ \A q \in Keyboards : d <= q[1]
    BY <2>1 DEF SearchInv
  <2>3. ~misread => d \in 1 .. Len(devs) /\ \A q \in Keyboards : d <= q[1]
    <3>1. Len(devs) \in Nat /\ d <= Len(devs)
      BY <2>1, <2>2
    <3>2. ASSUME d \in 1 .. Len(devs) + 1 PROVE d \in 1 .. Len(devs)
      BY <3>1, <3>2
    <3> QED
      BY <2>0, <3>2
  <2>4. CASE devs[d] = OtherClass /\ d' = d + 1 /\ UNCHANGED <<phase, misread>>
    <3>1. ASSUME NEW q \in Keyboards, ~misread PROVE d + 1 <= q[1]
      <4>1. q[1] \in Nat /\ q[1] # d
        BY <2>4, KeyboardPlaces, PlacesShape
      <4> QED
        BY <2>2, <2>3, <3>1, <4>1
    <3>2. ~misread' => d' \in 1 .. Len(devs') + 1 /\ \A q \in Keyboards' : d' <= q[1]
      <4>1. ~misread' => ~misread
        BY <2>4
      <4>2. ~misread => d + 1 \in 1 .. Len(devs) + 1
        BY <2>2, <2>3
      <4> QED
        BY <2>1, <2>4, <3>1, <4>1, <4>2
    <3>3. phase' # "search" /\ phase' # "start"
      BY <2>1, <2>4
    <3> QED
      BY <1>d, <2>1, <3>2, <3>3 DEF SearchInv
  <2>5. CASE devs[d] # OtherClass /\ phase' = "search" /\ config' = devs[d] /\ UNCHANGED <<d, misread>>
    <3>1. i' = 1 /\ k' = 1
      BY <1>2 DEF Device
    <3>2. ASSUME NEW q \in Keyboards, ~misread PROVE NotAfter(<<d, 1, 1>>, q)
      <4>1. {q[1], q[2], q[3]} \subseteq Nat \ {0}
        BY KeyboardPlaces, PlacesShape
      <4> QED
        BY <2>2, <2>3, <3>2, <4>1 DEF NotAfter
    <3>3. ~misread => Len(config') \in Nat
      BY <2>2, <2>3, <2>5, ConfigShape
    <3>4. ~misread => \A q \in Keyboards : NotAfter(<<d', i', k'>>, q)
      BY <2>5, <3>1, <3>2
    <3>5. ~misread' => ~misread
      BY <2>5
    <3>6. ~misread' =>
            /\ d' \in 1 .. Len(devs') /\ devs'[d'] # OtherClass /\ config' = devs'[d']
            /\ i' \in 1 .. Len(config') + 1 /\ k' \in Nat /\ k' >= 1
      <4>1. ~misread => 1 \in 1 .. Len(config') + 1 /\ d \in 1 .. Len(devs)
        BY <2>3, <3>3
      <4>2. /\ devs' = devs /\ d' = d /\ config' = devs[d] /\ i' = 1 /\ k' = 1
            /\ devs[d] # OtherClass
        BY <2>1, <2>5, <3>1
      <4>3. 1 \in Nat /\ 1 >= 1
        OBVIOUS
      <4> QED
        BY <3>5, <4>1, <4>2, <4>3
    <3>8. phase' # "next device" /\ phase' # "start"
      BY <2>5
    <3>7. ~misread' => \A q \in Keyboards' : NotAfter(<<d', i', k'>>, q)
      BY <2>1, <3>4, <3>5
    <3> QED
      BY <1>d, <2>1, <3>6, <3>7, <3>8 DEF SearchInv
  <2>6. CASE misread' \/ phase' \in {"exit", "crash"}
    <3>1. phase' # "start"
      BY <1>2, <2>1 DEF Device
    <3>2. CASE misread'
      BY <1>d, <2>1, <3>1, <3>2 DEF SearchInv
    <3>3. CASE phase' \in {"exit", "crash"}
      <4>1. phase' \notin {"start", "search", "next device"}
        BY <3>3
      <4> QED
        BY <1>d, <2>1, <4>1 DEF SearchInv
    <3> QED
      BY <2>6, <3>2, <3>3
  <2> QED
    BY <1>2, <2>4, <2>5, <2>6 DEF Device
<1>3. CASE Pass \/ NextInterface \/ NextDevice
  <2>1. /\ UNCHANGED <<devs, config, misread>> /\ Keyboards' = Keyboards
        /\ phase = "search" /\ phase' # "start"
    BY <1>3 DEF Pass, NextInterface, NextDevice, Looking, Keyboards, Places
  <2>2. CASE misread
    BY <1>d, <2>1, <2>2 DEF SearchInv
  <2>3. CASE ~misread
    <3>1. /\ Len(config) \in Nat /\ d \in 1 .. Len(devs) /\ Len(devs) \in Nat
          /\ \A j \in 1 .. Len(config) : Len(config[j]) \in Nat
      BY <2>1, <2>3, Searched, DevsShape DEF SearchInv
    <3>2. /\ i \in 1 .. Len(config) + 1 /\ k \in Nat /\ k >= 1
          /\ devs[d] # OtherClass /\ config = devs[d]
      BY <2>1, <2>3 DEF SearchInv
    <3>3. CASE Pass
      <4>1. /\ i <= Len(config) /\ k <= Len(config[i]) /\ config[i][k] = "other"
            /\ k' = k + 1 /\ UNCHANGED <<phase, d, i>>
        BY <3>3 DEF Pass, Looking
      <4>2. ASSUME NEW q \in Keyboards PROVE NotAfter(<<d, i, k + 1>>, q)
        <5>1. ~(q[1] = d /\ q[2] = i /\ q[3] = k)
          BY <2>1, <2>3, <4>1, KeyboardsThere
        <5> QED
          BY <2>1, <2>3, <3>1, <3>2, <5>1, KeyboardsThere DEF NotAfter
      <4>3. \A q \in Keyboards : NotAfter(<<d', i', k'>>, q)
        BY <4>1, <4>2
      <4> QED
        BY <1>d, <2>1, <2>3, <3>1, <3>2, <4>1, <4>3 DEF SearchInv, NotAfter
    <3>4. CASE NextInterface
      <4>1. /\ i <= Len(config) /\ k > Len(config[i])
            /\ i' = i + 1 /\ k' = 1 /\ UNCHANGED <<phase, d>>
        BY <3>4 DEF NextInterface
      <4>2. ASSUME NEW q \in Keyboards PROVE NotAfter(<<d, i + 1, 1>>, q)
        <5>1. ~(q[1] = d /\ q[2] = i /\ q[3] >= k)
          BY <2>1, <2>3, <3>1, <3>2, <4>1, KeyboardsThere
        <5> QED
          BY <2>1, <2>3, <3>1, <3>2, <5>1, KeyboardsThere DEF NotAfter
      <4>3. \A q \in Keyboards : NotAfter(<<d', i', k'>>, q)
        BY <4>1, <4>2
      <4>4. i' \in 1 .. Len(config) + 1
        BY <3>1, <3>2, <4>1
      <4> QED
        BY <1>d, <2>1, <2>3, <3>1, <3>2, <4>1, <4>3, <4>4 DEF SearchInv, NotAfter
    <3>5. CASE NextDevice
      <4>1. i > Len(config) /\ phase' = "next device" /\ d' = d + 1
        BY <3>5 DEF NextDevice
      <4>2. ASSUME NEW q \in Keyboards PROVE d + 1 <= q[1]
        <5>1. q[1] # d
          <6>1. /\ {q[1], q[2], q[3]} \subseteq Nat \ {0} /\ NotAfter(<<d, i, k>>, q)
                /\ q[1] = d => q[2] \in 1 .. Len(config)
            BY <2>1, <2>3, KeyboardsThere
          <6>2. ASSUME q[1] = d PROVE FALSE
            <7>0. q[2] \in 1 .. Len(config)
              BY <6>1, <6>2
            <7>1. /\ q[2] \in 1 .. Len(config) /\ d \in Nat /\ q[2] \in Nat /\ q[3] \in Nat
                  /\ Len(config) \in Nat /\ i \in Nat /\ k \in Nat /\ i > Len(config)
              <8>1. d \in Nat /\ Len(config) \in Nat
                BY <3>1
              <8>2. q[2] \in Nat /\ q[3] \in Nat
                BY <6>1
              <8>3. i \in Nat /\ k \in Nat
                BY <3>2, <8>1
              <8> QED
                BY <4>1, <7>0, <8>1, <8>2, <8>3
            <7>2. i <= q[2]
              BY <6>1, <6>2, <7>1 DEF NotAfter
            <7> QED
              BY <7>1, <7>2
          <6> QED
            BY <6>2
        <5> QED
          BY <2>1, <2>3, <3>1, <5>1, KeyboardsThere DEF NotAfter
      <4> QED
        <5>3. d + 1 \in 1 .. Len(devs) + 1
          BY <3>1
        <5>1. d' \in 1 .. Len(devs') + 1 /\ \A q \in Keyboards' : d' <= q[1]
          BY <2>1, <4>1, <4>2, <5>3
        <5>2. phase' # "search" /\ phase' # "start"
          BY <4>1
        <5> QED
          BY <1>d, <2>1, <5>1, <5>2 DEF SearchInv
    <3> QED
      BY <1>3, <3>3, <3>4, <3>5
  <2> QED
    BY <2>2, <2>3
<1>4. CASE NotFound \/ Claim
  <2>1. phase' \notin {"start", "next device", "search"} /\ devs' \in {<<>>, devs}
    BY <1>4 DEF NotFound, Claim, Free
  <2> QED
    BY <1>d, <2>1, NoDevices DEF SearchInv
<1>5. CASE UNCHANGED usbVars
  <2>1. Keyboards' = Keyboards /\ UNCHANGED <<phase, devs, d, i, k, config, misread>>
    BY <1>5 DEF usbVars, Keyboards, Places
  <2> QED
    BY <2>1 DEF SearchInv, NotAfter
<1> QED
  BY <1>1, <1>2, <1>3, <1>4, <1>5 DEF UsbNext

LEMMA UsbStep == [KeyboardNext]_keyboardVars => [UsbNext]_usbVars
BY DEF KeyboardNext, keyboardVars, Discover, Press, Release, Transfer, TransferShort, TransferFails,
   Sent

LEMMA SearchInit == KeyboardInit => SearchInv
BY NoDevices DEF KeyboardInit, UsbInit, SearchInv

\* However many devices there are and however deep their descriptors, the interface
\* that openkeyboard claims is of the first keyboard in the order of the bus, and it
\* gives up only when there is none (usbkeyboard.c:40-82).
THEOREM FirstFound == KeyboardSpec => FirstKeyboard
<1>1. ASSUME SearchInv, [UsbNext]_usbVars
      PROVE  [~misread =>
                /\ phase' = "found" =>
                     <<d, i, k>> \in Keyboards /\ \A q \in Keyboards : NotAfter(<<d, i, k>>, q)
                /\ phase' = "none" => Keyboards = {}]_usbVars
  <2>1. CASE Claim /\ ~misread
    <3>1. /\ phase = "search" /\ i <= Len(config) /\ k <= Len(config[i]) /\ config[i][k] # "other"
          /\ d \in 1 .. Len(devs) /\ devs[d] # OtherClass /\ config = devs[d]
          /\ k \in Nat /\ k >= 1 /\ i \in 1 .. Len(config) + 1
      BY <1>1, <2>1 DEF Claim, Looking, SearchInv
    <3>2. \A q \in Keyboards : NotAfter(<<d, i, k>>, q)
      BY <1>1, <2>1, <3>1 DEF SearchInv
    <3>3. /\ Len(config) \in 0 .. MaxInterfaces /\ d \in 1 .. MaxDevices
          /\ i \in 1 .. Len(config) /\ Len(config[i]) \in 0 .. MaxSettings
      BY <1>1, <2>1, <3>1, Searched
    <3>4. /\ d \in DOMAIN devs /\ DOMAIN config = 1 .. Len(config)
          /\ DOMAIN config[i] = 1 .. Len(config[i])
      <4>1. config \in Configs
        BY <1>1, <3>1, DevsShape
      <4> QED
        BY <1>1, <3>1, <3>3, <4>1, DevsShape, ConfigShape
    <3>5. k \in 1 .. MaxSettings /\ k \in DOMAIN config[i] /\ i \in 1 .. MaxInterfaces
      BY <3>1, <3>3, <3>4, SearchAssumption
    <3>6. <<d, i, k>> \in Keyboards
      BY <3>1, <3>3, <3>4, <3>5 DEF Keyboards, Places
    <3>7. phase' # "none"
      BY <2>1 DEF Claim
    <3> QED
      BY <3>2, <3>6, <3>7
  <2>2. CASE NotFound /\ ~misread
    <3>1. ASSUME NEW q \in Keyboards PROVE FALSE
      <4>1. Len(devs) \in Nat /\ DOMAIN devs = 1 .. Len(devs)
        BY <1>1, DevsShape
      <4>2. phase = "next device" /\ d > Len(devs)
        BY <2>2 DEF NotFound
      <4>3. d \in 1 .. Len(devs) + 1 /\ \A p \in Keyboards : d <= p[1]
        BY <1>1, <2>2, <4>2 DEF SearchInv
      <4> QED
        <5>1. q[1] \in 1 .. Len(devs) /\ d <= q[1]
          BY <4>1, <4>3, KeyboardPlaces
        <5>2. d > Len(devs) /\ Len(devs) \in Nat /\ d \in 1 .. Len(devs) + 1
          BY <4>1, <4>2, <4>3
        <5> QED
          BY <5>1, <5>2
    <3> QED
      BY <2>2, <3>1 DEF NotFound
  <2>3. CASE List \/ Device \/ Pass \/ NextInterface \/ NextDevice
    BY <2>3 DEF List, Device, Pass, NextInterface, NextDevice, Looking
  <2> QED
    BY <1>1, <2>1, <2>2, <2>3 DEF UsbNext
<1> QED
  BY <1>1, SearchInit, SearchNext, UsbStep, PTL DEF KeyboardSpec, FirstKeyboard
-----------------------------------------------------------------------------
(* The keys that are taken. *)

\* After a full report main remembers the key that it would handle again when a
\* transfer fails.
KeyInv ==
    /\ phase # "found" => transferred = "unset"
    /\ transferred = "full" /\ endpoint_address = "in" /\ ~quit => kc = last_kc

\* Of the keys held only the first may have been taken since the last press, and main
\* remembers it.
FrontTaken ==
    \A c \in recent \cap held : c = front /\ c = last_kc /\ ~TooMany

HeldInv ==
    /\ IsFiniteSet(held) /\ front \in held \cup {None}
    /\ ~garbage => FrontTaken

LEMMA KeyInit == KeyboardInit => KeyInv /\ HeldInv
BY FS_EmptySet DEF KeyboardInit, KeyInv, HeldInv, FrontTaken

\* What Handle leaves of the filter.
LEMMA HandleStep ==
  ASSUME NEW c, Handle(c)
  PROVE  /\ c # Esc => last_kc' = c
         /\ c = Esc \/ c = last_kc => UNCHANGED <<last_kc, recent>>
         /\ recent' \subseteq recent \cup (Codes \cap {c})
         /\ quit' \/ last_kc' = c
<1>1. CASE c = Esc
  BY <1>1 DEF Handle, history
<1>2. CASE c # Esc
  BY <1>2 DEF Handle, Filter, Remember
<1> QED
  BY <1>1, <1>2

LEMMA KeyNext == KeyInv /\ [KeyboardNext]_keyboardVars => KeyInv'
<1> SUFFICES ASSUME KeyInv, [KeyboardNext]_keyboardVars PROVE KeyInv'
  OBVIOUS
<1> USE DEF KeyInv
<1>1. CASE Discover
  <2>1. UNCHANGED keyVars /\ phase # "found"
    BY <1>1 DEF Discover, UsbNext, List, Device, NotFound, Pass, NextInterface, NextDevice, Claim, Looking
  <2> QED
    BY <2>1 DEF keyVars
<1>2. CASE \E c \in Codes : Press(c) \/ Release(c)
  BY <1>2 DEF Press, Release, usbVars
<1>3. CASE Transfer
  <2>1. phase = "found" /\ kc' = First /\ Handle(First) /\ UNCHANGED phase
    BY <1>3 DEF Transfer, Running, usbVars
  <2>2. quit' \/ last_kc' = kc'
    BY <2>1, HandleStep
  <2> QED
    BY <2>1, <2>2
<1>4. CASE TransferShort
  BY <1>4 DEF TransferShort, Running, usbVars
<1>5. CASE TransferFails
  <2>1. phase = "found" /\ ~quit /\ UNCHANGED <<kc, transferred, phase, endpoint_address>>
    BY <1>5 DEF TransferFails, Running, usbVars
  <2>2. CASE Handle(kc)
    <3>1. quit' \/ last_kc' = kc
      BY <2>2, HandleStep
    <3> QED
      BY <2>1, <3>1
  <2>3. CASE transferred = "full" => endpoint_address = "out"
    BY <2>1, <2>3
  <2> QED
    BY <1>5, <2>2, <2>3 DEF TransferFails
<1>6. CASE Sent
  BY <1>6 DEF Sent, Running, usbVars
<1>7. CASE UNCHANGED keyboardVars
  BY <1>7 DEF keyboardVars, keyVars, usbVars
<1> QED
  BY <1>1, <1>2, <1>3, <1>4, <1>5, <1>6, <1>7 DEF KeyboardNext

\* Behind a report a failing transfer leaves the filter as it was.
LEMMA FailureStep ==
  ASSUME KeyInv, TransferFails, transferred # "unset", endpoint_address = "in"
  PROVE  UNCHANGED <<last_kc, recent, garbage>>
<1>1. CASE transferred = "full" /\ Handle(kc) /\ UNCHANGED garbage
  <2>1. kc = last_kc
    BY <1>1 DEF KeyInv, TransferFails, Running
  <2> QED
    BY <1>1, <2>1, HandleStep
<1> QED
  BY <1>1 DEF TransferFails, history

\* Whatever keys were pressed, a transfer that fails after a report types nothing:
\* the key main handles again is the one it remembers (lab2.c:150-163).
THEOREM FailuresSafe == KeyboardSpec => FailureTypesNothing
<1>1. KeyInv => [TransferFails /\ transferred # "unset" /\ endpoint_address = "in"
                    => \A c \in Codes : ~Takes(c)]_keyboardVars
  BY FailureStep DEF Takes
<1> QED
  BY <1>1, KeyInit, KeyNext, PTL DEF KeyboardSpec, FailureTypesNothing

\* A step of the keyboard's or of main's, unless it reads nobody's packet.
LEMMA KeyStepCases ==
  ASSUME KeyInv, [KeyboardNext]_keyboardVars, ~garbage'
  PROVE  /\ ~garbage
         /\ \/ UNCHANGED <<keys, last_kc, recent>>
            \/ \E c \in Codes : Press(c) \/ Release(c)
            \/ Transfer
<1>1. CASE Discover \/ TransferShort \/ UNCHANGED keyboardVars
  BY <1>1 DEF Discover, TransferShort, keyboardVars, keyVars, history
<1>2. CASE TransferFails
  <2>1. ~Garbage
    BY DEF Garbage
  <2>2. CASE transferred = "full" /\ endpoint_address = "in"
    BY <1>2, <2>2, FailureStep DEF TransferFails
  <2>3. CASE UNCHANGED <<last_kc, quit, history, garbage>>
    BY <1>2, <2>3 DEF TransferFails, history
  <2> QED
    BY <1>2, <2>1, <2>2, <2>3 DEF TransferFails
<1>3. CASE Transfer
  BY <1>3 DEF Transfer
<1>4. CASE \E c \in Codes : Press(c) \/ Release(c)
  BY <1>4 DEF Press, Release
<1>5. CASE Sent
  BY <1>5 DEF Sent, Garbage
<1> QED
  BY <1>1, <1>2, <1>3, <1>4, <1>5 DEF KeyboardNext

LEMMA HeldFinite ==
  ASSUME IsFiniteSet(held), front \in held \cup {None}, [KeyboardNext]_keyboardVars
  PROVE  IsFiniteSet(held') /\ (front \in held \cup {None})'
<1>1. CASE \E c \in Codes : Press(c)
  <2>1. PICK c \in Codes : held' = held \cup {c} /\ front' \in held'
    BY <1>1 DEF Press
  <2> QED
    BY <2>1, FS_AddElement
<1>2. CASE \E c \in Codes : Release(c)
  <2>1. PICK c \in Codes : Release(c)
    BY <1>2
  <2>2. held' = held \ {c} /\ IsFiniteSet(held')
    BY <2>1, FS_RemoveElement DEF Release
  <2>3. front' = None \/ front' \in held' \/ (front' = front /\ c # front)
    BY <2>1 DEF Release
  <2> QED
    BY <2>2, <2>3
<1>3. CASE Discover \/ Transfer \/ TransferShort \/ TransferFails \/ Sent \/ UNCHANGED keyboardVars
  BY <1>3 DEF Discover, Transfer, TransferShort, TransferFails, Sent, keyboardVars, keyVars, keys
<1> QED
  BY <1>1, <1>2, <1>3 DEF KeyboardNext

LEMMA HeldNext == KeyInv /\ HeldInv /\ [KeyboardNext]_keyboardVars => HeldInv'
<1> SUFFICES ASSUME KeyInv, HeldInv, [KeyboardNext]_keyboardVars, ~garbage' PROVE FrontTaken'
  BY HeldFinite DEF HeldInv
<1>0. FrontTaken /\ IsFiniteSet(held) /\ front \in held \cup {None}
  BY KeyStepCases DEF HeldInv
<1>1. CASE UNCHANGED <<keys, last_kc, recent>>
  BY <1>0, <1>1 DEF FrontTaken, TooMany, keys
<1>2. CASE \E c \in Codes : Press(c)
  BY <1>2 DEF Press, FrontTaken
<1>3. ASSUME NEW c \in Codes, Release(c) PROVE FrontTaken'
  <2>1. /\ held' = held \ {c} /\ UNCHANGED <<last_kc, recent>>
        /\ front' \in IF held' = {} THEN {None} ELSE IF c = front \/ TooMany THEN held' ELSE {front}
    BY <1>3 DEF Release, history
  <2>2. Cardinality(held') <= Cardinality(held)
    BY <1>0, <2>1, FS_Subset
  <2>3. ~TooMany => ~TooMany'
    BY <1>0, <2>1, <2>2, FS_CardinalityType, FS_RemoveElement, SlotsAssumption DEF TooMany
  <2>4. ASSUME NEW x \in (recent \cap held)' PROVE x = front' /\ x = last_kc' /\ ~TooMany'
    <3>1. x \in recent \cap held /\ x # c /\ held' # {}
      BY <2>1, <2>4
    <3>2. x = front /\ x = last_kc /\ ~TooMany
      BY <1>0, <3>1 DEF FrontTaken
    <3> QED
      BY <2>1, <2>3, <3>1, <3>2
  <2> QED
    BY <2>4 DEF FrontTaken
<1>4. CASE Transfer
  <2>1. UNCHANGED keys /\ Handle(First)
    BY <1>4 DEF Transfer
  <2>2. UNCHANGED <<held, front>> /\ (TooMany' <=> TooMany)
    BY <2>1 DEF keys, TooMany
  <2>3. CASE TooMany
    <3>1. First = RollOver /\ RollOver \notin Codes
      BY <2>3, CodesAssumption DEF First
    <3>2. recent' \subseteq recent
      BY <2>1, <3>1, HandleStep
    <3> QED
      BY <1>0, <2>2, <2>3, <3>2 DEF FrontTaken
  <2>4. CASE ~TooMany
    <3>1. First = front
      BY <2>4 DEF First
    <3>2. \/ UNCHANGED <<last_kc, recent>>
          \/ last_kc' = front /\ recent' \subseteq recent \cup {front}
      BY <2>1, <3>1, HandleStep
    <3> QED
      BY <1>0, <2>2, <2>4, <3>2 DEF FrontTaken
  <2> QED
    BY <2>3, <2>4
<1> QED
  BY <1>1, <1>2, <1>3, <1>4, KeyStepCases

\* However many keys there are, and whichever of those held the keyboard puts first,
\* no key is taken twice without a new press in between (lab2.c:148-163, 441-459).
THEOREM OnceSafe == KeyboardSpec => OncePerPress
<1>1. ASSUME KeyInv, HeldInv, [KeyboardNext]_keyboardVars, ~garbage', NEW c \in recent
      PROVE  ~Takes(c)
  <2>1. FrontTaken /\ front \in held \cup {None}
    BY <1>1, KeyStepCases DEF HeldInv
  <2>2. CASE UNCHANGED last_kc
    BY <2>2 DEF Takes
  <2>3. CASE Transfer
    <3> SUFFICES ASSUME Takes(c) PROVE FALSE
      OBVIOUS
    <3>1. last_kc' = First
      BY <2>3, HandleStep DEF Transfer, Takes
    <3>2. c = front /\ c \in held
      BY <2>1, <3>1, CodesAssumption DEF First, Takes
    <3> QED
      BY <2>1, <3>2 DEF FrontTaken, Takes
  <2> QED
    BY <1>1, <2>2, <2>3, KeyStepCases DEF Press, Release
<1>2. KeyInv /\ HeldInv /\ [KeyboardNext]_keyboardVars
         => (KeyInv /\ HeldInv)' /\ [\A c \in recent : ~garbage' => ~Takes(c)]_keyboardVars
  BY <1>1, KeyNext, HeldNext
<1> QED
  BY <1>2, KeyInit, PTL DEF KeyboardSpec, OncePerPress
=============================================================================
