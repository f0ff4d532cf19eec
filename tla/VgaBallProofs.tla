---------------------------- MODULE VgaBallProofs ----------------------------
(* The decodes are right for every length of a line, and what is white is the disc, *)
(* for every length of a line and all that the bus can write.                       *)
EXTENDS VgaBall, TLAPS

\* Multiplication is monotonic.
LEMMA Times ==
  ASSUME NEW a \in Nat, NEW b \in Nat, a <= b, NEW u \in Nat
  PROVE  a * u <= b * u
<1>1. PICK c \in Nat : b = a + c
  <2>1. b - a \in Nat /\ b = a + (b - a)
    OBVIOUS
  <2> QED
    BY <2>1
<1>2. b * u = a * u + c * u /\ c * u \in Nat
  BY <1>1
<1> QED
  BY <1>2

\* Where hcount is, in units, is what Column says.
LEMMA ColumnBelow ==
  ASSUME hcount \in Nat, NEW k \in Nat
  PROVE  Column \in Nat /\ (Column < k <=> hcount < k * Unit)
<1> DEFINE u == Unit
           c == Column
<1>1. u \in Nat \ {0}
  BY UnitAssumption
<1>2. c \in Nat /\ c * u <= hcount /\ hcount < (c + 1) * u
  BY <1>1 DEF Column
<1> HIDE DEF u, c
<1>3. c < k => hcount < k * u
  <2> SUFFICES ASSUME c < k PROVE hcount < k * u
    OBVIOUS
  <2>1. c + 1 <= k
    BY <1>2
  <2>2. (c + 1) * u <= k * u
    BY <1>1, <1>2, <2>1, Times
  <2>3. (c + 1) * u \in Nat /\ k * u \in Nat
    BY <1>1, <1>2
  <2> QED
    BY <1>2, <2>2, <2>3
<1>4. ~(c < k) => ~(hcount < k * u)
  <2> SUFFICES ASSUME ~(c < k) PROVE ~(hcount < k * u)
    OBVIOUS
  <2>1. k * u <= c * u
    BY <1>1, <1>2, Times
  <2>2. c * u \in Nat /\ k * u \in Nat
    BY <1>1, <1>2
  <2> QED
    BY <1>2, <2>1, <2>2
<1> QED
  BY <1>2, <1>3, <1>4 DEF u, c

\* The columns at which something changes.
LEMMA Columns ==
  ASSUME CountersTypeOK
  PROVE  /\ Column \in 0 .. 49
         /\ Column < 40 <=> hcount < HACTIVE
         /\ Column < 41 <=> hcount < HACTIVE + HFRONT_PORCH
         /\ Column < 47 <=> hcount < HTOTAL - HBACK_PORCH
<1> USE UnitAssumption
<1>1. hcount \in Nat /\ hcount < 50 * Unit
  BY DEF CountersTypeOK, HTOTAL, HACTIVE, HFRONT_PORCH, HSYNC, HBACK_PORCH
<1>2. Column \in Nat /\ Column < 50
  BY <1>1, ColumnBelow
<1>3. Column < 40 <=> hcount < 40 * Unit
  BY <1>1, ColumnBelow
<1>4. Column < 41 <=> hcount < 41 * Unit
  BY <1>1, ColumnBelow
<1>5. Column < 47 <=> hcount < 47 * Unit
  BY <1>1, ColumnBelow
<1> QED
  BY <1>2, <1>3, <1>4, <1>5 DEF HTOTAL, HACTIVE, HFRONT_PORCH, HSYNC, HBACK_PORCH

LEMMA TypeInit == Init => TypeOK
  BY UnitAssumption DEF Init, TypeOK, CountersTypeOK, HTOTAL, HACTIVE, HFRONT_PORCH, HSYNC,
     HBACK_PORCH, VTOTAL, VACTIVE, VFRONT_PORCH, VSYNC, VBACK_PORCH

LEMMA TickNext == CountersTypeOK /\ Tick => CountersTypeOK'
<1> SUFFICES ASSUME CountersTypeOK, Tick PROVE CountersTypeOK'
  OBVIOUS
<1> USE UnitAssumption DEF CountersTypeOK, HTOTAL, HACTIVE, HFRONT_PORCH, HSYNC, HBACK_PORCH,
        VTOTAL, VACTIVE, VFRONT_PORCH, VSYNC, VBACK_PORCH
<1>1. hcount' \in 0 .. HTOTAL - 1
  <2>1. CASE EndOfLine
    BY <2>1 DEF Tick
  <2>2. CASE ~EndOfLine
    <3>1. hcount + 1 \in 0 .. HTOTAL - 1 /\ hcount + 1 < HValues
      BY <2>2 DEF EndOfLine, HValues
    <3>2. HValues \in Nat \ {0} /\ (hcount + 1) % HValues = hcount + 1
      BY <3>1 DEF HValues
    <3> QED
      BY <2>2, <3>1, <3>2 DEF Tick
  <2> QED
    BY <2>1, <2>2
<1>2. vcount' \in 0 .. VTOTAL - 1
  BY DEF Tick, EndOfField, VValues
<1> QED
  BY <1>1, <1>2

LEMMA TypeNext == TypeOK /\ [Next]_vars => TypeOK'
<1> SUFFICES ASSUME TypeOK, [Next]_vars PROVE TypeOK'
  OBVIOUS
<1>1. CASE Clock
  <2>1. CountersTypeOK'
    BY <1>1, TickNext DEF Clock, TypeOK
  <2>2. ASSUME NEW d \in Data PROVE d % 1024 \in 0 .. 1023 /\ d % 512 \in 0 .. 511
    <3>1. d \in Nat
      BY DataAssumption
    <3> QED
      BY <3>1
  <2>3. ball_x' \in 0 .. 1023 /\ ball_y' \in 0 .. 511
    BY <1>1, <2>2 DEF Clock, Bus, TypeOK
  <2> QED
    BY <2>1, <2>3 DEF TypeOK
<1>2. CASE Reset
  <2>1. CountersTypeOK'
    BY <1>2, UnitAssumption DEF Reset, Clear, CountersTypeOK, HTOTAL, HACTIVE, HFRONT_PORCH,
       HSYNC, HBACK_PORCH, VTOTAL, VACTIVE, VFRONT_PORCH, VSYNC, VBACK_PORCH
  <2> QED
    BY <1>2, <2>1 DEF Reset, TypeOK
<1>3. CASE UNCHANGED vars
  BY <1>3 DEF vars, counters, TypeOK, CountersTypeOK
<1> QED
  BY <1>1, <1>2, <1>3 DEF Next

LEMMA TypeAlways == Spec => []TypeOK
  BY TypeInit, TypeNext, PTL DEF Spec

-----------------------------------------------------------------------------

LEMMA ActiveWhere == CountersTypeOK => ActiveRight
<1> SUFFICES ASSUME CountersTypeOK PROVE ActiveRight
  OBVIOUS
<1>1. HBlank <=> ~(hcount < HACTIVE)
  BY Columns DEF HBlank
<1>2. VBlank <=> ~(vcount < VACTIVE)
  BY DEF CountersTypeOK, VBlank, VTOTAL, VACTIVE, VFRONT_PORCH, VSYNC, VBACK_PORCH
<1> QED
  BY <1>1, <1>2 DEF ActiveRight, VGA_BLANK_n

\* The picture is shown whole and nothing else is (vga_ball.sv:126-130).
THEOREM ActiveSafe == Spec => []ActiveRight
<1>1. TypeOK => ActiveRight
  BY ActiveWhere DEF TypeOK
<1> QED
  BY <1>1, TypeAlways, PTL

\* The sync pulses keep clear of the picture and of the back porches
\* (vga_ball.sv:118-122).
THEOREM SyncSafe == Spec => []SyncsRight
<1>1. TypeOK => SyncsRight
  <2> SUFFICES ASSUME CountersTypeOK PROVE SyncsRight
    BY DEF TypeOK
  <2>1. ~VGA_HS <=> Column \in 40 .. 46
    BY Columns DEF VGA_HS
  <2>2. hcount \in Nat /\ HACTIVE \in Nat /\ HACTIVE + HFRONT_PORCH \in Nat
        /\ HTOTAL - HBACK_PORCH \in Nat
    BY UnitAssumption DEF CountersTypeOK, HTOTAL, HACTIVE, HFRONT_PORCH, HSYNC, HBACK_PORCH
  <2>3. ~VGA_VS <=> vcount \in VACTIVE + VFRONT_PORCH .. VTOTAL - VBACK_PORCH - 1
    BY DEF CountersTypeOK, VGA_VS, VTOTAL, VACTIVE, VFRONT_PORCH, VSYNC, VBACK_PORCH
  <2> QED
    BY <2>1, <2>2, <2>3, Columns DEF SyncsRight
<1> QED
  BY <1>1, TypeAlways, PTL

-----------------------------------------------------------------------------

\* Eleven bits hold a difference.
LEMMA SignedFits == ASSUME NEW v \in -1024 .. 1023 PROVE Signed(v, 1024) = v
  BY SMT DEF Signed

\* So do twenty-two the sum of two squares.
LEMMA SquaresFit ==
  ASSUME NEW v \in Int, -1023 <= v, v <= 1023,
         NEW w \in Int, -511 <= w, w <= 511
  PROVE  Low22(Squares(v, w)) = Squares(v, w)
<1> DEFINE a == v * v
           b == w * w
<1>1. a \in Nat /\ a <= 1046529 /\ b \in Nat /\ b <= 261121
  BY SMT
<1> HIDE DEF a, b
<1>2. (a + b) % 4194304 = a + b
  BY <1>1, SMT
<1> QED
  BY <1>2 DEF a, b, Squares, Low22

\* White is the disc, whatever its centre: eleven bits hold the differences and
\* twenty-two the sum of the squares (vga_ball.sv:43-58).
THEOREM DiscSafe == Spec => []DiscRight
<1>1. TypeOK => DiscRight
  <2> SUFFICES ASSUME TypeOK PROVE DiscRight
    OBVIOUS
  <2> DEFINE x == hcount \div 2 - ball_x
             y == vcount - ball_y
             inPicture == hcount < HACTIVE /\ vcount < VACTIVE
  <2>1. VGA_BLANK_n <=> inPicture
    BY ActiveWhere DEF TypeOK, ActiveRight
  <2>2. ASSUME inPicture PROVE dist2 = Squares(x, y)
    <3>1. hcount \in 0 .. 1279 /\ vcount \in 0 .. 479
      BY <2>2, UnitAssumption DEF TypeOK, CountersTypeOK, HACTIVE, VACTIVE, HTOTAL, VTOTAL
    <3>2. hpixel = hcount \div 2 /\ hpixel \in 0 .. 639 /\ vpixel = vcount
      BY <3>1 DEF hpixel, vpixel
    <3>3. x \in -1023 .. 1023 /\ y \in -511 .. 511
      BY <3>1, <3>2, SMT DEF TypeOK
    <3>4. dx = x /\ dy = y
      BY <3>2, <3>3, SignedFits, SMT DEF dx, dy
    <3> HIDE DEF x, y
    <3> QED
      <4>1. Low22(Squares(x, y)) = Squares(x, y)
        <5>1. /\ x \in Int /\ -1023 <= x /\ x <= 1023
              /\ y \in Int /\ -511 <= y /\ y <= 511
          BY <3>3
        <5> QED
          BY <5>1, SquaresFit
      <4> QED
        BY <3>4, <4>1 DEF dist2
  <2> QED
    BY <2>1, <2>2 DEF DiscRight, White
<1> QED
  BY <1>1, TypeAlways, PTL
=============================================================================
