------------------------------- MODULE VgaBall -------------------------------
(***************************************************************************)
(* The VGA peripheral of lab 3, module vga_ball of                         *)
(* src/lab3/lab3-hw/vga_ball.sv: the raster of VgaCounters, the two        *)
(* registers that the bus writes at any clock, also while the beam is in   *)
(* the picture, and the test that makes a pixel white, which is computed   *)
(* in numbers of a few bits.                                               *)
(***************************************************************************)
EXTENDS VgaCounters

CONSTANT Data   \* what the bus writes

ASSUME DataAssumption == Data \subseteq Nat

VARIABLES ball_x, ball_y

vars == <<counters, ball_x, ball_y>>

-----------------------------------------------------------------------------
(* The pixel under the beam. *)

\* v in n bits with a sign; Half is 2^(n-1).
Signed(v, Half) == ((v + Half) % (2 * Half)) - Half

hpixel == (hcount \div 2) % 1024   \* hcount[10:1]
vpixel == vcount % 512             \* vcount[8:0]

\* Two signed numbers of eleven bits, whose squares are added in twenty-two.  The
\* variant forgets that they are signed.
Squares(a, b) == a * a + b * b
Low22(n)      == n % 4194304

dxNot == (hpixel - ball_x) % 2048
dx    == Signed(hpixel - ball_x, 1024)
dy    == Signed(vpixel - ball_y, 1024)
dist2 == Low22(Squares(dx, dy))

RADIUS == 16
R2     == RADIUS * RADIUS

White == VGA_BLANK_n /\ dist2 <= R2

-----------------------------------------------------------------------------

Init == hcount = 0 /\ vcount = 0 /\ ball_x = 320 /\ ball_y = 240

\* One of the two addresses, any other, or no write; ten and nine bits are kept.
Bus ==
    \/ \E d \in Data : ball_x' = d % 1024 /\ UNCHANGED ball_y
    \/ \E d \in Data : ball_y' = d % 512 /\ UNCHANGED ball_x
    \/ UNCHANGED <<ball_x, ball_y>>

Clock == Tick /\ Bus

\* The registers wait for a clock to be reset; a pulse between two misses them.
Reset ==
    /\ Clear
    /\ (ball_x' = 320 /\ ball_y' = 240) \/ UNCHANGED <<ball_x, ball_y>>

Next == Clock \/ Reset

Spec == Init /\ [][Next]_vars

-----------------------------------------------------------------------------
(* What must hold. *)

TypeOK == CountersTypeOK /\ ball_x \in 0 .. 1023 /\ ball_y \in 0 .. 511

\* "center x coordinate, [0, 639]", "center y coordinate, [0, 479]"
\* (vga_ball.sv:26-27): wherever the bus puts the ball, also outside those ranges,
\* what is white is the part of the disc round it that lies in the picture.  No
\* difference, square or sum of its few bits wraps round into a second disc, and
\* the rows past 511, of which only nine bits are looked at, show none
\* (vga_ball.sv:43-58).
DiscRight ==
    White <=>
        /\ hcount < HACTIVE /\ vcount < VACTIVE
        /\ Squares(hcount \div 2 - ball_x, vcount - ball_y) <= R2
=============================================================================
