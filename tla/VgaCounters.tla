----------------------------- MODULE VgaCounters -----------------------------
(***************************************************************************)
(* The raster of the VGA peripheral: vga_counters of                       *)
(* src/lab3/lab3-hw/vga_ball.sv.  Two counters follow the beam, and the    *)
(* sync and blank signals are decoded from some of their bits.  All that   *)
(* the horizontal decodes look at is hcount[10:5]; Unit is what the bits   *)
(* below count, and every horizontal length is a multiple of it, so that a *)
(* small Unit gives short lines with the same decodes.                     *)
(***************************************************************************)
EXTENDS Integers

CONSTANT Unit   \* 32 in the code

ASSUME UnitAssumption == Unit \in 1 .. 32

HACTIVE      == 40 * Unit
HFRONT_PORCH == 1 * Unit
HSYNC        == 6 * Unit
HBACK_PORCH  == 3 * Unit
HTOTAL       == HACTIVE + HFRONT_PORCH + HSYNC + HBACK_PORCH

VACTIVE      == 480
VFRONT_PORCH == 10
VSYNC        == 2
VBACK_PORCH  == 33
VTOTAL       == VACTIVE + VFRONT_PORCH + VSYNC + VBACK_PORCH

HValues == 64 * Unit   \* the values of hcount
VValues == 1024        \* those of vcount

VARIABLES hcount, vcount

counters == <<hcount, vcount>>

-----------------------------------------------------------------------------
(* The decodes. *)

\* hcount[10:5].
Column == hcount \div Unit

\* The variant forgets the second part, and is low up to the next line.
VGA_HSNot == Column \div 8 # 5
VGA_HS == ~(Column \div 8 = 5 /\ Column % 8 # 7)

VGA_VS == vcount \div 2 # (VACTIVE + VFRONT_PORCH) \div 2

\* hcount[10] and one of the two bits below it; vcount[9], or vcount[8:5] all
\* ones.  The variant takes hcount[8] only for the horizontal part.
HBlankNot == Column \div 32 = 1 /\ (Column \div 8) % 2 = 1
HBlank    == Column \div 32 = 1 /\ ((Column \div 16) % 2 = 1 \/ (Column \div 8) % 2 = 1)

VBlank == vcount \div 512 = 1 \/ (vcount \div 32) % 16 = 15

VGA_BLANK_n == ~HBlank /\ ~VBlank

-----------------------------------------------------------------------------
(* The counters. *)

EndOfLine  == hcount = HTOTAL - 1
EndOfField == vcount = VTOTAL - 1

Tick ==
    /\ hcount' = IF EndOfLine THEN 0 ELSE (hcount + 1) % HValues
    /\ vcount' = IF ~EndOfLine THEN vcount
                 ELSE IF EndOfField THEN 0
                 ELSE (vcount + 1) % VValues

\* Reset, which waits for no clock.
Clear == hcount' = 0 /\ vcount' = 0

-----------------------------------------------------------------------------
(* What must hold. *)

CountersTypeOK == hcount \in 0 .. HTOTAL - 1 /\ vcount \in 0 .. VTOTAL - 1

\* The bit tests blank exactly what is outside the picture (vga_ball.sv:126-130).
ActiveRight == VGA_BLANK_n <=> hcount < HACTIVE /\ vcount < VACTIVE

\* The horizontal sync covers its place, and leaves the picture and the whole back
\* porch alone; the vertical sync is the lines between the porches, whole
\* (vga_ball.sv:76-97, 118-122).
SyncsRight ==
    /\ hcount \in HACTIVE + HFRONT_PORCH .. HTOTAL - HBACK_PORCH - 1 => ~VGA_HS
    /\ ~VGA_HS => hcount \in HACTIVE .. HTOTAL - HBACK_PORCH - 1
    /\ ~VGA_VS <=> vcount \in VACTIVE + VFRONT_PORCH .. VTOTAL - VBACK_PORCH - 1
=============================================================================
