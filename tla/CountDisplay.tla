---------------------------- MODULE CountDisplay ----------------------------
(***************************************************************************)
(* The top of lab 1 around the range (src/lab1/lab1.sv): KEY[3] starts it, *)
(* the switches give its first number, an offset picks one of its counts,  *)
(* which is shown beside the number, and the display blinks when it is     *)
(* done.  The clock is Range's.  inc and dec stand for the pulses of       *)
(* KEY[0] and KEY[1] and clear for a press of KEY[2]: KeyRepeat and        *)
(* Debounce have where those come from, and here they may come at any      *)
(* edge.                                                                   *)
(***************************************************************************)
EXTENDS Range, Hex7Seg

CONSTANTS
    Switches,                \* a bound: the values of SW
    DisplayMod,              \* 2^12: three digits of a count
    BLINK_TOGGLE_CYCLES,
    BLINK_DURATION_CYCLES

\* A word of the memory can be asked for, and the sum of switches and offset fits.
ASSUME TopAssumption ==
    /\ Switches \subseteq 0 .. Modulus - RamWords
    /\ Switches \cup Addrs \subseteq Starts
    /\ DisplayMod \in 1 .. 4096
    /\ BLINK_TOGGLE_CYCLES \in Nat \ {0} /\ BLINK_DURATION_CYCLES \in Nat \ {0}

VARIABLES
    key_db, key_prev,       \* KEY[3], TRUE when it is up, and an edge ago
    base_n, offset,
    range_ready, k_display,
    blink_active, blink_phase, blink_tcnt, blink_dcnt,
    steady                  \* history: edges, to two, that ready, SW and offset have stayed

blink   == <<blink_active, blink_phase, blink_tcnt, blink_dcnt>>
topVars == <<vars, key_db, key_prev, base_n, offset, range_ready, k_display, blink, steady>>

\* go and start of the range, and the n that is displayed.
Go     == key_prev /\ ~key_db
ShownN == base_n + offset

\* The variant asks for the number itself.
StartWordNot == IF Go THEN base_n ELSE IF range_ready THEN ShownN ELSE 0
StartWord    == IF Go THEN base_n ELSE IF range_ready THEN offset ELSE 0

-----------------------------------------------------------------------------
(* The registers, one block of the source each. *)

\* With both pulses, dec is the later assignment; each stops at its end.
Offset(inc, dec, clear) ==
    offset' = IF Go \/ clear THEN 0
              ELSE IF dec /\ offset # 0 THEN offset - 1
              ELSE IF inc /\ offset # RamWords - 1 THEN offset + 1
              ELSE offset

\* The variants test done first, and go as long as the key is down.
ReadyDoneFirst == range_ready' = (done \/ (~Go /\ range_ready))
ReadyLevel     == range_ready' = (key_db /\ (done \/ range_ready))
Ready          == range_ready' = (~Go /\ (done \/ range_ready))

Display ==
    k_display' = IF range_ready /\ ShownN # 0 THEN count % DisplayMod ELSE 0

SetBlink(active, phase, tcnt, dcnt) ==
    /\ blink_active' = active /\ blink_phase' = phase
    /\ blink_tcnt' = tcnt /\ blink_dcnt' = dcnt

\* HEX2 to HEX0, with the digit on the right first.
HEX == IF blink_active /\ ~blink_phase THEN <<Off, Off, Off>> ELSE Digits(k_display)

BlinkOff   == Go /\ SetBlink(FALSE, TRUE, 0, 0)
BlinkStart == ~Go /\ done /\ SetBlink(TRUE, TRUE, 0, 0)
BlinkNone  == ~Go /\ ~done /\ ~blink_active /\ UNCHANGED blink
BlinkLast  ==
    /\ ~Go /\ ~done /\ blink_active /\ blink_dcnt = BLINK_DURATION_CYCLES - 1
    /\ SetBlink(FALSE, TRUE, 0, 0)

\* The variant also starts the duration again when the phase turns.
BlinkTurnNot ==
    /\ ~Go /\ ~done /\ blink_active /\ blink_dcnt # BLINK_DURATION_CYCLES - 1
    /\ blink_tcnt = BLINK_TOGGLE_CYCLES - 1
    /\ SetBlink(TRUE, ~blink_phase, 0, 0)
BlinkTurn ==
    /\ ~Go /\ ~done /\ blink_active /\ blink_dcnt # BLINK_DURATION_CYCLES - 1
    /\ blink_tcnt = BLINK_TOGGLE_CYCLES - 1
    /\ SetBlink(TRUE, ~blink_phase, 0, blink_dcnt + 1)
BlinkWait ==
    /\ ~Go /\ ~done /\ blink_active /\ blink_dcnt # BLINK_DURATION_CYCLES - 1
    /\ blink_tcnt # BLINK_TOGGLE_CYCLES - 1
    /\ SetBlink(TRUE, blink_phase, blink_tcnt + 1, blink_dcnt + 1)

Blink ==
    BlinkOff \/ BlinkStart \/ BlinkNone \/ BlinkLast \/ BlinkTurn \/ BlinkWait

-----------------------------------------------------------------------------

TopInit ==
    /\ Init
    /\ key_db = TRUE /\ key_prev \in BOOLEAN
    /\ base_n \in Switches /\ offset \in PowerUp \cap Addrs
    /\ range_ready \in BOOLEAN /\ k_display \in PowerUp \cap 0 .. DisplayMod - 1
    /\ blink_active \in BOOLEAN /\ blink_phase \in BOOLEAN
    /\ blink_tcnt \in PowerUp \cap 0 .. BLINK_TOGGLE_CYCLES - 1
    /\ blink_dcnt \in PowerUp \cap 0 .. BLINK_DURATION_CYCLES - 1
    /\ steady = 0

Tick(key, sw, inc, dec, clear) ==
    /\ Clock(Go, StartWord)
    /\ key_prev' = key_db /\ key_db' = key /\ base_n' = sw
    /\ Offset(inc, dec, clear) /\ Ready /\ Display /\ Blink
    /\ steady' = IF range_ready /\ ~Go /\ UNCHANGED <<base_n, offset>>
                 THEN IF steady = 2 THEN 2 ELSE steady + 1
                 ELSE 0

TopNext ==
    \E sw \in Switches, key, inc, dec, clear \in BOOLEAN : Tick(key, sw, inc, dec, clear)

TopSpec == TopInit /\ [][TopNext]_topVars

\* The clock ticks.
TopFairSpec == TopSpec /\ WF_topVars(TopNext)

-----------------------------------------------------------------------------
(* What must hold. *)

\* start is an offset into the memory only when no range is being counted, and no
\* count is shown or blinks of a range that is, whenever KEY[3] is pressed: also as
\* done is up (lab1.sv:161-176, 209-221).
ReadyMeansDone ==
    Started /\ (range_ready \/ blink_active) => ~running

\* Two edges after the switches and the offset have come to rest, whatever KEY[3]
\* and the switches did since the range began, what can be read off the display is
\* the count of the number at the offset in that range, the number beside it if the
\* switches are back where they were, and 0 if that is 0; the display is dark only
\* as it blinks (lab1.sv:158-190, 236-252, range.sv:74-79, hex7seg.sv).
ShownCount ==
    LET k == IF ShownN = 0 THEN 0 ELSE Terms[At(offset)] % DisplayMod IN
    steady = 2 /\ Started /\ At(offset) \in Halting =>
        /\ base_n = first => At(offset) = ShownN
        /\ HEX = <<Off, Off, Off>> => blink_active
        /\ HEX # <<Off, Off, Off>> => \A v \in 0 .. DisplayMod - 1 : Digits(v) = HEX <=> v = k

\* A range that ends is shown; only a press in the one cycle of done, which starts
\* another, can come before (lab1.sv:164-168).
RangeShown ==
    running /\ (\A i \in Addrs : At(i) \in Halting) ~> range_ready \/ (done /\ Go)

\* The display does not blink for ever (lab1.sv:208-238).
BlinkEnds == blink_active ~> ~blink_active
=============================================================================
