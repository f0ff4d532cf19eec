----------------------------- MODULE KeyRepeat ------------------------------
(***************************************************************************)
(* The buttons that move the offset (src/lab1/lab1.sv): a press is one     *)
(* pulse, and more follow while the key is held.  inc and dec are KEY[0]   *)
(* and KEY[1]; of the others, KEY[2] and KEY[3], only the press counts.    *)
(* A step is an edge of the clock.  Keys are TRUE when they are up, and go *)
(* through the debouncers first.                                           *)
(***************************************************************************)
EXTENDS Debounce

CONSTANTS
    INITIAL_DELAY_CYCLES, REPEAT_CYCLES,
    MaxOffset,   \* 255: offset is eight bits
    PowerUp      \* a bound: what a timer is before anything has set it

ASSUME RepeatAssumption ==
    /\ INITIAL_DELAY_CYCLES \in Nat \ {0} /\ REPEAT_CYCLES \in Nat \ {0}
    /\ MaxOffset \in Nat

Repeats == {"inc", "dec"}

ASSUME KeysAssumption == Repeats \subseteq Keys

Timers == [repeating : BOOLEAN,
           delay : 0 .. INITIAL_DELAY_CYCLES - 1,
           rep   : 0 .. REPEAT_CYCLES - 1]

Rest == [repeating |-> FALSE, delay |-> 0, rep |-> 0]

ASSUME PowerUpAssumption == PowerUp \subseteq Timers

VARIABLES
    key_prev,   \* key_db of each key an edge ago
    timer,      \* of each key that repeats: *_repeating, *_delay_cnt, *_rep_cnt
    pulse,      \* of each key that repeats
    offset,
    held        \* history: for how many edges each has been down, see Longest

vars == <<debouncers, key_prev, timer, pulse, offset, held>>

KeyFall(k) == key_prev[k] /\ ~key_db[k]

\* The delay is over, a period of the repeats is over.
Delayed(k)  == ~timer[k].repeating /\ timer[k].delay = INITIAL_DELAY_CYCLES - 1
Repeated(k) == timer[k].repeating /\ timer[k].rep = REPEAT_CYCLES - 1

\* The variant keeps the timer of a key that is up.
NextTimerNot(k) ==
    IF KeyFall(k) THEN [timer[k] EXCEPT !.rep = 0]
    ELSE IF key_db[k] THEN timer[k]
    ELSE IF Delayed(k) THEN [Rest EXCEPT !.repeating = TRUE]
    ELSE IF Repeated(k) THEN [timer[k] EXCEPT !.rep = 0]
    ELSE IF timer[k].repeating THEN [timer[k] EXCEPT !.rep = @ + 1]
    ELSE [timer[k] EXCEPT !.delay = @ + 1]
NextTimer(k) ==
    IF KeyFall(k) \/ key_db[k] THEN Rest
    ELSE IF Delayed(k) THEN [Rest EXCEPT !.repeating = TRUE]
    ELSE IF Repeated(k) THEN [timer[k] EXCEPT !.rep = 0]
    ELSE IF timer[k].repeating THEN [timer[k] EXCEPT !.rep = @ + 1]
    ELSE [timer[k] EXCEPT !.delay = @ + 1]

NextPulse(k) == KeyFall(k) \/ (~key_db[k] /\ Repeated(k))

\* A press of any other key.
rst_pulse == \E k \in Keys \ Repeats : KeyFall(k)

\* With both pulses, dec is the later assignment.  In the variant inc stops
\* one too early.
OffsetEarly ==
    IF rst_pulse THEN 0
    ELSE IF pulse["dec"] /\ offset # 0 THEN offset - 1
    ELSE IF pulse["inc"] /\ offset < MaxOffset - 1 THEN offset + 1
    ELSE offset
NextOffset ==
    IF rst_pulse THEN 0
    ELSE IF pulse["dec"] /\ offset # 0 THEN offset - 1
    ELSE IF pulse["inc"] /\ offset # MaxOffset THEN offset + 1
    ELSE offset

\* held counts on to Longest and from there on in periods.
Longest == INITIAL_DELAY_CYCLES + REPEAT_CYCLES

NextHeld(k) ==
    IF key_db[k] THEN 0
    ELSE IF KeyFall(k) THEN 1
    ELSE IF held[k] = Longest THEN INITIAL_DELAY_CYCLES + 1
    ELSE held[k] + 1

-----------------------------------------------------------------------------

\* Only key_db is initialised; any timer is put to rest on the first edge.
Init ==
    /\ DebounceInit
    /\ key_prev \in [Keys -> BOOLEAN]
    /\ timer \in [Repeats -> PowerUp]
    /\ pulse \in [Repeats -> BOOLEAN]
    /\ offset \in 0 .. MaxOffset
    /\ held = [k \in Repeats |-> 0]

Tick(key_in) ==
    /\ Settle(key_in)
    /\ key_prev' = key_db
    /\ timer' = [k \in Repeats |-> NextTimer(k)]
    /\ pulse' = [k \in Repeats |-> NextPulse(k)]
    /\ offset' = NextOffset
    /\ held' = [k \in Repeats |-> NextHeld(k)]

Next == \E key_in \in [Keys -> BOOLEAN] : Tick(key_in)

Spec == Init /\ [][Next]_vars

\* The clock ticks.
FairSpec == Spec /\ WF_vars(Next)

-----------------------------------------------------------------------------
(* What must hold. *)

\* A key gives one pulse when it is pressed, the next a delay and a period later and
\* one each period from then on, and none otherwise, however it was pressed and
\* released before: nothing of an earlier press shortens this one (lab1.sv:85-109).
PulsesDue ==
    [][\A k \in Repeats :
          pulse'[k] <=> KeyFall(k) \/ (~key_db[k] /\ held[k] = Longest)]_vars

\* A key that is held alone brings the offset to its end, and there it stays
\* (lab1.sv:96-108, 144-156).
Alone(k) == ~key_db[k] /\ \A j \in Keys \ {k} : key_db[j]
HoldReachesEnd ==
    /\ <>[]Alone("inc") => <>[](offset = MaxOffset)
    /\ <>[]Alone("dec") => <>[](offset = 0)
=============================================================================
