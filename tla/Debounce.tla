------------------------------ MODULE Debounce ------------------------------
(***************************************************************************)
(* The debouncers of the keys of lab 1: module debounce of                 *)
(* src/lab1/lab1.sv, one for each key.  Keys are TRUE when they are up.    *)
(* Settle is an edge of the clock; the keys bounce, and may be anything on *)
(* any edge.  KeyRepeat has what the debounced keys do.                    *)
(***************************************************************************)
EXTENDS Integers

CONSTANTS Keys, DEBOUNCE_CYCLES

ASSUME CyclesAssumption == DEBOUNCE_CYCLES \in Nat \ {0}

VARIABLES
    ff0, ff1,   \* the synchronisers
    key_db,     \* the debounced keys
    cnt,
    past        \* history: key_in on the last edges, the latest first

debouncers == <<ff0, ff1, key_db, cnt, past>>

\* Two more samples than are counted: those in the synchroniser.
Window  == 1 .. DEBOUNCE_CYCLES + 2
Counted == 3 .. DEBOUNCE_CYCLES + 2

DebounceInit ==
    /\ ff0 \in [Keys -> BOOLEAN] /\ ff1 \in [Keys -> BOOLEAN]
    /\ key_db = [k \in Keys |-> TRUE] /\ cnt = [k \in Keys |-> 0]
    /\ past = [k \in Keys |-> [i \in Window |->
                  IF i = 1 THEN ff0[k] ELSE IF i = 2 THEN ff1[k] ELSE key_db[k]]]

Differs(k) == ff1[k] # key_db[k]

\* Whether the key has differed for long enough; the variant waits an edge longer.
EnoughLate(k) == cnt[k] = DEBOUNCE_CYCLES
Enough(k)     == cnt[k] = DEBOUNCE_CYCLES - 1

NextDb(k) == IF Differs(k) /\ Enough(k) THEN ff1[k] ELSE key_db[k]

\* The variant does not start again when the key bounces back.
NextCntNot(k) ==
    IF ~Differs(k) THEN cnt[k] ELSE IF Enough(k) THEN 0 ELSE cnt[k] + 1
NextCnt(k) ==
    IF ~Differs(k) THEN 0 ELSE IF Enough(k) THEN 0 ELSE cnt[k] + 1

Settle(key_in) ==
    /\ ff0' = key_in /\ ff1' = ff0
    /\ key_db' = [k \in Keys |-> NextDb(k)]
    /\ cnt' = [k \in Keys |-> NextCnt(k)]
    /\ past' = [k \in Keys |-> [i \in Window |->
                  IF i = 1 THEN key_in[k] ELSE past[k][i - 1]]]

-----------------------------------------------------------------------------
(* What must hold. *)

\* A glitch shorter than the window, in either direction and at whatever phase,
\* does not reach key_db: it changes only to what the key has been all along
\* (lab1.sv:287-298).
NoGlitch ==
    [][\A k \in Keys : key_db'[k] # key_db[k] =>
           \A i \in Counted : past'[k][i] = key_db'[k]]_debouncers

\* A key that has been the same for the window has reached key_db, two edges later
\* and no more, so no press of that length is lost (lab1.sv:269-298).
Follows ==
    \A k \in Keys :
        (\A i, j \in Counted : past[k][i] = past[k][j]) => key_db[k] = past[k][3]
=============================================================================
