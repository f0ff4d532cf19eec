-------------------------------- MODULE Range --------------------------------
(***************************************************************************)
(* Counting the terms of the Collatz sequences of a range of numbers: the  *)
(* iterator (src/lab1/collatz.sv), the state machine that drives it and    *)
(* the memory of counts (src/lab1/range.sv).  A step is an edge of the     *)
(* clock, on which every register takes its next value at once; go and     *)
(* start are inputs, which may be anything on any edge.                    *)
(***************************************************************************)
EXTENDS Integers

CONSTANTS
    Modulus,   \* 2^32: n and dout are that wide
    CountMod,  \* 2^16: din, mem and count
    RamWords,  \* RAM_WORDS, 2^RAM_ADDR_BITS
    Starts,    \* a bound: the values of start
    PowerUp,   \* a bound: the values of a wide register that nothing has set
    Halting,   \* numbers whose sequence ends, and all the terms of it
    Terms      \* how many terms the sequence of each has

Words  == 0 .. Modulus - 1
Counts == 0 .. CountMod - 1
Addrs  == 0 .. RamWords - 1

\* Adding one to a register of m values.
Up(x, m) == IF x = m - 1 THEN 0 ELSE x + 1

\* dout_next.
NextTerm(x) == IF x % 2 = 0 THEN x \div 2 ELSE (3 * x + 1) % Modulus

\* The iterator stops at 1, and at 0, from where it would not go on.
IsEnd(x) == x = 1 \/ x = 0

ASSUME SizeAssumption ==
    /\ Modulus \in Nat /\ CountMod \in Nat /\ CountMod > 1
    /\ RamWords \in 1 .. Modulus
    /\ Starts \subseteq Words /\ PowerUp \subseteq Nat

\* Halting need not have all such numbers, but none whose terms do not fit a count.
ASSUME TermsAssumption ==
    /\ Halting \subseteq Words
    /\ Terms \in [Halting -> 1 .. CountMod - 1]
    /\ \A x \in Halting :
          IF x = 1 \/ x = 0 THEN Terms[x] = 1
          ELSE NextTerm(x) \in Halting /\ Terms[x] = Terms[NextTerm(x)] + 1

NoStart == -1

VARIABLES
    dout, cdone,                            \* the iterator
    running, num, n, din, cgo, we, done,    \* the state machine
    mem, count,                             \* the memory and its output
    first                                   \* history: the start last taken

collatz == <<dout, cdone>>
control == <<running, num, n, din, cgo, we, done, first>>
ram     == <<mem, count>>
vars    == <<collatz, control, ram>>

-----------------------------------------------------------------------------
(* collatz.sv *)

Load == cgo /\ dout' = n /\ cdone' = IsEnd(n)

Iterate ==
    /\ ~cgo /\ ~cdone
    /\ dout' = NextTerm(dout) /\ cdone' = IsEnd(dout')

Hold == ~cgo /\ cdone /\ UNCHANGED collatz

Collatz == Load \/ Iterate \/ Hold

-----------------------------------------------------------------------------
(* range.sv: the state machine, in the order of its tests. *)

Start(go, start) ==
    /\ go /\ ~running
    /\ running' = TRUE /\ num' = 0 /\ din' = 1 /\ cgo' = TRUE /\ n' = start
    /\ done' = FALSE /\ we' = FALSE
    /\ first' = start

EndGo ==
    /\ running /\ cgo
    /\ cgo' = FALSE
    /\ UNCHANGED <<running, num, n, din, we, done, first>>

\* The count is being written; the variant goes on writing afterwards.
EndRangeNot ==
    /\ running /\ ~cgo /\ we /\ num = RamWords - 1
    /\ running' = FALSE /\ done' = TRUE
    /\ UNCHANGED <<num, n, din, cgo, we, first>>
EndRange ==
    /\ running /\ ~cgo /\ we /\ num = RamWords - 1
    /\ we' = FALSE /\ running' = FALSE /\ done' = TRUE
    /\ UNCHANGED <<num, n, din, cgo, first>>

\* The variant goes on from the last count.
NextNumberNot ==
    /\ running /\ ~cgo /\ we /\ num # RamWords - 1
    /\ we' = FALSE /\ cgo' = TRUE
    /\ num' = Up(num, RamWords) /\ n' = Up(n, Modulus)
    /\ UNCHANGED <<running, din, done, first>>
NextNumber ==
    /\ running /\ ~cgo /\ we /\ num # RamWords - 1
    /\ we' = FALSE /\ din' = 1 /\ cgo' = TRUE
    /\ num' = Up(num, RamWords) /\ n' = Up(n, Modulus)
    /\ UNCHANGED <<running, done, first>>

WriteCount ==
    /\ running /\ ~cgo /\ ~we /\ cdone
    /\ we' = TRUE
    /\ UNCHANGED <<running, num, n, din, cgo, done, first>>

CountTerm ==
    /\ running /\ ~cgo /\ ~we /\ ~cdone
    /\ din' = Up(din, CountMod)
    /\ UNCHANGED <<running, num, n, cgo, we, done, first>>

\* No range runs and none is started: done falls after one cycle.
Idle(go) ==
    /\ ~go /\ ~running
    /\ done' = FALSE
    /\ UNCHANGED <<running, num, n, din, cgo, we, first>>

Control(go, start) ==
    \/ Start(go, start)
    \/ EndGo \/ EndRange \/ NextNumber \/ WriteCount \/ CountTerm
    \/ Idle(go)

-----------------------------------------------------------------------------
(* range.sv: the memory, which reads what was there before the edge. *)

Address(start) == IF we THEN num ELSE start % RamWords

Ram(start) ==
    /\ mem' = IF we THEN [mem EXCEPT ![Address(start)] = din] ELSE mem
    /\ count' = mem[Address(start)]

-----------------------------------------------------------------------------

Clock(go, start) == Collatz /\ Control(go, start) /\ Ram(start)

\* running is initialised; nothing else is.
Init ==
    /\ running = FALSE /\ first = NoStart
    /\ cdone \in BOOLEAN /\ cgo \in BOOLEAN /\ we \in BOOLEAN /\ done \in BOOLEAN
    /\ dout \in PowerUp \cap Words /\ n \in PowerUp \cap Words
    /\ num \in PowerUp \cap Addrs
    /\ din \in PowerUp \cap Counts /\ count \in PowerUp \cap Counts
    /\ mem \in [Addrs -> PowerUp \cap Counts]

Next == \E go \in BOOLEAN, start \in Starts : Clock(go, start)

Spec == Init /\ [][Next]_vars

-----------------------------------------------------------------------------
(* What must hold. *)

TypeOK ==
    /\ dout \in Words /\ cdone \in BOOLEAN
    /\ running \in BOOLEAN /\ num \in Addrs /\ n \in Words /\ din \in Counts
    /\ cgo \in BOOLEAN /\ we \in BOOLEAN /\ done \in BOOLEAN
    /\ mem \in [Addrs -> Counts] /\ count \in Counts
    /\ first \in Words \cup {NoStart}

Started == first # NoStart

\* The number whose count belongs at an address.
At(i) == IF first + i < Modulus THEN first + i ELSE first + i - Modulus

Right(i) == At(i) \in Halting => mem[i] = Terms[At(i)]

\* When a range is done, each word of the memory has the number of terms of its
\* number: cgo, cdone and we, each a cycle late, make up for each other, and no
\* count begins with what the last one left (range.sv:28-62, collatz.sv:10-18).
CountsRight == Started /\ ~running => \A i \in Addrs : Right(i)

\* From the cycle after the last write on, a count can be read at each address, a
\* cycle after the address (range.sv:74-79).
ReadBack ==
    [][\A start \in Starts :
          LET i == start % RamWords IN
          (Started /\ ~running /\ At(i) \in Halting /\ Clock(FALSE, start))
              => count' = Terms[At(i)]]_vars

\* done is up for the one cycle that follows the last write: a user who waits for
\* it sees it once for each range, also one who keeps go up (range.sv:45-65).
DonePulse == [][Started => (done' <=> running /\ ~running')]_vars
=============================================================================
