------------------------- MODULE CountDisplayProofs -------------------------
(* The range of Collatz counts is right for every width and memory size; the top *)
(* of lab 1 drives it as Range says it may be, and shows what it has counted.    *)
EXTENDS CountDisplay, TLAPS

(***************************************************************************)
(* The range by itself: module Range.                                      *)
(***************************************************************************)

\* What n, done and we are while a range runs and after it.
Sequencing ==
    /\ running => Started /\ ~done /\ n = At(num)
    /\ Started /\ ~running => ~we
    /\ running /\ cgo => din = 1 /\ ~we
    /\ running /\ we => cdone

\* din has counted the terms up to dout, which cdone is up to date with.
Counting ==
    running /\ ~cgo /\ n \in Halting =>
        /\ dout \in Halting
        /\ din + Terms[dout] = Terms[n] + 1
        /\ cdone <=> IsEnd(dout)

\* The addresses before num are finished.
Written == running => \A i \in 0 .. num - 1 : Right(i)

RangeInv == TypeOK /\ Sequencing /\ Counting /\ Written /\ CountsRight

-----------------------------------------------------------------------------
(* The operators. *)

LEMMA NextTermType == ASSUME NEW x \in Words PROVE NextTerm(x) \in Words
<1>1. CASE x % 2 = 0
  BY <1>1, SizeAssumption DEF Words, NextTerm
<1>2. CASE x % 2 # 0
  <2>1. 3 * x + 1 \in Nat /\ Modulus \in Nat \ {0}
    BY SizeAssumption DEF Words
  <2>2. (3 * x + 1) % Modulus \in 0 .. Modulus - 1
    BY <2>1
  <2> QED
    BY <1>2, <2>2 DEF Words, NextTerm
<1> QED
  BY <1>1, <1>2

LEMMA UpType ==
  ASSUME NEW m \in Nat, NEW x \in 0 .. m - 1
  PROVE  Up(x, m) \in 0 .. m - 1
  BY DEF Up

LEMMA LowBits == ASSUME NEW start \in Starts PROVE start % RamWords \in Addrs
<1>1. start \in Nat /\ RamWords \in Nat \ {0}
  BY SizeAssumption DEF Words
<1> QED
  BY <1>1 DEF Addrs

LEMMA AtFirst == ASSUME NEW start \in Words PROVE
                 (first = start) => At(0) = start
  BY SizeAssumption DEF At, Words

LEMMA AtUp ==
  ASSUME first \in Words, NEW i \in Addrs, i # RamWords - 1
  PROVE  Up(At(i), Modulus) = At(Up(i, RamWords))
  BY SizeAssumption DEF At, Up, Words, Addrs

\* One step of a sequence that ends.
LEMMA TermsStep ==
  ASSUME NEW x \in Halting
  PROVE  /\ Terms[x] \in 1 .. CountMod - 1
         /\ IsEnd(x) => Terms[x] = 1
         /\ ~IsEnd(x) => /\ NextTerm(x) \in Halting
                         /\ Terms[x] = Terms[NextTerm(x)] + 1
  BY TermsAssumption DEF IsEnd

-----------------------------------------------------------------------------
(* Type correctness. *)

LEMMA RangeInit == Init => RangeInv
<1> SUFFICES ASSUME Init PROVE RangeInv
  OBVIOUS
<1>1. TypeOK
  BY DEF Init, TypeOK, Counts
<1>2. first = NoStart /\ running = FALSE
  BY DEF Init
<1> QED
  BY <1>1, <1>2 DEF RangeInv, Sequencing, Counting, Written, CountsRight, Started

LEMMA TypeNext ==
  ASSUME TypeOK, NEW go \in BOOLEAN, NEW start \in Starts, Clock(go, start)
  PROVE  TypeOK'
<1>1. dout' \in Words /\ cdone' \in BOOLEAN
  BY NextTermType DEF Clock, Collatz, Load, Iterate, Hold, TypeOK, IsEnd, collatz
<1>2. start \in Words /\ 0 \in Addrs /\ 1 \in Counts
  BY SizeAssumption DEF Addrs, Counts, Words
<1>3. Up(num, RamWords) \in Addrs /\ Up(n, Modulus) \in Words /\ Up(din, CountMod) \in Counts
  <2>1. RamWords \in Nat /\ Modulus \in Nat /\ CountMod \in Nat
    BY SizeAssumption
  <2>2. Up(num, RamWords) \in Addrs
    BY <2>1, UpType DEF TypeOK, Addrs
  <2>3. Up(n, Modulus) \in Words
    BY <2>1, UpType DEF TypeOK, Words
  <2>4. Up(din, CountMod) \in Counts
    BY <2>1, UpType DEF TypeOK, Counts
  <2> QED
    BY <2>2, <2>3, <2>4
<1>4. /\ running' \in BOOLEAN /\ cgo' \in BOOLEAN /\ we' \in BOOLEAN /\ done' \in BOOLEAN
      /\ num' \in Addrs /\ n' \in Words /\ din' \in Counts
      /\ first' \in Words \cup {NoStart}
  BY <1>2, <1>3 DEF Clock, Control, Start, EndGo, EndRange, NextNumber, WriteCount,
     CountTerm, Idle, TypeOK
<1>5. Address(start) \in Addrs
  BY LowBits DEF Address, TypeOK
<1>6. mem' \in [Addrs -> Counts] /\ count' \in Counts
  BY <1>5 DEF Clock, Ram, TypeOK
<1> QED
  BY <1>1, <1>4, <1>6 DEF TypeOK

-----------------------------------------------------------------------------
(* The strengthened invariant. *)

LEMMA SequencingNext ==
  ASSUME TypeOK, Sequencing, NEW go \in BOOLEAN, NEW start \in Starts, Clock(go, start)
  PROVE  Sequencing'
<1> USE DEF Started, TypeOK, Sequencing
<1>1. start \in Words /\ start # NoStart /\ first # NoStart => first \in Words
  BY SizeAssumption DEF Words, NoStart
<1>2. CASE Start(go, start)
  <2>1. At(0)' = start
    BY <1>1, <1>2, SizeAssumption DEF Start, At, Words
  <2> QED
    BY <1>1, <1>2, <2>1, SizeAssumption DEF Start, Words, NoStart
<1>3. CASE EndGo
  BY <1>3 DEF EndGo, At
<1>4. CASE EndRange
  BY <1>4 DEF EndRange
<1>5. CASE NextNumber
  <2>1. Up(n, Modulus) = At(Up(num, RamWords))
    BY <1>1, <1>5, AtUp DEF NextNumber
  <2>2. n' = At(num)'
    BY <1>5, <2>1 DEF NextNumber, At
  <2> QED
    BY <1>5, <2>2 DEF NextNumber
<1>6. CASE WriteCount
  <2>1. cdone'
    BY <1>6 DEF WriteCount, Clock, Collatz, Load, Iterate, Hold, collatz
  <2> QED
    BY <1>6, <2>1 DEF WriteCount, At
<1>7. CASE CountTerm
  BY <1>7 DEF CountTerm, At
<1>8. CASE Idle(go)
  BY <1>8 DEF Idle
<1> QED
  BY <1>2, <1>3, <1>4, <1>5, <1>6, <1>7, <1>8 DEF Clock, Control

LEMMA CountingNext ==
  ASSUME TypeOK, Sequencing, Counting,
         NEW go \in BOOLEAN, NEW start \in Starts, Clock(go, start)
  PROVE  Counting'
<1>1. CASE Start(go, start)
  BY <1>1 DEF Start, Counting
<1>2. CASE EndGo
  <2>1. dout' = n /\ din' = 1 /\ n' = n
    BY <1>2 DEF EndGo, Clock, Collatz, Load, Iterate, Hold, Sequencing
  <2>2. cdone' <=> IsEnd(dout')
    BY <1>2 DEF EndGo, Clock, Collatz, Load, Iterate, Hold
  <2>3. n \in Halting => Terms[n] \in Nat
    BY TermsStep
  <2> QED
    BY <2>1, <2>2, <2>3 DEF Counting, IsEnd
<1>3. CASE EndRange
  BY <1>3 DEF EndRange, Counting
<1>4. CASE NextNumber
  BY <1>4 DEF NextNumber, Counting
<1>5. CASE WriteCount
  <2>1. UNCHANGED <<dout, cdone, din, n, running, cgo>>
    BY <1>5 DEF WriteCount, Clock, Collatz, Load, Iterate, Hold, collatz
  <2> QED
    BY <2>1 DEF Counting, IsEnd
<1>6. CASE CountTerm
  <2>1. /\ running /\ ~cgo /\ ~cdone
        /\ din' = Up(din, CountMod) /\ n' = n
        /\ dout' = NextTerm(dout)
    BY <1>6 DEF CountTerm, Clock, Collatz, Load, Iterate, Hold
  <2>2. cdone' <=> IsEnd(dout')
    BY <1>6 DEF CountTerm, Clock, Collatz, Load, Iterate, Hold
  <2>3. ASSUME n \in Halting
        PROVE  dout' \in Halting /\ din' + Terms[dout'] = Terms[n] + 1
    <3>1. dout \in Halting /\ din + Terms[dout] = Terms[n] + 1 /\ ~IsEnd(dout)
      BY <2>1, <2>3 DEF Counting
    <3>2. /\ Terms[dout] \in 1 .. CountMod - 1 /\ Terms[n] \in 1 .. CountMod - 1
          /\ NextTerm(dout) \in Halting /\ Terms[dout] = Terms[NextTerm(dout)] + 1
          /\ Terms[NextTerm(dout)] \in 1 .. CountMod - 1
      BY <2>3, <3>1, TermsStep
    <3>3. din \in Nat /\ CountMod \in Nat
      BY SizeAssumption DEF TypeOK, Counts
    <3>4. Up(din, CountMod) = din + 1
      BY <3>1, <3>2, <3>3 DEF Up
    <3> QED
      BY <2>1, <3>1, <3>2, <3>3, <3>4
  <2> QED
    BY <2>1, <2>2, <2>3 DEF Counting, IsEnd
<1>7. CASE Idle(go)
  BY <1>7 DEF Idle, Counting
<1> QED
  BY <1>1, <1>2, <1>3, <1>4, <1>5, <1>6, <1>7 DEF Clock, Control

\* What is written at the end of a count is the number of terms, and nothing else is
\* written.
LEMMA WriteRight ==
  ASSUME TypeOK, Sequencing, Counting, running, ~cgo, we,
         NEW start \in Starts, Ram(start), first' = first,
         \A i \in 0 .. num - 1 : Right(i)
  PROVE  \A i \in 0 .. num : Right(i)'
<1>1. n = At(num) /\ cdone
  BY DEF Sequencing
<1>2. mem' = [mem EXCEPT ![num] = din]
  BY DEF Ram, Address
<1>3. n \in Halting => din = Terms[n]
  <2> SUFFICES ASSUME n \in Halting PROVE din = Terms[n]
    OBVIOUS
  <2>1. dout \in Halting /\ din + Terms[dout] = Terms[n] + 1 /\ IsEnd(dout)
    BY <1>1 DEF Counting
  <2>2. Terms[dout] = 1 /\ Terms[n] \in Nat
    BY <2>1, TermsStep
  <2> QED
    BY <2>1, <2>2 DEF TypeOK, Counts
<1>4. mem'[num] = din /\ \A i \in 0 .. num - 1 : mem'[i] = mem[i]
  BY <1>2 DEF TypeOK, Addrs
<1>5. ASSUME NEW i \in 0 .. num PROVE Right(i)'
  <2>1. At(i)' = At(i)
    BY DEF At
  <2>2. CASE i = num
    BY <1>1, <1>3, <1>4, <2>1, <2>2 DEF Right
  <2>3. CASE i # num
    <3>1. i \in 0 .. num - 1
      BY <2>3 DEF TypeOK, Addrs
    <3> QED
      BY <1>4, <2>1, <3>1 DEF Right
  <2> QED
    BY <2>2, <2>3
<1> QED
  BY <1>5

LEMMA WrittenNext ==
  ASSUME TypeOK, Sequencing, Counting, Written, CountsRight,
         NEW go \in BOOLEAN, NEW start \in Starts, Clock(go, start)
  PROVE  Written' /\ CountsRight'
<1>1. ASSUME UNCHANGED <<mem, first>>, NEW i PROVE Right(i)' <=> Right(i)
  BY <1>1 DEF Right, At
<1>2. CASE Start(go, start)
  BY <1>2 DEF Start, Written, CountsRight
<1>3. ASSUME running, ~we, UNCHANGED <<running, num, first>>
      PROVE  Written' /\ CountsRight'
  <2>1. mem' = mem
    BY <1>3 DEF Clock, Ram
  <2> QED
    BY <1>1, <1>3, <2>1 DEF Written, CountsRight
<1>4. CASE EndGo
  BY <1>3, <1>4 DEF EndGo, Sequencing
<1>5. CASE EndRange
  <2>1. \A i \in 0 .. num : Right(i)'
    BY <1>5, WriteRight DEF EndRange, Clock, Written
  <2>2. Addrs = 0 .. num
    BY <1>5 DEF EndRange, Addrs
  <2>3. \A i \in Addrs : Right(i)'
    BY <2>1, <2>2
  <2> QED
    BY <1>5, <2>3 DEF EndRange, Written, CountsRight
<1>6. CASE NextNumber
  <2>1. \A i \in 0 .. num : Right(i)'
    BY <1>6, WriteRight DEF NextNumber, Clock, Written
  <2>2. num' - 1 = num
    BY <1>6 DEF NextNumber, Up, TypeOK, Addrs
  <2>3. \A i \in 0 .. num' - 1 : Right(i)'
    BY <2>1, <2>2
  <2> QED
    BY <1>6, <2>3 DEF NextNumber, Written, CountsRight
<1>7. CASE WriteCount
  BY <1>3, <1>7 DEF WriteCount
<1>8. CASE CountTerm
  BY <1>3, <1>8 DEF CountTerm
<1>9. CASE Idle(go)
  <2>1. Started => mem' = mem
    BY <1>9 DEF Idle, Clock, Ram, Sequencing
  <2> QED
    BY <1>1, <1>9, <2>1 DEF Idle, Written, CountsRight, Started
<1> QED
  BY <1>2, <1>4, <1>5, <1>6, <1>7, <1>8, <1>9 DEF Clock, Control

LEMMA RangeNext == RangeInv /\ [Next]_vars => RangeInv'
<1> SUFFICES ASSUME RangeInv, [Next]_vars PROVE RangeInv'
  OBVIOUS
<1>1. CASE Next
  <2>1. PICK go \in BOOLEAN, start \in Starts : Clock(go, start)
    BY <1>1 DEF Next
  <2>2. TypeOK'
    BY <2>1, TypeNext DEF RangeInv
  <2>3. Sequencing'
    BY <2>1, SequencingNext DEF RangeInv
  <2>4. Counting'
    BY <2>1, CountingNext DEF RangeInv
  <2>5. Written' /\ CountsRight'
    BY <2>1, WrittenNext DEF RangeInv
  <2> QED
    BY <2>2, <2>3, <2>4, <2>5 DEF RangeInv
<1>2. CASE UNCHANGED vars
  BY <1>2 DEF RangeInv, TypeOK, Sequencing, Counting, Written, CountsRight, Right,
     At, Started, IsEnd, vars, collatz, control, ram
<1> QED
  BY <1>1, <1>2

LEMMA RangeAlways == Spec => []RangeInv
  BY RangeInit, RangeNext, PTL DEF Spec

-----------------------------------------------------------------------------
(* The theorems. *)

\* Every register of the iterator and of the range keeps its width, with n and the
\* counts wrapping (range.sv:24-72, collatz.sv:3-8).
THEOREM RangeTyped == Spec => []TypeOK
<1>1. RangeInv => TypeOK
  BY DEF RangeInv
<1> QED
  BY <1>1, RangeAlways, PTL

\* When a range is done, the memory has the number of terms of each of its numbers,
\* whatever go and start did meanwhile (range.sv:28-79, collatz.sv:10-18).
THEOREM RangeCounts == Spec => []CountsRight
<1>1. RangeInv => CountsRight
  BY DEF RangeInv
<1> QED
  BY <1>1, RangeAlways, PTL

\* A count is at the output a cycle after its address (range.sv:74-79).
THEOREM RangeReads == Spec => ReadBack
<1> DEFINE Reads ==
       \A start \in Starts :
          LET i == start % RamWords IN
          (Started /\ ~running /\ At(i) \in Halting /\ Clock(FALSE, start))
              => count' = Terms[At(i)]
<1>1. RangeInv => Reads
  <2> SUFFICES ASSUME RangeInv, NEW start \in Starts,
                      Started, ~running, At(start % RamWords) \in Halting,
                      Clock(FALSE, start)
               PROVE  count' = Terms[At(start % RamWords)]
    OBVIOUS
  <2>1. start % RamWords \in Addrs
    BY LowBits
  <2>2. mem[start % RamWords] = Terms[At(start % RamWords)]
    BY <2>1 DEF RangeInv, CountsRight, Right
  <2>3. count' = mem[start % RamWords]
    BY DEF RangeInv, Sequencing, Clock, Ram, Address
  <2> QED
    BY <2>2, <2>3
<1>2. RangeInv => [Reads]_vars
  BY <1>1
<1> QED
  BY <1>2, RangeAlways, PTL DEF ReadBack

\* done is up for exactly the cycle after a range has ended (range.sv:45-65).
THEOREM RangeDone == Spec => DonePulse
<1> DEFINE Pulse == Started => (done' <=> running /\ ~running')
<1>1. RangeInv /\ Next => Pulse
  <2> SUFFICES ASSUME RangeInv, Started, NEW go \in BOOLEAN, NEW start \in Starts,
                      Clock(go, start)
               PROVE  done' <=> running /\ ~running'
    BY DEF Next
  <2>1. running => ~done
    BY DEF RangeInv, Sequencing
  <2> QED
    BY <2>1 DEF Clock, Control, Start, EndGo, EndRange, NextNumber, WriteCount,
       CountTerm, Idle
<1>2. RangeInv /\ [Next]_vars => [Pulse]_vars
  BY <1>1
<1> QED
  BY <1>2, RangeAlways, PTL DEF Spec, DonePulse

(***************************************************************************)
(* The top of lab 1 around it: module CountDisplay.                        *)
(***************************************************************************)

\* The registers that Range does not have and that these proofs need.
Types ==
    /\ base_n \in Switches /\ offset \in Addrs /\ range_ready \in BOOLEAN
    /\ k_display \in 0 .. DisplayMod - 1 /\ steady \in 0 .. 2

\* The count is a cycle behind the offset, the display a cycle behind the count.
Pipeline ==
    Started =>
        /\ steady >= 1 => range_ready /\ count = mem[offset]
        /\ steady = 2 => k_display = IF ShownN = 0 THEN 0 ELSE mem[offset] % DisplayMod

TopInv == Types /\ ReadyMeansDone /\ Pipeline

-----------------------------------------------------------------------------
(* Every step is one of the range's. *)

LEMMA StartWordIn == Types => StartWord \in Starts
<1> SUFFICES ASSUME Types PROVE StartWord \in Starts
  OBVIOUS
<1>1. 0 \in Addrs
  BY SizeAssumption DEF Addrs
<1> QED
  BY <1>1, TopAssumption DEF Types, StartWord

LEMMA GoBoolean == Go \in BOOLEAN
  BY DEF Go

LEMMA TypesNext ==
  ASSUME Types, NEW sw \in Switches, NEW key, NEW inc, NEW dec, NEW clear,
         TypeOK, Tick(key, sw, inc, dec, clear)
  PROVE  Types'
<1>1. offset' \in Addrs
  BY SizeAssumption DEF Tick, Offset, Types, Addrs, Words
<1>2. k_display' \in 0 .. DisplayMod - 1
  <2>1. count \in Nat /\ DisplayMod \in Nat \ {0}
    BY SizeAssumption, TopAssumption DEF TypeOK, Counts
  <2>2. count % DisplayMod \in 0 .. DisplayMod - 1
    BY <2>1
  <2> QED
    BY <2>1, <2>2 DEF Tick, Display
<1>3. base_n' \in Switches /\ range_ready' \in BOOLEAN
  BY DEF Tick, Ready, Types
<1>4. steady' \in 0 .. 2
  BY DEF Tick, Types
<1> QED
  BY <1>1, <1>2, <1>3, <1>4 DEF Types

LEMMA TopStart == TopInit => Init /\ TopInv
<1> SUFFICES ASSUME TopInit PROVE Init /\ TopInv
  OBVIOUS
<1>1. Init /\ ~Started
  BY DEF TopInit, Init, Started
<1>2. Types
  BY DEF TopInit, Types
<1> QED
  BY <1>1, <1>2 DEF TopInv, ReadyMeansDone, Pipeline

-----------------------------------------------------------------------------
(* The invariant. *)

LEMMA ReadyNext ==
  ASSUME RangeInv, ReadyMeansDone, NEW key, NEW sw, NEW inc, NEW dec, NEW clear,
         Tick(key, sw, inc, dec, clear)
  PROVE  ReadyMeansDone'
<1>1. Started /\ done => ~running
  BY DEF RangeInv, Sequencing
<1>2. CASE Go
  BY <1>2 DEF Tick, Ready, Blink, BlinkOff, BlinkStart, BlinkNone, BlinkLast, BlinkTurn,
     BlinkWait, SetBlink, ReadyMeansDone
<1>3. CASE ~Go
  <2>1. first' = first /\ (~running => ~running')
    BY <1>3 DEF Tick, Clock, Control, Start, EndGo, EndRange, NextNumber, WriteCount,
       CountTerm, Idle
  <2>2. range_ready' \/ blink_active' => done \/ range_ready \/ blink_active
    BY <1>3 DEF Tick, Ready, Blink, BlinkOff, BlinkStart, BlinkNone, BlinkLast, BlinkTurn,
       BlinkWait, SetBlink, blink
  <2> QED
    BY <1>1, <2>1, <2>2 DEF ReadyMeansDone, Started
<1> QED
  BY <1>2, <1>3

LEMMA PipelineNext ==
  ASSUME RangeInv, Types, ReadyMeansDone, Pipeline,
         NEW key, NEW sw, NEW inc, NEW dec, NEW clear, Tick(key, sw, inc, dec, clear)
  PROVE  Pipeline'
<1> SUFFICES ASSUME Started', steady' >= 1
             PROVE  /\ range_ready' /\ count' = mem'[offset']
                    /\ (steady' = 2) =>
                          k_display' = IF ShownN' = 0 THEN 0 ELSE mem'[offset'] % DisplayMod
  BY DEF Pipeline
<1>1. range_ready /\ ~Go /\ base_n' = base_n /\ offset' = offset
  BY DEF Tick
<1>2. first' = first /\ Started
  BY <1>1 DEF Tick, Clock, Control, Start, EndGo, EndRange, NextNumber, WriteCount,
     CountTerm, Idle, Started
<1>3. ~running /\ ~we
  BY <1>1, <1>2 DEF ReadyMeansDone, RangeInv, Sequencing
<1>4. StartWord = offset /\ offset % RamWords = offset
  BY <1>1, SizeAssumption DEF StartWord, Types, Addrs, Words
<1>5. mem' = mem /\ count' = mem[offset]
  BY <1>3, <1>4 DEF Tick, Clock, Ram, Address
<1>6. range_ready'
  BY <1>1 DEF Tick, Ready
<1>7. ASSUME steady' = 2
      PROVE  k_display' = IF ShownN = 0 THEN 0 ELSE mem[offset] % DisplayMod
  <2>1. steady >= 1
    BY <1>7 DEF Tick, Types
  <2>2. count = mem[offset]
    BY <1>2, <2>1 DEF Pipeline
  <2> QED
    BY <1>1, <2>2 DEF Tick, Display
<1>8. ShownN' = ShownN
  BY <1>1 DEF ShownN
<1> QED
  BY <1>1, <1>5, <1>6, <1>7, <1>8

LEMMA TopStep ==
  RangeInv /\ TopInv /\ [TopNext]_topVars => [Next]_vars /\ TopInv'
<1> SUFFICES ASSUME RangeInv, TopInv, [TopNext]_topVars
             PROVE  [Next]_vars /\ TopInv'
  OBVIOUS
<1>1. CASE TopNext
  <2>1. PICK sw \in Switches, key \in BOOLEAN, inc \in BOOLEAN, dec \in BOOLEAN,
             clear \in BOOLEAN : Tick(key, sw, inc, dec, clear)
    BY <1>1 DEF TopNext
  <2>2. Next
    BY <2>1, StartWordIn, GoBoolean DEF TopInv, Tick, Next
  <2>3. Types'
    BY <2>1, TypesNext DEF TopInv, RangeInv
  <2>4. ReadyMeansDone'
    BY <2>1, ReadyNext DEF TopInv
  <2>5. Pipeline'
    BY <2>1, PipelineNext DEF TopInv
  <2> QED
    BY <2>2, <2>3, <2>4, <2>5 DEF TopInv
<1>2. CASE UNCHANGED topVars
  BY <1>2 DEF topVars, vars, collatz, control, ram, blink, TopInv, Types,
     ReadyMeansDone, Pipeline, Started, ShownN
<1> QED
  BY <1>1, <1>2

LEMMA TopAlways == TopSpec => [](RangeInv /\ TopInv)
<1>1. TopInit => RangeInv /\ TopInv
  BY TopStart, RangeInit
<1>2. RangeInv /\ TopInv /\ [TopNext]_topVars => (RangeInv /\ TopInv)'
  BY TopStep, RangeNext
<1> QED
  BY <1>1, <1>2, PTL DEF TopSpec

-----------------------------------------------------------------------------
(* The digits. *)

LEMMA DigitReads ==
  \A a, b \in 0 .. 15 : Digit(a) # Off /\ (Digit(a) = Digit(b) => a = b)
BY DEF Digit, hex7seg, Off

\* The three digits of a number of twelve bits.
LEMMA DigitsOf ==
  ASSUME NEW x \in Int, 0 <= x, x <= 4095
  PROVE  /\ x % 16 \in 0 .. 15 /\ (x \div 16) % 16 \in 0 .. 15 /\ x \div 256 \in 0 .. 15
         /\ x = (x % 16) + 16 * ((x \div 16) % 16) + 256 * (x \div 256)
OBVIOUS

LEMMA DigitsRead ==
  ASSUME NEW v \in Int, 0 <= v, v <= 4095, NEW w \in Int, 0 <= w, w <= 4095
  PROVE  Digits(v) # <<Off, Off, Off>> /\ (Digits(v) = Digits(w) => v = w)
<1> DEFINE v0 == v % 16
           v1 == (v \div 16) % 16
           v2 == v \div 256
           w0 == w % 16
           w1 == (w \div 16) % 16
           w2 == w \div 256
<1>1. v0 \in 0 .. 15 /\ v1 \in 0 .. 15 /\ v2 \in 0 .. 15 /\ v = v0 + 16 * v1 + 256 * v2
  BY DigitsOf
<1>2. w0 \in 0 .. 15 /\ w1 \in 0 .. 15 /\ w2 \in 0 .. 15 /\ w = w0 + 16 * w1 + 256 * w2
  BY DigitsOf
<1>3. /\ Digits(v) = <<Digit(v0), Digit(v1), Digit(v2)>>
      /\ Digits(w) = <<Digit(w0), Digit(w1), Digit(w2)>>
  BY DEF Digits
<1> HIDE DEF v0, v1, v2, w0, w1, w2
<1>4. Digit(v0) # Off
  BY <1>1, DigitReads
<1>5. ASSUME Digits(v) = Digits(w) PROVE v = w
  <2>1. Digit(v0) = Digit(w0) /\ Digit(v1) = Digit(w1) /\ Digit(v2) = Digit(w2)
    BY <1>3, <1>5
  <2>2. v0 = w0 /\ v1 = w1 /\ v2 = w2
    BY <1>1, <1>2, <2>1, DigitReads
  <2> QED
    BY <1>1, <1>2, <2>2
<1> QED
  BY <1>3, <1>4, <1>5

-----------------------------------------------------------------------------
(* The theorems. *)

\* The top never gives the range a start outside those it is proved for, so all that
\* is proved of Range holds of lab 1 (lab1.sv:170-178).
THEOREM TopIsRange == TopSpec => Spec
<1>1. TopInit => Init
  BY TopStart
<1>2. RangeInv /\ TopInv /\ [TopNext]_topVars => [Next]_vars
  BY TopStep
<1> QED
  BY <1>1, <1>2, TopAlways, PTL DEF TopSpec, Spec

\* No count is asked for, and nothing blinks, while a range runs (lab1.sv:161-221).
THEOREM ReadySafe == TopSpec => []ReadyMeansDone
<1>1. TopInv => ReadyMeansDone
  BY DEF TopInv
<1> QED
  BY <1>1, TopAlways, PTL

\* The count at rest is that of the number at the offset (lab1.sv:158-190, 236-252).
THEOREM ShownSafe == TopSpec => []ShownCount
<1>1. RangeInv /\ TopInv => ShownCount
  <2> SUFFICES ASSUME RangeInv, TopInv, steady = 2, Started, At(offset) \in Halting
               PROVE  LET k == IF ShownN = 0 THEN 0 ELSE Terms[At(offset)] % DisplayMod IN
                      /\ base_n = first => At(offset) = ShownN
                      /\ HEX = <<Off, Off, Off>> => blink_active
                      /\ HEX # <<Off, Off, Off>> =>
                            \A v \in 0 .. DisplayMod - 1 : Digits(v) = HEX <=> v = k
    BY DEF ShownCount
  <2>1. base_n \in 0 .. Modulus - RamWords /\ offset \in 0 .. RamWords - 1
    BY TopAssumption DEF TopInv, Types, Addrs
  <2>2. base_n = first => At(offset) = ShownN
    BY <2>1, SizeAssumption DEF At, ShownN
  <2>3. range_ready /\ k_display = IF ShownN = 0 THEN 0 ELSE mem[offset] % DisplayMod
    BY DEF TopInv, Pipeline
  <2>4. mem[offset] = Terms[At(offset)]
    BY <2>1, <2>3 DEF TopInv, ReadyMeansDone, RangeInv, CountsRight, Right, Addrs
  <2>5. k_display \in 0 .. DisplayMod - 1 /\ DisplayMod \in 1 .. 4096
    BY TopAssumption DEF TopInv, Types
  <2>6. \A v \in 0 .. DisplayMod - 1 :
           Digits(v) # <<Off, Off, Off>> /\ (Digits(v) = Digits(k_display) <=> v = k_display)
    <3> SUFFICES ASSUME NEW v \in 0 .. DisplayMod - 1
                 PROVE  Digits(v) # <<Off, Off, Off>>
                        /\ (Digits(v) = Digits(k_display) <=> v = k_display)
      OBVIOUS
    <3>1. /\ v \in Int /\ 0 <= v /\ v <= 4095
          /\ k_display \in Int /\ 0 <= k_display /\ k_display <= 4095
      BY <2>5
    <3> QED
      BY <3>1, DigitsRead
  <2> QED
    BY <2>2, <2>3, <2>4, <2>5, <2>6 DEF HEX
<1> QED
  BY <1>1, TopAlways, PTL
=============================================================================
