--------------------------- MODULE KeyRepeatProofs ---------------------------
(* The debouncers and the repeats of lab 1 are right for every window, delay and *)
(* period, and whatever the timers are when power comes.                         *)
EXTENDS KeyRepeat, TLAPS

KeyTypes ==
    /\ ff0 \in [Keys -> BOOLEAN] /\ ff1 \in [Keys -> BOOLEAN]
    /\ key_db \in [Keys -> BOOLEAN]
    /\ cnt \in [Keys -> 0 .. DEBOUNCE_CYCLES - 1]
    /\ past \in [Keys -> [Window -> BOOLEAN]]

\* cnt is how long the key has differed, as seen behind the synchroniser.
Differed(k) ==
    /\ ff0[k] = past[k][1] /\ ff1[k] = past[k][2]
    /\ \A i \in 3 .. cnt[k] + 2 : past[k][i] # key_db[k]
    /\ past[k][cnt[k] + 3] = key_db[k]

DebounceInv == KeyTypes /\ \A k \in Keys : Differed(k)

\* What a timer is when its key has been down for h edges: in its delay, in a period.
IsTimer(t)     == t \in [repeating : BOOLEAN, delay : Int, rep : Int]
Waiting(t, h)  == IsTimer(t) /\ ~t.repeating /\ t.delay = h - 1
InPeriod(t, h) == IsTimer(t) /\ t.repeating /\ t.rep = h - INITIAL_DELAY_CYCLES - 1

Timed(k) ==
    /\ held[k] \in 0 .. Longest
    /\ held[k] = 0 => key_prev[k] \/ key_db[k]
    /\ held[k] > 0 => ~key_prev[k]
    /\ held[k] \in 1 .. INITIAL_DELAY_CYCLES => Waiting(timer[k], held[k])
    /\ held[k] > INITIAL_DELAY_CYCLES => InPeriod(timer[k], held[k])

TimerInv == \A k \in Repeats : Timed(k)

-----------------------------------------------------------------------------
(* The debouncers. *)

LEMMA DebounceStart == DebounceInit => DebounceInv
<1> SUFFICES ASSUME DebounceInit PROVE DebounceInv
  OBVIOUS
<1>1. KeyTypes
  <2>1. cnt \in [Keys -> 0 .. DEBOUNCE_CYCLES - 1]
    BY CyclesAssumption DEF DebounceInit
  <2>2. \A k \in Keys : ff0[k] \in BOOLEAN /\ ff1[k] \in BOOLEAN /\ key_db[k] \in BOOLEAN
    BY DEF DebounceInit
  <2>3. \A k \in Keys : past[k] \in [Window -> BOOLEAN]
    BY <2>2 DEF DebounceInit
  <2>4. past \in [Keys -> [Window -> BOOLEAN]]
    BY <2>3 DEF DebounceInit
  <2> QED
    BY <2>1, <2>4 DEF DebounceInit, KeyTypes
<1>2. ASSUME NEW k \in Keys PROVE Differed(k)
  <2>1. cnt[k] = 0 /\ 1 \in Window /\ 2 \in Window /\ 3 \in Window
    BY CyclesAssumption DEF DebounceInit, Window
  <2> QED
    BY <2>1 DEF DebounceInit, Differed
<1> QED
  BY <1>1, <1>2 DEF DebounceInv

\* What an edge does to one key.
LEMMA Samples ==
  ASSUME NEW key_in \in [Keys -> BOOLEAN], Settle(key_in), NEW k \in Keys
  PROVE  /\ ff0'[k] = past'[k][1]
         /\ \A i \in 2 .. DEBOUNCE_CYCLES + 2 : past'[k][i] = past[k][i - 1]
<1>1. 1 \in Window /\ \A i \in 2 .. DEBOUNCE_CYCLES + 2 : i \in Window /\ i # 1
  BY CyclesAssumption DEF Window
<1> QED
  BY <1>1 DEF Settle

LEMMA TypesSettle ==
  ASSUME KeyTypes, NEW key_in \in [Keys -> BOOLEAN], Settle(key_in)
  PROVE  KeyTypes'
<1>1. \A k \in Keys : NextDb(k) \in BOOLEAN
  BY DEF NextDb, KeyTypes
<1>2. \A k \in Keys : NextCnt(k) \in 0 .. DEBOUNCE_CYCLES - 1
  BY CyclesAssumption DEF NextCnt, Enough, KeyTypes
<1>3. \A k \in Keys, i \in Window : i # 1 => i - 1 \in Window
  BY CyclesAssumption DEF Window
<1>4. past' \in [Keys -> [Window -> BOOLEAN]]
  BY <1>3 DEF KeyTypes, Settle
<1>5. key_db' \in [Keys -> BOOLEAN]
  BY <1>1 DEF Settle
<1>6. cnt' \in [Keys -> 0 .. DEBOUNCE_CYCLES - 1]
  BY <1>2 DEF Settle
<1> QED
  BY <1>4, <1>5, <1>6 DEF KeyTypes, Settle

\* A key that differs has differed for one sample more than cnt says, ff1.
LEMMA DifferedOneMore ==
  ASSUME DebounceInv, NEW k \in Keys, Differs(k),
         NEW key_in \in [Keys -> BOOLEAN], Settle(key_in),
         NEW i \in Int, 3 <= i, i <= cnt[k] + 3
  PROVE  past'[k][i] = ff1[k] /\ past'[k][i] # key_db[k]
<1>1. cnt[k] \in 0 .. DEBOUNCE_CYCLES - 1 /\ key_db[k] \in BOOLEAN /\ ff1[k] \in BOOLEAN
  BY DEF DebounceInv, KeyTypes
<1>2. i \in 2 .. DEBOUNCE_CYCLES + 2 /\ i - 1 \in Window
  BY <1>1, CyclesAssumption DEF Window
<1>3. past'[k][i] = past[k][i - 1]
  BY <1>2, Samples
<1>4. past[k][i - 1] \in BOOLEAN
  BY <1>2 DEF DebounceInv, KeyTypes
<1>5. past[k][i - 1] # key_db[k]
  <2>1. CASE i = 3
    BY <2>1 DEF DebounceInv, Differed, Differs
  <2>2. CASE i # 3
    <3>1. i - 1 \in 3 .. cnt[k] + 2
      BY <2>2, <1>1
    <3> QED
      BY <3>1 DEF DebounceInv, Differed
  <2> QED
    BY <2>1, <2>2
<1>6. past[k][i - 1] = ff1[k]
  BY <1>1, <1>4, <1>5 DEF Differs
<1> QED
  BY <1>3, <1>5, <1>6

LEMMA DifferedSettle ==
  ASSUME DebounceInv, NEW key_in \in [Keys -> BOOLEAN], Settle(key_in), NEW k \in Keys
  PROVE  Differed(k)'
<1>1. ff0'[k] = past'[k][1] /\ ff1'[k] = past'[k][2]
  BY Samples, CyclesAssumption DEF DebounceInv, Differed, Settle
<1>2. cnt[k] \in 0 .. DEBOUNCE_CYCLES - 1 /\ cnt'[k] = NextCnt(k) /\ key_db'[k] = NextDb(k)
  BY DEF DebounceInv, KeyTypes, Settle
<1>3. past'[k][3] = ff1[k]
  BY Samples, CyclesAssumption DEF DebounceInv, Differed
<1>4. CASE ~Differs(k)
  BY <1>1, <1>2, <1>3, <1>4 DEF NextCnt, NextDb, Differed, Differs
<1>5. CASE Differs(k) /\ Enough(k)
  BY <1>1, <1>2, <1>3, <1>5 DEF NextCnt, NextDb, Differed
<1>6. CASE Differs(k) /\ ~Enough(k)
  <2>1. cnt'[k] = cnt[k] + 1 /\ key_db'[k] = key_db[k] /\ cnt[k] + 1 \in 0 .. DEBOUNCE_CYCLES - 1
    BY <1>2, <1>6, CyclesAssumption DEF NextCnt, NextDb, Enough
  <2>2. ASSUME NEW i \in 3 .. cnt'[k] + 2 PROVE past'[k][i] # key_db'[k]
    <3>1. i \in Int /\ 3 <= i /\ i <= cnt[k] + 3
      BY <1>2, <2>1
    <3> QED
      BY <1>6, <2>1, <3>1, DifferedOneMore
  <2>3. past'[k][cnt'[k] + 3] = past[k][cnt[k] + 3]
    BY <2>1, <1>2, Samples, CyclesAssumption
  <2>4. past'[k][cnt'[k] + 3] = key_db'[k]
    BY <2>1, <2>3 DEF DebounceInv, Differed
  <2> QED
    BY <1>1, <2>2, <2>4 DEF Differed
<1> QED
  BY <1>4, <1>5, <1>6

LEMMA DebounceNext ==
  ASSUME DebounceInv, NEW key_in \in [Keys -> BOOLEAN], Settle(key_in)
  PROVE  DebounceInv'
<1>1. KeyTypes'
  BY TypesSettle DEF DebounceInv
<1>2. ASSUME NEW k \in Keys PROVE Differed(k)'
  BY DifferedSettle
<1> QED
  BY <1>1, <1>2 DEF DebounceInv

LEMMA DebounceStep == DebounceInv /\ [Next]_vars => DebounceInv'
<1> SUFFICES ASSUME DebounceInv, [Next]_vars PROVE DebounceInv'
  OBVIOUS
<1>1. CASE Next
  <2>1. PICK key_in \in [Keys -> BOOLEAN] : Settle(key_in)
    BY <1>1 DEF Next, Tick
  <2> QED
    BY <2>1, DebounceNext
<1>2. CASE UNCHANGED vars
  BY <1>2 DEF vars, debouncers, DebounceInv, KeyTypes, Differed
<1> QED
  BY <1>1, <1>2

LEMMA DebounceAlways == Spec => []DebounceInv
<1>1. Init => DebounceInv
  BY DebounceStart DEF Init
<1> QED
  BY <1>1, DebounceStep, PTL DEF Spec

\* A key that has been the same for the window, whatever its bounces before, has
\* reached key_db (lab1.sv:269-298).
THEOREM Following == Spec => []Follows
<1>1. DebounceInv => Follows
  <2> SUFFICES ASSUME DebounceInv, NEW k \in Keys,
                      \A i, j \in Counted : past[k][i] = past[k][j]
               PROVE  key_db[k] = past[k][3]
    BY DEF Follows
  <2>1. cnt[k] + 3 \in Counted /\ 3 \in Counted
    BY CyclesAssumption DEF DebounceInv, KeyTypes, Counted
  <2> QED
    BY <2>1 DEF DebounceInv, Differed
<1> QED
  BY <1>1, DebounceAlways, PTL

\* key_db changes only to what the key has been for the whole window
\* (lab1.sv:287-298).
THEOREM Glitches == Spec => NoGlitch
<1> DEFINE Glitch == \A k \in Keys : key_db'[k] # key_db[k] =>
                         \A i \in Counted : past'[k][i] = key_db'[k]
<1>1. DebounceInv /\ [Next]_vars => [Glitch]_debouncers
  <2> SUFFICES ASSUME DebounceInv, [Next]_vars, ~UNCHANGED debouncers,
                      NEW k \in Keys, key_db'[k] # key_db[k], NEW i \in Counted
               PROVE  past'[k][i] = key_db'[k]
    BY DEF Glitch
  <2>1. PICK key_in \in [Keys -> BOOLEAN] : Settle(key_in)
    BY DEF Next, Tick, vars
  <2>2. Differs(k) /\ Enough(k) /\ key_db'[k] = ff1[k]
    BY <2>1 DEF Settle, NextDb
  <2>3. i \in Int /\ 3 <= i /\ i <= cnt[k] + 3
    BY <2>2, CyclesAssumption DEF Counted, Enough
  <2> QED
    BY <2>1, <2>2, <2>3, DifferedOneMore
<1> QED
  BY <1>1, DebounceAlways, PTL DEF NoGlitch, Glitch, Spec

-----------------------------------------------------------------------------
(* The repeats. *)

LEMMA TimerStart == Init => TimerInv
<1> SUFFICES ASSUME Init, NEW k \in Repeats PROVE Timed(k)
  BY DEF TimerInv
<1>1. held[k] = 0 /\ key_db[k]
  BY KeysAssumption DEF Init, DebounceInit
<1> QED
  BY <1>1, RepeatAssumption DEF Timed, Longest

LEMMA TimedTick ==
  ASSUME TimerInv, NEW key_in, Tick(key_in), NEW k \in Repeats
  PROVE  Timed(k)'
<1>1. /\ held'[k] = NextHeld(k) /\ timer'[k] = NextTimer(k)
      /\ key_prev'[k] = key_db[k]
  BY DEF Tick
<1>2. Timed(k)
  BY DEF TimerInv
<1>3. /\ INITIAL_DELAY_CYCLES \in Nat \ {0} /\ REPEAT_CYCLES \in Nat \ {0}
      /\ Longest = INITIAL_DELAY_CYCLES + REPEAT_CYCLES
  BY RepeatAssumption DEF Longest
<1>4. CASE key_db[k]
  BY <1>1, <1>3, <1>4 DEF NextHeld, Timed, Longest
<1>5. CASE ~key_db[k] /\ key_prev[k]
  <2>1. held'[k] = 1 /\ timer'[k] = Rest
    BY <1>1, <1>5 DEF NextHeld, NextTimer, KeyFall
  <2>2. Waiting(Rest, 1)
    BY DEF Rest, Waiting, IsTimer
  <2> QED
    BY <1>1, <1>3, <1>5, <2>1, <2>2 DEF Timed, Longest
<1>6. CASE ~key_db[k] /\ ~key_prev[k]
  <2>1. held[k] \in 1 .. Longest
    BY <1>2, <1>6 DEF Timed
  <2>2. ~KeyFall(k)
    BY <1>6 DEF KeyFall
  <2>3. CASE held[k] < INITIAL_DELAY_CYCLES
    <3>1. Waiting(timer[k], held[k])
      BY <1>2, <1>3, <2>1, <2>3 DEF Timed
    <3>2. held'[k] = held[k] + 1
      BY <1>1, <1>3, <1>6, <2>1, <2>2, <2>3 DEF NextHeld
    <3>3. Waiting(timer'[k], held[k] + 1)
      <4>1. ~timer[k].repeating /\ timer[k].delay = held[k] - 1
        BY <3>1 DEF Waiting
      <4>2. ~Delayed(k) /\ ~Repeated(k)
        BY <1>3, <2>1, <2>3, <4>1 DEF Delayed, Repeated
      <4>3. timer'[k] = [timer[k] EXCEPT !.delay = @ + 1]
        BY <1>1, <1>6, <2>2, <4>1, <4>2 DEF NextTimer
      <4> QED
        BY <2>1, <1>3, <3>1, <4>1, <4>3 DEF Waiting, IsTimer, Longest
    <3> QED
      BY <1>1, <1>3, <1>6, <2>1, <2>3, <3>2, <3>3 DEF Timed, Longest
  <2>4. CASE held[k] = INITIAL_DELAY_CYCLES
    <3>1. Waiting(timer[k], held[k])
      BY <1>2, <1>3, <2>1, <2>4 DEF Timed
    <3>2. held'[k] = held[k] + 1
      BY <1>1, <1>3, <1>6, <2>1, <2>2, <2>4 DEF NextHeld
    <3>3. InPeriod(timer'[k], held[k] + 1)
      <4>1. Delayed(k)
        BY <1>3, <2>4, <3>1 DEF Waiting, Delayed
      <4>2. timer'[k] = [Rest EXCEPT !.repeating = TRUE]
        BY <1>1, <1>6, <2>2, <4>1 DEF NextTimer
      <4>3. IsTimer(Rest) /\ Rest.rep = 0
        BY DEF IsTimer, Rest
      <4>4. IsTimer(timer'[k])
        BY <4>2, <4>3 DEF IsTimer
      <4>5. timer'[k].repeating = TRUE
        BY <4>2, <4>3 DEF IsTimer
      <4>6. timer'[k].rep = 0
        BY <4>2, <4>3 DEF IsTimer
      <4> QED
        BY <1>3, <2>4, <4>4, <4>5, <4>6 DEF InPeriod
    <3> QED
      BY <1>1, <1>3, <1>6, <2>1, <2>4, <3>2, <3>3 DEF Timed, Longest
  <2>5. CASE held[k] > INITIAL_DELAY_CYCLES /\ held[k] < Longest
    <3>1. InPeriod(timer[k], held[k])
      BY <1>2, <2>5 DEF Timed
    <3>2. held'[k] = held[k] + 1
      BY <1>1, <1>3, <1>6, <2>1, <2>2, <2>5 DEF NextHeld
    <3>3. InPeriod(timer'[k], held[k] + 1)
      <4>1. timer[k].repeating /\ timer[k].rep = held[k] - INITIAL_DELAY_CYCLES - 1
        BY <3>1 DEF InPeriod
      <4>2. ~Delayed(k) /\ ~Repeated(k)
        BY <1>3, <2>1, <2>5, <4>1 DEF Delayed, Repeated
      <4>3. timer'[k] = [timer[k] EXCEPT !.rep = @ + 1]
        BY <1>1, <1>6, <2>2, <4>1, <4>2 DEF NextTimer
      <4> QED
        BY <1>3, <2>1, <3>1, <4>1, <4>3 DEF InPeriod, IsTimer
    <3> QED
      BY <1>1, <1>3, <1>6, <2>1, <2>5, <3>2, <3>3 DEF Timed, Longest
  <2>6. CASE held[k] = Longest
    <3>1. InPeriod(timer[k], held[k])
      BY <1>2, <1>3, <2>6 DEF Timed
    <3>2. held'[k] = INITIAL_DELAY_CYCLES + 1
      BY <1>1, <1>3, <1>6, <2>2, <2>6 DEF NextHeld
    <3>3. InPeriod(timer'[k], INITIAL_DELAY_CYCLES + 1)
      <4>1. timer[k].repeating /\ timer[k].rep = REPEAT_CYCLES - 1
        BY <1>3, <2>6, <3>1 DEF InPeriod
      <4>2. timer'[k] = [timer[k] EXCEPT !.rep = 0]
        BY <1>1, <1>6, <2>2, <4>1 DEF NextTimer, Delayed, Repeated
      <4> QED
        BY <1>3, <2>1, <3>1, <4>2 DEF InPeriod, IsTimer
    <3> QED
      BY <1>1, <1>3, <1>6, <3>2, <3>3 DEF Timed, Longest
  <2> QED
    BY <1>3, <2>1, <2>3, <2>4, <2>5, <2>6
<1> QED
  BY <1>4, <1>5, <1>6

LEMMA TimerStep == TimerInv /\ [Next]_vars => TimerInv'
<1> SUFFICES ASSUME TimerInv, [Next]_vars PROVE TimerInv'
  OBVIOUS
<1>1. CASE Next
  <2>1. PICK key_in \in [Keys -> BOOLEAN] : Tick(key_in)
    BY <1>1 DEF Next
  <2>2. ASSUME NEW k \in Repeats PROVE Timed(k)'
    BY <2>1, TimedTick
  <2> QED
    BY <2>2 DEF TimerInv
<1>2. CASE UNCHANGED vars
  BY <1>2 DEF vars, debouncers, TimerInv, Timed
<1> QED
  BY <1>1, <1>2

\* A press gives a pulse at once, the next after the delay and a period, and one each
\* period from then on, whatever an earlier press has left (lab1.sv:85-109).
THEOREM Pulses == Spec => PulsesDue
<1> DEFINE Due == \A k \in Repeats :
                     pulse'[k] <=> KeyFall(k) \/ (~key_db[k] /\ held[k] = Longest)
<1>1. TimerInv /\ [Next]_vars => [Due]_vars
  <2> SUFFICES ASSUME TimerInv, Next, NEW k \in Repeats
               PROVE  pulse'[k] <=> KeyFall(k) \/ (~key_db[k] /\ held[k] = Longest)
    BY DEF Due
  <2>1. pulse'[k] = NextPulse(k)
    BY DEF Next, Tick
  <2>2. ASSUME ~key_db[k], ~key_prev[k] PROVE Repeated(k) <=> held[k] = Longest
    <3>1. Timed(k) /\ held[k] \in 1 .. Longest
      BY <2>2 DEF TimerInv, Timed
    <3>2. CASE held[k] <= INITIAL_DELAY_CYCLES
      BY <3>1, <3>2, RepeatAssumption DEF Timed, Longest, Waiting, Repeated
    <3>3. CASE held[k] > INITIAL_DELAY_CYCLES
      BY <3>1, <3>3, RepeatAssumption DEF Timed, Longest, InPeriod, Repeated
    <3> QED
      BY <3>1, <3>2, <3>3, RepeatAssumption DEF Longest
  <2> QED
    BY <2>1, <2>2 DEF NextPulse, KeyFall
<1>2. Spec => []TimerInv
  BY TimerStart, TimerStep, PTL DEF Spec
<1> QED
  BY <1>1, <1>2, PTL DEF PulsesDue, Due, Spec
=============================================================================
