------------------------- MODULE BouncingBallProofs -------------------------
(* The disc is on the screen for every size of screen, ball and step. *)
EXTENDS BouncingBall, TLAPS

\* A position the program can have sent.
Sendable(p) ==
    /\ p \in [x : Nat, y : Nat]
    /\ Inside(p.x, SCREEN_WIDTH) /\ Inside(p.y, SCREEN_HEIGHT)

\* How far the position that is being written has come.
Progress ==
    /\ ball_x = IF pc \in {"writeY", "store"} THEN pos.x ELSE position.x
    /\ ball_y = IF pc = "store" THEN pos.y ELSE position.y

BallInv == TypeOK /\ Away /\ Sendable(pos) /\ Sendable(position) /\ Progress

-----------------------------------------------------------------------------

\* A bounce keeps the ball between the walls and turns it away from one it is at.
LEMMA BouncedInside ==
  ASSUME NEW size \in Nat, 2 * BALL_RADIUS < size,
         NEW speed \in Int \ {0}, NEW v \in {speed, -speed}, NEW p \in Int
  PROVE  LET b == Bounced(p, v, size) IN
         /\ Inside(b[1], size) /\ b[2] \in {speed, -speed}
         /\ b[1] = BALL_RADIUS => b[2] > 0
         /\ b[1] = size - BALL_RADIUS => b[2] < 0
<1>1. BALL_RADIUS \in Nat /\ v \in Int /\ v # 0
  BY ScreenAssumption
<1>2. Abs(v) \in {speed, -speed} /\ -Abs(v) \in {speed, -speed} /\ Abs(v) > 0 /\ -Abs(v) < 0
  BY DEF Abs
<1> QED
  BY <1>1, <1>2 DEF Bounced, Inside

\* Neither the cast nor the width of a register changes a coordinate.
LEMMA Fits ==
  /\ \A p : Inside(p, SCREEN_WIDTH)  => p \in 0 .. 1023 /\ p % 65536 = p /\ p % 1024 = p
  /\ \A p : Inside(p, SCREEN_HEIGHT) => p \in 0 .. 511 /\ p % 65536 = p /\ p % 512 = p
<1>1. ASSUME NEW p, Inside(p, SCREEN_WIDTH)
      PROVE  p \in 0 .. 1023 /\ p % 65536 = p /\ p % 1024 = p
  <2>1. p \in 0 .. 1023
    BY <1>1, ScreenAssumption DEF Inside
  <2> QED
    BY <2>1
<1>2. ASSUME NEW p, Inside(p, SCREEN_HEIGHT)
      PROVE  p \in 0 .. 511 /\ p % 65536 = p /\ p % 512 = p
  <2>1. p \in 0 .. 511
    BY <1>2, ScreenAssumption DEF Inside
  <2> QED
    BY <2>1
<1> QED
  BY <1>1, <1>2

LEMMA BallInit == Init => BallInv
  BY ScreenAssumption, SpeedAssumption
     DEF Init, BallInv, TypeOK, Away, Sendable, Progress, Inside, Start

LEMMA BallNext == BallInv /\ [Next]_vars => BallInv'
<1> SUFFICES ASSUME BallInv, [Next]_vars PROVE BallInv'
  OBVIOUS
<1> USE DEF BallInv
<1>1. CASE Open
  BY <1>1 DEF Open, At, ball, registers, TypeOK, Away, Sendable, Progress
<1>2. CASE End
  BY <1>2, ScreenAssumption, SpeedAssumption
     DEF End, At, registers, TypeOK, Away, Sendable, Progress, Inside
<1>3. CASE Ioctl
  <2>1. pos' = [x |-> x, y |-> y]
    BY <1>3, Fits DEF Ioctl, TypeOK
  <2>2. Sendable(pos')
    BY <2>1, Fits DEF Sendable, TypeOK
  <2> QED
    BY <1>3, <2>2 DEF Ioctl, At, ball, registers, TypeOK, Away, Sendable, Progress
<1>4. CASE WriteX
  <2>1. pos.x % 1024 = pos.x /\ pos.x \in 0 .. 1023
    BY Fits DEF Sendable
  <2> QED
    BY <1>4, <2>1 DEF WriteX, At, ball, TypeOK, Away, Sendable, Progress
<1>5. CASE WriteY
  <2>1. pos.y % 512 = pos.y /\ pos.y \in 0 .. 511
    BY Fits DEF Sendable
  <2> QED
    BY <1>5, <2>1 DEF WriteY, At, ball, TypeOK, Away, Sendable, Progress
<1>6. CASE Store
  BY <1>6 DEF Store, At, ball, registers, TypeOK, Away, Sendable, Progress
<1>7. CASE Update
  <2>1. /\ Inside(x', SCREEN_WIDTH) /\ vx' \in {SpeedX, -SpeedX}
        /\ x' = BALL_RADIUS => vx' > 0
        /\ x' = SCREEN_WIDTH - BALL_RADIUS => vx' < 0
    <3>1. /\ SCREEN_WIDTH \in Nat /\ 2 * BALL_RADIUS < SCREEN_WIDTH
          /\ SpeedX \in Int \ {0} /\ vx \in {SpeedX, -SpeedX} /\ x + vx \in Int
      BY ScreenAssumption, SpeedAssumption, Fits DEF TypeOK
    <3>2. LET b == Bounced(x + vx, vx, SCREEN_WIDTH) IN
          /\ Inside(b[1], SCREEN_WIDTH) /\ b[2] \in {SpeedX, -SpeedX}
          /\ b[1] = BALL_RADIUS => b[2] > 0
          /\ b[1] = SCREEN_WIDTH - BALL_RADIUS => b[2] < 0
      BY <3>1, BouncedInside
    <3> QED
      BY <1>7, <3>2 DEF Update
  <2>2. /\ Inside(y', SCREEN_HEIGHT) /\ vy' \in {SpeedY, -SpeedY}
        /\ y' = BALL_RADIUS => vy' > 0
        /\ y' = SCREEN_HEIGHT - BALL_RADIUS => vy' < 0
    <3>1. /\ SCREEN_HEIGHT \in Nat /\ 2 * BALL_RADIUS < SCREEN_HEIGHT
          /\ SpeedY \in Int \ {0} /\ vy \in {SpeedY, -SpeedY} /\ y + vy \in Int
      BY ScreenAssumption, SpeedAssumption, Fits DEF TypeOK
    <3>2. LET b == Bounced(y + vy, vy, SCREEN_HEIGHT) IN
          /\ Inside(b[1], SCREEN_HEIGHT) /\ b[2] \in {SpeedY, -SpeedY}
          /\ b[1] = BALL_RADIUS => b[2] > 0
          /\ b[1] = SCREEN_HEIGHT - BALL_RADIUS => b[2] < 0
      BY <3>1, BouncedInside
    <3> QED
      BY <1>7, <3>2 DEF Update
  <2>3. /\ UNCHANGED <<pos, position, ball_x, ball_y>>
        /\ pc = "update" /\ pc' = "send"
    BY <1>7 DEF Update, At, registers
  <2> QED
    BY <2>1, <2>2, <2>3 DEF TypeOK, Away, Sendable, Progress
<1>8. CASE UNCHANGED vars
  BY <1>8 DEF vars, ball, registers, TypeOK, Away, Sendable, Progress
<1> QED
  BY <1>1, <1>2, <1>3, <1>4, <1>5, <1>6, <1>7, <1>8 DEF Next, Move

LEMMA BallAlways == Spec => []BallInv
  BY BallInit, BallNext, PTL DEF Spec

-----------------------------------------------------------------------------

\* However large the screen, the ball and its step are, the disc is never drawn
\* over an edge, at no moment of a write (hello.c:61-79, vga_ball.c:56-57).
THEOREM DiscSafe == Spec => []DiscOnScreen
<1>1. BallInv => DiscOnScreen
  <2> SUFFICES ASSUME BallInv PROVE DiscOnScreen
    OBVIOUS
  <2>1. Inside(ball_x, SCREEN_WIDTH) /\ Inside(ball_y, SCREEN_HEIGHT)
    BY DEF BallInv, Progress, Sendable
  <2> QED
    BY <2>1, ScreenAssumption DEF DiscOnScreen, Inside
<1> QED
  BY <1>1, BallAlways, PTL

\* The display shows the last position, the next, or the next column on the last
\* row (vga_ball.c:54-59).
THEOREM FreshSafe == Spec => []Fresh
<1>1. BallInv => Fresh
  <2> SUFFICES ASSUME BallInv PROVE Fresh
    OBVIOUS
  <2>1. /\ pos = [x |-> pos.x, y |-> pos.y]
        /\ position = [x |-> position.x, y |-> position.y]
    BY DEF BallInv, Sendable
  <2>2. pc \in {"send", "update", "ended", "writeX"} => Shown = position
    BY <2>1 DEF BallInv, Progress, Shown
  <2>3. pc = "writeY" => Shown = [x |-> pos.x, y |-> position.y]
    BY DEF BallInv, Progress, Shown
  <2>4. pc = "store" => Shown = pos
    BY <2>1 DEF BallInv, Progress, Shown
  <2> QED
    BY <2>2, <2>3, <2>4 DEF BallInv, TypeOK, Fresh
<1> QED
  BY <1>1, BallAlways, PTL

\* No wall holds the ball (hello.c:61-79).
THEOREM AwaySafe == Spec => []Away
<1>1. BallInv => Away
  BY DEF BallInv
<1> QED
  BY <1>1, BallAlways, PTL
=============================================================================
