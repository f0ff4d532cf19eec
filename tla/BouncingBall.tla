---------------------------- MODULE BouncingBall ----------------------------
(***************************************************************************)
(* The bouncing ball of lab 3, from the program to the registers of the    *)
(* hardware: the loop of src/lab3/lab3-sw/hello.c, write_position of the   *)
(* driver (vga_ball.c), which is two bus writes and a store, and the two   *)
(* registers of vga_ball.sv, which the display reads at any moment.        *)
(* VgaBallDriver has the driver's life; here it is loaded, and one program *)
(* at a time uses it, which may be killed and started again.               *)
(***************************************************************************)
EXTENDS Integers

CONSTANTS SCREEN_WIDTH, SCREEN_HEIGHT, BALL_RADIUS,   \* of hello.c
          RADIUS,                                     \* of vga_ball.sv
          StartX, StartY, SpeedX, SpeedY

ASSUME ScreenAssumption ==
    /\ RADIUS \in Nat /\ BALL_RADIUS \in Nat /\ RADIUS < BALL_RADIUS
    /\ SCREEN_WIDTH  \in 2 * BALL_RADIUS + 1 .. 1024
    /\ SCREEN_HEIGHT \in 2 * BALL_RADIUS + 1 .. 512
    /\ StartX \in BALL_RADIUS + 1 .. SCREEN_WIDTH  - BALL_RADIUS - 1
    /\ StartY \in BALL_RADIUS + 1 .. SCREEN_HEIGHT - BALL_RADIUS - 1
ASSUME SpeedAssumption == SpeedX \in Int \ {0} /\ SpeedY \in Int \ {0}

VARIABLES
    x, y, vx, vy,      \* the program's ball
    pos,               \* the argument of the ioctl under way, or of the last
    position,          \* dev.position
    ball_x, ball_y,    \* the registers
    pc

ball      == <<x, y, vx, vy>>
registers == <<ball_x, ball_y>>
vars      == <<ball, pos, position, registers, pc>>

At(from, to) == pc = from /\ pc' = to

Start == [x |-> StartX, y |-> StartY]

-----------------------------------------------------------------------------

\* The hardware's reset and the driver's probe have put the ball in the centre.
Init ==
    /\ x = StartX /\ y = StartY /\ vx = SpeedX /\ vy = SpeedY
    /\ pos = Start /\ position = Start
    /\ ball_x = StartX /\ ball_y = StartY
    /\ pc = "ended"

\* The program is started, and opens the device.
Open ==
    /\ At("ended", "send")
    /\ UNCHANGED <<ball, pos, position, registers>>

\* It is killed, or the ioctl fails; its ball is gone.
End ==
    /\ At("send", "ended")
    /\ x' = StartX /\ y' = StartY /\ vx' = SpeedX /\ vy' = SpeedY
    /\ UNCHANGED <<pos, position, registers>>

\* The coordinates are cast to unsigned short.
Ioctl ==
    /\ At("send", "writeX")
    /\ pos' = [x |-> x % 65536, y |-> y % 65536]
    /\ UNCHANGED <<ball, position, registers>>

\* write_position; the registers have ten and nine bits.  The variant writes both
\* to the register of x.
WriteX ==
    /\ At("writeX", "writeY")
    /\ ball_x' = pos.x % 1024
    /\ UNCHANGED <<ball, pos, position, ball_y>>

WriteYNot ==
    /\ At("writeY", "store")
    /\ ball_x' = pos.y % 1024
    /\ UNCHANGED <<ball, pos, position, ball_y>>
WriteY ==
    /\ At("writeY", "store")
    /\ ball_y' = pos.y % 512
    /\ UNCHANGED <<ball, pos, position, ball_x>>

Store ==
    /\ At("store", "update")
    /\ position' = pos
    /\ UNCHANGED <<ball, pos, registers>>

Abs(v) == IF v < 0 THEN -v ELSE v

\* Off the walls at 0 and at size; the variants stop a step late, and stop for good.
BouncedLate(p, v, size) ==
    IF p <= 0 THEN <<BALL_RADIUS, Abs(v)>>
    ELSE IF p >= size THEN <<size - BALL_RADIUS, -Abs(v)>>
    ELSE <<p, v>>
BouncedNot(p, v, size) ==
    IF p - BALL_RADIUS <= 0 THEN <<BALL_RADIUS, v>>
    ELSE IF p + BALL_RADIUS >= size THEN <<size - BALL_RADIUS, v>>
    ELSE <<p, v>>
Bounced(p, v, size) ==
    IF p - BALL_RADIUS <= 0 THEN <<BALL_RADIUS, Abs(v)>>
    ELSE IF p + BALL_RADIUS >= size THEN <<size - BALL_RADIUS, -Abs(v)>>
    ELSE <<p, v>>

\* The next position, and the sleep.
Update ==
    /\ At("update", "send")
    /\ LET bx == Bounced(x + vx, vx, SCREEN_WIDTH)
           by == Bounced(y + vy, vy, SCREEN_HEIGHT)
       IN  x' = bx[1] /\ vx' = bx[2] /\ y' = by[1] /\ vy' = by[2]
    /\ UNCHANGED <<pos, position, registers>>

Move == Ioctl \/ WriteX \/ WriteY \/ Store \/ Update

Next == Open \/ End \/ Move

Spec == Init /\ [][Next]_vars

\* The program runs while it lives.
FairSpec == Spec /\ WF_vars(Move)

-----------------------------------------------------------------------------
(* What must hold. *)

\* A coordinate the program can have.
Inside(p, size) == p \in BALL_RADIUS .. size - BALL_RADIUS

TypeOK ==
    /\ Inside(x, SCREEN_WIDTH) /\ Inside(y, SCREEN_HEIGHT)
    /\ vx \in {SpeedX, -SpeedX} /\ vy \in {SpeedY, -SpeedY}
    /\ pos \in [x : Nat, y : Nat] /\ position \in [x : Nat, y : Nat]
    /\ ball_x \in 0 .. 1023 /\ ball_y \in 0 .. 511
    /\ pc \in {"ended", "send", "writeX", "writeY", "store", "update"}

\* Whenever the display looks, also between the two bus writes, the disc that the
\* hardware draws is whole and inside the picture: hello.c turns the ball round at
\* a radius of its own (hello.c:61-79, vga_ball.c:56-57, vga_ball.sv:45-57).
DiscOnScreen ==
    /\ ball_x - RADIUS >= 0 /\ ball_x + RADIUS <= SCREEN_WIDTH - 1
    /\ ball_y - RADIUS >= 0 /\ ball_y + RADIUS <= SCREEN_HEIGHT - 1

\* What the display shows is the last position, or the next, or the next column on
\* the last row: no older coordinate comes back (vga_ball.c:54-59).
Shown == [x |-> ball_x, y |-> ball_y]

Fresh ==
    /\ Shown \in {position, pos, [x |-> pos.x, y |-> position.y]}
    /\ pc \in {"send", "update", "ended"} => Shown = position

\* From a wall the ball moves away (hello.c:61-79).
Away ==
    /\ x = BALL_RADIUS => vx > 0
    /\ x = SCREEN_WIDTH - BALL_RADIUS => vx < 0
    /\ y = BALL_RADIUS => vy > 0
    /\ y = SCREEN_HEIGHT - BALL_RADIUS => vy < 0

\* The ball, as shown, comes to all four walls again and again, "making the ball
\* bounce around the screen" (hello.c:6), unless somebody stops the program.
Bounces ==
    []<>(pc = "ended") \/
        /\ []<>(ball_x = BALL_RADIUS) /\ []<>(ball_x = SCREEN_WIDTH - BALL_RADIUS)
        /\ []<>(ball_y = BALL_RADIUS) /\ []<>(ball_y = SCREEN_HEIGHT - BALL_RADIUS)
=============================================================================
