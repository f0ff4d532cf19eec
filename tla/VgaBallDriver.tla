---------------------------- MODULE VgaBallDriver ----------------------------
(***************************************************************************)
(* The life of the driver of lab 3 (src/lab3/lab3-sw/vga_ball.c): it is    *)
(* loaded, probes the device, serves ioctl calls of the processes that     *)
(* hold the device open, and is unloaded, again and again.  An ioctl and   *)
(* the probe are several steps each, between which anything else happens.  *)
(* Loading, unloading and opening are the kernel's, modelled from how the  *)
(* driver uses them: a process that opens the device takes a reference to  *)
(* the module of .owner, which keeps it loaded, and no reference is given  *)
(* to a module that is on its way out, but is given to one that is on its  *)
(* way in; if the probe then fails, the kernel frees the module under such *)
(* a process, and what becomes of it is nobody's to say: it is lost.       *)
(* platform_driver_probe, with which the driver is registered, leaves no   *)
(* other way to unbind the device.                                         *)
(***************************************************************************)
EXTENDS Naturals

CONSTANTS
    Procs,
    Kernel,      \* who runs probe
    Coords,      \* one number stands for both coordinates of a position, so that
                 \* two positions have none in common
    Start        \* the position of the reset and of probe

ASSUME DriverAssumption ==
    Kernel \notin Procs /\ Coords \subseteq Nat \ {0} /\ Start \in Coords

Callers   == Procs \cup {Kernel}
Whole(c)  == [x |-> c, y |-> c]
Given     == {Whole(c) : c \in Coords}
Positions == [x : Coords \cup {0}, y : Coords \cup {0}]

VARIABLES
    mod,         \* where the module is: its state, or a label of probe or remove
    registered,  \* whether the misc device is
    region,      \* whether the memory region is held
    virtbase,    \* "null", "mapped", "unmapped"
    ball,        \* the registers of the device
    position,    \* dev.position
    proc,        \* each caller: "closed", "open", "lost", or a label of its call
    vla,         \* each caller's copy of a position
    early,       \* history: the processes that have opened the device before the
                 \* probe had ended
    beside,      \* history: the calls that run beside a write_position of another
    mixed        \* history: the caller of the last write_position to end, if that did

resources == <<registered, region, virtbase>>
positions == <<ball, position, vla, beside, mixed>>
vars      == <<mod, resources, positions, proc, early>>

Goto(from, to) == mod = from /\ mod' = to

-----------------------------------------------------------------------------
(* vga_ball_probe. *)

Init ==
    /\ mod = "absent"
    /\ registered = FALSE /\ region = FALSE /\ virtbase = "null"
    /\ ball = Whole(Start) /\ position = Whole(0)
    /\ proc = [c \in Callers |-> "closed"] /\ vla = [c \in Callers |-> Whole(0)]
    /\ early = {} /\ beside = {} /\ mixed = {}

\* A fresh copy of the module's data.
Insmod ==
    /\ Goto("absent", "register")
    /\ virtbase' = "null" /\ position' = Whole(0)
    /\ UNCHANGED <<registered, region, ball, vla, beside, mixed, proc, early>>

\* The result is not looked at.
Register ==
    /\ Goto("register", "resource")
    /\ registered' \in BOOLEAN
    /\ UNCHANGED <<region, virtbase, positions, proc, early>>

GetResource ==
    /\ Goto("resource", "region") \/ Goto("resource", "deregister")
    /\ UNCHANGED <<resources, positions, proc, early>>

RequestRegion ==
    /\ \/ Goto("region", "iomap") /\ region' = TRUE
       \/ Goto("region", "deregister") /\ UNCHANGED region
    /\ UNCHANGED <<registered, virtbase, positions, proc, early>>

\* The variant leaves by the other label.
IomapLeaks ==
    /\ \/ Goto("iomap", "init") /\ virtbase' = "mapped"
       \/ Goto("iomap", "deregister") /\ UNCHANGED virtbase
    /\ UNCHANGED <<registered, region, positions, proc, early>>
Iomap ==
    /\ \/ Goto("iomap", "init") /\ virtbase' = "mapped"
       \/ Goto("iomap", "release") /\ UNCHANGED virtbase
    /\ UNCHANGED <<registered, region, positions, proc, early>>

\* The two error labels, which remove passes too; the module is gone behind them.
Release ==
    /\ Goto("release", "deregister")
    /\ region' = FALSE
    /\ UNCHANGED <<registered, virtbase, positions, proc, early>>

Deregister ==
    /\ Goto("deregister", "absent")
    /\ registered' = FALSE
    /\ proc' = [c \in Callers |-> IF proc[c] = "closed" THEN "closed" ELSE "lost"]
    /\ beside' = {}
    /\ UNCHANGED <<region, virtbase, ball, position, vla, mixed, early>>

-----------------------------------------------------------------------------
(* vga_ball_remove. *)

\* rmmod waits for nobody: it fails while a process holds the device open.  Without
\* an .owner it would not.
UnusedNot == TRUE
Unused    == \A p \in Procs : proc[p] \in {"closed", "lost"}

Rmmod ==
    /\ Unused /\ Goto("live", "unmap")
    /\ UNCHANGED <<resources, positions, proc, early>>

Unmap ==
    /\ Goto("unmap", "release")
    /\ virtbase' = "unmapped"
    /\ UNCHANGED <<registered, region, positions, proc, early>>

-----------------------------------------------------------------------------
(* The calls. *)

Writing == {"x", "y", "store x", "store y"}
Reading == {"load x", "load y", "copy"}
Writers == {c \in Callers : proc[c] \in Writing}
Busy    == {c \in Callers : proc[c] \in Writing \cup Reading}

Go(c, from, to) == proc[c] = from /\ proc' = [proc EXCEPT ![c] = to]

\* A call begins: write_position, which all the calls that go on now run beside, or
\* a read.
Begin(c, from, to) ==
    /\ Go(c, from, to)
    /\ beside' = beside \cup (IF Writers = {} THEN {} ELSE {c})
                        \cup (IF to \in Writing THEN Busy ELSE {})
    /\ UNCHANGED <<resources, ball, position, mixed, early>>

End(c, from, to) == Go(c, from, to) /\ beside' = beside \ {c}

InitPosition ==
    /\ Goto("init", "position") /\ Begin(Kernel, "closed", "x")
    /\ vla' = [vla EXCEPT ![Kernel] = Whole(Start)]

Probe == Register \/ GetResource \/ RequestRegion \/ Iomap \/ InitPosition

Probing == {"register", "resource", "region", "iomap", "init", "position"}

\* At the error labels of probe, where remove, which has unmapped, is not.
Failing == mod \in {"release", "deregister"} /\ virtbase = "null"

\* The module gives references until it is on its way out.
GivesReferences == mod \in Probing \cup {"live"} \/ Failing

Open(p) ==
    /\ registered /\ GivesReferences
    /\ Go(p, "closed", "open")
    /\ early' = IF mod = "live" THEN early \ {p} ELSE early \cup {p}
    /\ UNCHANGED <<mod, resources, positions>>

Close(p) == Go(p, "open", "closed") /\ UNCHANGED <<mod, resources, positions, early>>

\* copy_from_user has worked, or the position is to be read; a copy that fails and
\* a command the driver does not have change nothing.
Ioctl(p) ==
    /\ \/ /\ Begin(p, "open", "x")
          /\ \E g \in Given : vla' = [vla EXCEPT ![p] = g]
       \/ Begin(p, "open", "load x") /\ UNCHANGED vla
    /\ UNCHANGED mod

\* A bus write of write_position.  Without the mapping it faults: the process is
\* killed and its file closed.
BusWrite(c, from, to, registers) ==
    /\ \/ virtbase = "mapped" /\ Go(c, from, to) /\ ball' = registers /\ UNCHANGED beside
       \/ virtbase # "mapped" /\ End(c, from, "closed") /\ UNCHANGED ball
    /\ UNCHANGED <<mod, resources, position, vla, mixed, early>>

WriteX(c) == BusWrite(c, "x", "y", [ball EXCEPT !.x = vla[c].x])

\* The variant forgets the offset.
WriteYOver(c) == BusWrite(c, "y", "store x", [ball EXCEPT !.x = vla[c].y])
WriteY(c)     == BusWrite(c, "y", "store x", [ball EXCEPT !.y = vla[c].y])

\* dev.position = *pos, a copy of two halfwords that other calls may come between;
\* behind the one of probe the module is live.
StoreX(c) ==
    /\ Go(c, "store x", "store y")
    /\ position' = [position EXCEPT !.x = vla[c].x]
    /\ UNCHANGED <<mod, resources, ball, vla, beside, mixed, early>>

StoreY(c) ==
    /\ End(c, "store y", IF c = Kernel THEN "closed" ELSE "open")
    /\ position' = [position EXCEPT !.y = vla[c].y]
    /\ mod' = IF c = Kernel THEN "live" ELSE mod
    /\ mixed' = beside \cap {c}
    /\ UNCHANGED <<resources, ball, vla, early>>

\* vla.position = dev.position, in two halves too, and the copy to the process.
Load(p) ==
    /\ \/ Go(p, "load x", "load y") /\ vla' = [vla EXCEPT ![p].x = position.x]
       \/ Go(p, "load y", "copy")   /\ vla' = [vla EXCEPT ![p].y = position.y]
    /\ UNCHANGED <<mod, resources, ball, position, beside, mixed, early>>

Copy(p) ==
    /\ End(p, "copy", "open")
    /\ UNCHANGED <<mod, resources, ball, position, vla, mixed, early>>

Next ==
    \/ Insmod \/ Probe \/ Release \/ Deregister
    \/ Rmmod \/ Unmap
    \/ \E c \in Callers : WriteX(c) \/ WriteY(c) \/ StoreX(c) \/ StoreY(c)
    \/ \E p \in Procs : Open(p) \/ Close(p) \/ Ioctl(p) \/ Load(p) \/ Copy(p)

Spec == Init /\ [][Next]_vars

-----------------------------------------------------------------------------
(* What must hold. *)

Labels == Probing \cup {"absent", "live", "unmap", "release", "deregister"}

TypeOK ==
    /\ mod \in Labels
    /\ registered \in BOOLEAN /\ region \in BOOLEAN
    /\ virtbase \in {"null", "mapped", "unmapped"}
    /\ ball \in Positions /\ position \in Positions /\ vla \in [Callers -> Positions]
    /\ proc \in [Callers -> {"closed", "open", "lost"} \cup Writing \cup Reading]
    /\ early \subseteq Procs /\ beside \subseteq Busy /\ mixed \subseteq Callers

\* "Write ball position to hardware registers" (vga_ball.c:52): when an ioctl gets
\* to its bus writes the registers are mapped, although remove unmaps them before
\* it takes the device away (vga_ball.c:93, 145-147).  A process that has opened
\* the device between misc_register and the end of probe has no such promise
\* (vga_ball.c:112, 126), but takes it from nobody else.
WritesReachRegisters ==
    \A c \in Callers \ early : proc[c] \in Writing => virtbase = "mapped"

\* Whichever steps of probe fail, and after remove, nothing is left behind, so the
\* module can be loaded again; and only a process that opened the device too early
\* is lost (vga_ball.c:135-149).
NothingLeft ==
    /\ mod = "absent" =>
          /\ ~registered /\ ~region /\ virtbase # "mapped"
          /\ Unused
    /\ \A p \in Procs \ early : proc[p] # "lost"

\* No lock keeps two calls of write_position apart (vga_ball.c:54-59), and two that
\* run at once may leave the x of one with the y of the other, in the registers, in
\* dev.position, or differently in the two.  One write_position that runs alone, the
\* one of probe included, makes up for all that: from its end to the next one's
\* beginning the registers and dev.position hold one and the same position, and an
\* ioctl that reads meanwhile returns it whole, never memory nobody has set.
WholePositions ==
    mod = "live" /\ mixed = {} =>
        /\ Writers = {} => position = ball /\ position \in Given
        /\ \A p \in Procs \ (early \cup beside) : proc[p] = "copy" => vla[p] = position
=============================================================================
