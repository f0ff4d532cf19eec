------------------------- MODULE VgaBallDriverProofs -------------------------
(* The mapping is there whenever an ioctl uses it, nothing is left behind, and a *)
(* position is whole once one write_position has run alone, for any number of    *)
(* processes.                                                                    *)
EXTENDS VgaBallDriver, TLAPS

\* What the module holds at each label of probe and remove.
Holdings ==
    /\ region <=> mod \in {"iomap", "init", "position", "live", "unmap", "release"}
    /\ virtbase = "mapped" <=> mod \in {"init", "position", "live", "unmap"}
    /\ mod \in {"absent", "register"} => ~registered

\* Who has not opened too early uses the device while it is live, and only then;
\* probe is in write_position at one label.
Users ==
    /\ \A p \in Procs \ early : proc[p] # "closed" => mod = "live" /\ proc[p] # "lost"
    /\ mod = "absent" => Unused
    /\ IF mod = "position" THEN proc[Kernel] \in Writing ELSE proc[Kernel] = "closed"

\* How far a write_position that runs alone has got.
Progress(c) ==
    /\ Writers = {c}
    /\ proc[c] # "x" => ball.x = vla[c].x
    /\ proc[c] \in {"store x", "store y"} => ball.y = vla[c].y
    /\ proc[c] = "store y" => position.x = vla[c].x

Alone ==
    \A c \in Writers : vla[c] \in Given /\ (c \notin beside => Progress(c))

\* What is there when none runs, and what a read beside none has got of it.
Quiet ==
    /\ mod = "live" /\ mixed = {} /\ Writers = {} =>
          position = ball /\ position \in Given
    /\ \A p \in Procs \ beside : proc[p] \in Reading =>
          /\ Writers = {}
          /\ mod = "live" /\ mixed = {} =>
                /\ proc[p] # "load x" => vla[p].x = position.x
                /\ proc[p] = "copy" => vla[p].y = position.y

DriverInv == TypeOK /\ Holdings /\ Users /\ Alone /\ Quiet

USE DriverAssumption DEF Callers

LEMMA GivenPositions == Given \subseteq Positions
<1> SUFFICES ASSUME NEW g \in Given PROVE g \in Positions
  OBVIOUS
<1>1. PICK c \in Coords : g = Whole(c)
  BY DEF Given
<1> QED
  BY <1>1 DEF Whole, Positions

LEMMA DriverInit == Init => DriverInv
<1> SUFFICES ASSUME Init PROVE DriverInv
  OBVIOUS
<1> USE DEF Init
<1>1. \A c \in Callers : proc[c] = "closed"
  OBVIOUS
<1>2. Writers = {} /\ Busy = {}
  BY <1>1 DEF Writers, Busy, Writing, Reading
<1>3. Whole(0) \in Positions /\ Whole(Start) \in Positions
  BY DEF Whole, Positions
<1>4. TypeOK
  BY <1>2, <1>3 DEF TypeOK, Labels, Probing
<1>5. Holdings /\ Users
  BY <1>1 DEF Holdings, Users, Unused
<1>6. Alone /\ Quiet
  BY <1>1, <1>2 DEF Alone, Quiet, Reading
<1> QED
  BY <1>4, <1>5, <1>6 DEF DriverInv

\* How a step of one caller changes who writes and who is busy.
LEMMA GoSets ==
  ASSUME TypeOK, NEW c \in Callers, NEW from, NEW to, Go(c, from, to)
  PROVE  /\ Writers' = IF to \in Writing THEN Writers \cup {c} ELSE Writers \ {c}
         /\ Busy' = IF to \in Writing \cup Reading THEN Busy \cup {c} ELSE Busy \ {c}
         /\ proc[c] = from /\ proc'[c] = to
         /\ \A d \in Callers \ {c} : proc'[d] = proc[d]
  BY DEF TypeOK, Go, Writers, Busy

\* The steps of probe and remove that leave the calls alone.
LEMMA ModuleNext ==
  ASSUME DriverInv,
         Insmod \/ Register \/ GetResource \/ RequestRegion \/ Iomap \/ Release
         \/ Rmmod \/ Unmap
  PROVE  DriverInv'
<1>1. UNCHANGED <<ball, vla, mixed, proc, early, beside>>
  BY DEF Insmod, Register, GetResource, RequestRegion, Iomap, Release, Rmmod, Unmap, positions
<1>2. Writers' = Writers /\ Busy' = Busy
  BY <1>1 DEF Writers, Busy
<1>3. mod' # "live" /\ mod' # "position" /\ mod' \in Labels /\ mod # "position"
  BY DEF Insmod, Register, GetResource, RequestRegion, Iomap, Release, Rmmod, Unmap, Goto,
         Labels, Probing
<1>4. position' = position \/ (mod = "absent" /\ position' = Whole(0))
  BY DEF Insmod, Register, GetResource, RequestRegion, Iomap, Release, Rmmod, Unmap, positions,
         Goto
<1>5. mod = "absent" => Writers = {}
  BY DEF DriverInv, TypeOK, Users, Unused, Writers, Writing
<1>6. mod' # "absent" /\ (mod = "live" => Unused)
  BY DEF Insmod, Register, GetResource, RequestRegion, Iomap, Release, Rmmod, Unmap, Goto
<1>8. Holdings' /\ region' \in BOOLEAN /\ registered' \in BOOLEAN
      /\ virtbase' \in {"null", "mapped", "unmapped"}
  <2> USE DEF Goto, resources, DriverInv, TypeOK, Holdings
  <2>1. CASE Insmod
    BY <2>1 DEF Insmod
  <2>2. CASE Register
    BY <2>2 DEF Register
  <2>3. CASE GetResource
    BY <2>3 DEF GetResource
  <2>4. CASE RequestRegion
    <3>1. CASE mod' = "iomap" /\ region'
      BY <2>4, <3>1 DEF RequestRegion
    <3>2. CASE mod' = "deregister" /\ region' = region
      BY <2>4, <3>2 DEF RequestRegion
    <3> QED
      BY <2>4, <3>1, <3>2 DEF RequestRegion
  <2>5. CASE Iomap
    BY <2>5 DEF Iomap
  <2>6. CASE Release
    BY <2>6 DEF Release
  <2>7. CASE Rmmod
    BY <2>7 DEF Rmmod
  <2>8. CASE Unmap
    BY <2>8 DEF Unmap
  <2> QED
    BY <2>1, <2>2, <2>3, <2>4, <2>5, <2>6, <2>7, <2>8
<1>9. TypeOK'
  BY <1>1, <1>2, <1>3, <1>4, <1>8 DEF DriverInv, TypeOK, Positions, Whole
<1>10. Users'
  BY <1>1, <1>3, <1>6 DEF DriverInv, Users, Unused
<1>11. Alone'
  BY <1>1, <1>2, <1>4, <1>5 DEF DriverInv, Alone, Progress
<1>12. Quiet'
  BY <1>1, <1>2, <1>3 DEF DriverInv, Quiet
<1> QED
  BY <1>8, <1>9, <1>10, <1>11, <1>12 DEF DriverInv

LEMMA DeregisterNext == ASSUME DriverInv, Deregister PROVE DriverInv'
<1> USE DEF Deregister, Goto, DriverInv
<1>1. TypeOK' /\ Writers' = {} /\ Unused'
  BY DEF TypeOK, Labels, Writers, Busy, Writing, Reading, Unused
<1>2. Holdings'
  BY DEF Holdings
<1>3. Users'
  BY <1>1 DEF TypeOK, Users
<1>4. Alone' /\ Quiet'
  BY <1>1 DEF TypeOK, Alone, Quiet, Writing, Reading
<1> QED
  BY <1>1, <1>2, <1>3, <1>4

\* Opening and closing.
LEMMA OpenNext ==
  ASSUME DriverInv, NEW p \in Procs, Open(p) \/ Close(p)
  PROVE  DriverInv'
<1>1. PICK from \in {"closed", "open"}, to \in {"closed", "open"} : Go(p, from, to)
  BY DEF Open, Close
<1>2. UNCHANGED <<mod, registered, region, virtbase, ball, position, vla, beside, mixed>>
  BY DEF Open, Close, resources, positions
<1>3. /\ Writers' = Writers /\ Busy' = Busy /\ proc'[p] = to /\ proc[p] = from
      /\ \A d \in Callers \ {p} : proc'[d] = proc[d]
  BY <1>1, GoSets DEF DriverInv, Writing, Reading, Writers, Busy
<1>4. /\ early' \subseteq Procs
      /\ \A q \in Procs \ early' : q = p \/ q \in Procs \ early
      /\ p \in Procs \ early' => mod = "live"
  <2>1. CASE Open(p)
    BY <2>1 DEF Open, DriverInv, TypeOK
  <2>2. CASE Close(p)
    BY <2>2, <1>3 DEF Close, Go, DriverInv, TypeOK, Users
  <2> QED
    BY <2>1, <2>2
<1>5. TypeOK'
  BY <1>1, <1>2, <1>3, <1>4 DEF DriverInv, TypeOK, Go
<1>6. Holdings'
  BY <1>2 DEF DriverInv, Holdings
<1>7. mod # "absent"
  BY <1>3 DEF DriverInv, Users, Unused, Open, Close, GivesReferences, Failing, Probing, Go
<1>8. Users'
  BY <1>1, <1>2, <1>3, <1>4, <1>7 DEF DriverInv, TypeOK, Users
<1>9. Alone'
  BY <1>2, <1>3 DEF DriverInv, Alone, Progress, Writers, Writing
<1>10. Quiet'
  BY <1>1, <1>2, <1>3 DEF DriverInv, Quiet, Reading
<1> QED
  BY <1>5, <1>6, <1>8, <1>9, <1>10 DEF DriverInv

\* Calls begin.
LEMMA InitPositionNext == ASSUME DriverInv, InitPosition PROVE DriverInv'
<1>1. /\ mod = "init" /\ mod' = "position"
      /\ Go(Kernel, "closed", "x")
      /\ vla' = [vla EXCEPT ![Kernel] = Whole(Start)]
      /\ UNCHANGED <<registered, region, virtbase, ball, position, mixed, early>>
      /\ beside' = beside \cup (IF Writers = {} THEN {} ELSE {Kernel}) \cup Busy
  BY DEF InitPosition, Begin, Goto, resources, Writing
<1>2. Kernel \in Callers /\ Whole(Start) \in Positions \cap Given
  BY DEF Whole, Positions, Given
<1>3. /\ Writers' = Writers \cup {Kernel} /\ Busy' = Busy \cup {Kernel}
      /\ proc[Kernel] = "closed" /\ proc'[Kernel] = "x"
      /\ \A d \in Callers \ {Kernel} : proc'[d] = proc[d]
  BY <1>1, <1>2, GoSets DEF DriverInv, Writing
<1>4. vla'[Kernel] = Whole(Start) /\ \A d \in Callers \ {Kernel} : vla'[d] = vla[d]
  BY <1>1, <1>2 DEF DriverInv, TypeOK
<1>5. beside' \subseteq Busy' /\ Busy \subseteq beside'
  BY <1>1, <1>2, <1>3 DEF DriverInv, TypeOK, Busy, Writers
<1>6. TypeOK'
  BY <1>1, <1>2, <1>3, <1>5 DEF DriverInv, TypeOK, Labels, Probing, Go, Writing
<1>7. Holdings'
  BY <1>1 DEF DriverInv, Holdings
<1>8. Users'
  BY <1>1, <1>3 DEF DriverInv, Users, Writing
<1>9. \A c \in Writers' \ beside' : c = Kernel /\ Writers = {}
  BY <1>1, <1>3, <1>5 DEF Writers, Busy
<1>10. Alone'
  <2>1. \A c \in Writers' : vla'[c] \in Given
    BY <1>2, <1>3, <1>4 DEF DriverInv, Alone, Writers
  <2>2. \A c \in Writers' \ beside' : Writers' = {c} /\ proc'[c] = "x"
    BY <1>3, <1>9
  <2> QED
    BY <2>1, <2>2 DEF Alone, Progress
<1>11. \A p \in Procs \ beside' : proc'[p] \notin Reading
  BY <1>3, <1>5 DEF Busy
<1>12. Quiet'
  BY <1>1, <1>11 DEF Quiet
<1> QED
  BY <1>6, <1>7, <1>8, <1>10, <1>12 DEF DriverInv

LEMMA IoctlNext == ASSUME DriverInv, NEW p \in Procs, Ioctl(p) PROVE DriverInv'
<1>1. PICK to \in {"x", "load x"} : Begin(p, "open", to)
  BY DEF Ioctl
<1>2. /\ Go(p, "open", to) /\ p \in Callers
      /\ UNCHANGED <<mod, registered, region, virtbase, ball, position, mixed, early>>
      /\ beside' = beside \cup (IF Writers = {} THEN {} ELSE {p})
                          \cup (IF to = "x" THEN Busy ELSE {})
  BY <1>1 DEF Begin, Ioctl, resources, Writing
<1>3. /\ Writers' = IF to = "x" THEN Writers \cup {p} ELSE Writers \ {p}
      /\ Busy' = Busy \cup {p}
      /\ proc[p] = "open" /\ proc'[p] = to
      /\ \A d \in Callers \ {p} : proc'[d] = proc[d]
  <2>1. to \in Writing <=> to = "x"
    BY DEF Writing
  <2>2. to \in Writing \cup Reading
    BY DEF Writing, Reading
  <2> QED
    BY <1>2, <2>1, <2>2, GoSets DEF DriverInv
<1>4. p \notin Writers /\ p \notin Busy /\ p \notin beside
  BY <1>3 DEF DriverInv, TypeOK, Writers, Busy, Writing, Reading
<1>5. Given \subseteq Positions
  BY GivenPositions
<1>6. /\ vla' \in [Callers -> Positions]
      /\ \A d \in Callers \ {p} : vla'[d] = vla[d]
      /\ to = "x" => vla'[p] \in Given
  <2>1. CASE UNCHANGED vla /\ to = "load x"
    BY <2>1 DEF DriverInv, TypeOK
  <2>2. ASSUME NEW g \in Given, vla' = [vla EXCEPT ![p] = g]
        PROVE  <1>6!:
    BY <2>2, <1>2, <1>5 DEF DriverInv, TypeOK
  <2>3. to = "load x" => UNCHANGED vla
    BY <1>3 DEF Ioctl, Begin, Go, DriverInv, TypeOK
  <2>4. to = "x" => \E g \in Given : vla' = [vla EXCEPT ![p] = g]
    BY <1>3 DEF Ioctl, Begin, Go, DriverInv, TypeOK
  <2> QED
    BY <2>1, <2>2, <2>3, <2>4
<1>7. beside' \subseteq Busy' /\ (to = "x" => Busy \subseteq beside')
  BY <1>2, <1>3 DEF DriverInv, TypeOK
<1>8. TypeOK'
  BY <1>2, <1>3, <1>6, <1>7 DEF DriverInv, TypeOK, Go, Writing, Reading
<1>9. Holdings'
  BY <1>2 DEF DriverInv, Holdings
<1>10. Users'
  BY <1>2, <1>3 DEF DriverInv, Users, Unused
<1>11. CASE to = "x"
  <2>1. \A c \in Writers' \ beside' : c = p /\ Writers = {}
    BY <1>2, <1>3, <1>7, <1>11 DEF Writers, Busy
  <2>2. Alone'
    <3>1. \A c \in Writers' : vla'[c] \in Given
      BY <1>3, <1>6, <1>11 DEF DriverInv, Alone, Writers
    <3>2. \A c \in Writers' \ beside' : Writers' = {c} /\ proc'[c] = "x"
      BY <1>3, <1>11, <2>1
    <3> QED
      BY <3>1, <3>2 DEF Alone, Progress
  <2>3. \A q \in Procs \ beside' : proc'[q] \notin Reading
    BY <1>3, <1>7, <1>11 DEF Busy, Reading
  <2>4. p \in Writers'
    BY <1>3, <1>11
  <2> QED
    BY <1>2, <1>8, <1>9, <1>10, <2>2, <2>3, <2>4 DEF DriverInv, Quiet
<1>12. CASE to = "load x"
  <2>1. Writers' = Writers /\ beside \subseteq beside' /\ \A c \in Writers : c # p
    BY <1>2, <1>3, <1>4, <1>12
  <2>2. Alone'
    <3>1. \A c \in Writers : c \in Callers /\ vla'[c] = vla[c] /\ proc'[c] = proc[c]
      BY <1>3, <1>6, <2>1 DEF Writers
    <3> QED
      BY <1>2, <2>1, <3>1 DEF DriverInv, Alone, Progress
  <2>3. p \notin beside' => Writers = {}
    BY <1>2
  <2>4. ASSUME NEW q \in Procs \ beside', proc'[q] \in Reading
        PROVE  /\ Writers' = {}
               /\ mod' = "live" /\ mixed' = {} =>
                    /\ proc'[q] # "load x" => vla'[q].x = position'.x
                    /\ proc'[q] = "copy" => vla'[q].y = position'.y
    <3>1. CASE q = p
      BY <1>3, <1>12, <2>1, <2>3, <2>4, <3>1
    <3>2. CASE q # p
      <4>1. q \notin beside /\ proc'[q] = proc[q] /\ vla'[q] = vla[q]
        BY <1>3, <1>6, <2>1, <2>4, <3>2
      <4> QED
        BY <1>2, <2>1, <2>4, <4>1 DEF DriverInv, Quiet
    <3> QED
      BY <3>1, <3>2
  <2>5. Quiet'
    BY <1>2, <2>1, <2>4 DEF DriverInv, Quiet
  <2> QED
    BY <1>8, <1>9, <1>10, <2>2, <2>5 DEF DriverInv
<1> QED
  BY <1>11, <1>12

\* A step of a write_position that leaves what the module holds alone: the calls
\* that are beside it are beside it still.
LEMMA BusWriteNext ==
  ASSUME DriverInv, NEW c \in Callers, WriteX(c) \/ WriteY(c)
  PROVE  DriverInv'
<1>1. PICK from \in {"x", "y"} :
        /\ proc[c] = from
        /\ IF from = "x" THEN WriteX(c) ELSE WriteY(c)
  BY DEF WriteX, WriteY, BusWrite, Go, End
<1>2. UNCHANGED <<mod, registered, region, virtbase, position, vla, mixed, early>>
  BY <1>1 DEF WriteX, WriteY, BusWrite, resources
<1>3. c \in Writers /\ vla[c] \in Given /\ vla[c] \in Positions
  BY <1>1, GivenPositions DEF DriverInv, Alone, Writers, Writing
<1>4. CASE virtbase = "mapped"
  <2> DEFINE to == IF from = "x" THEN "y" ELSE "store x"
  <2>1. /\ Go(c, from, to) /\ UNCHANGED beside
        /\ ball' = IF from = "x" THEN [ball EXCEPT !.x = vla[c].x]
                                 ELSE [ball EXCEPT !.y = vla[c].y]
    BY <1>1, <1>4 DEF WriteX, WriteY, BusWrite
  <2>2. to \in Writing /\ from \in Writing
    BY DEF Writing
  <2> HIDE DEF to
  <2>3. /\ Writers' = Writers /\ Busy' = Busy /\ proc'[c] = to
        /\ \A d \in Callers \ {c} : proc'[d] = proc[d]
    BY <1>3, <2>1, <2>2, GoSets DEF DriverInv, Writers, Busy
  <2>4. ball' \in Positions
    BY <1>3, <2>1 DEF DriverInv, TypeOK, Positions
  <2>5. TypeOK'
    BY <1>2, <2>1, <2>2, <2>3, <2>4 DEF DriverInv, TypeOK, Go
  <2>6. Holdings'
    BY <1>2 DEF DriverInv, Holdings
  <2>7. Users'
    BY <1>2, <1>3, <2>2, <2>3 DEF DriverInv, Users, Unused, Writers, Writing
  <2>8. ASSUME NEW d \in Writers, d \notin beside PROVE Progress(d)'
    <3>1. Progress(d) /\ d = c
      BY <1>3, <2>8 DEF DriverInv, Alone, Progress
    <3>2. ball \in Positions
      BY DEF DriverInv, TypeOK
    <3>3. CASE from = "x"
      <4>1. ball'.x = vla[c].x /\ to = "y"
        BY <2>1, <3>2, <3>3 DEF to, Positions
      <4> QED
        BY <1>2, <2>3, <3>1, <4>1 DEF Progress
    <3>4. CASE from = "y"
      <4>1. ball'.y = vla[c].y /\ ball'.x = ball.x /\ to = "store x"
        BY <2>1, <3>2, <3>4 DEF to, Positions
      <4> QED
        BY <1>1, <1>2, <2>3, <3>1, <3>4, <4>1 DEF Progress
    <3> QED
      BY <3>3, <3>4
  <2>9. Alone'
    BY <1>2, <2>1, <2>3, <2>8 DEF DriverInv, Alone
  <2>10. Writers' # {} /\ \A p \in Procs \ beside' : proc'[p] \notin Reading
    BY <1>3, <2>1, <2>2, <2>3 DEF DriverInv, Quiet, Reading, Writing
  <2> QED
    BY <2>5, <2>6, <2>7, <2>9, <2>10 DEF DriverInv, Quiet
<1>5. CASE virtbase # "mapped"
  <2>1. /\ Go(c, from, "closed") /\ beside' = beside \ {c} /\ UNCHANGED ball
    BY <1>1, <1>5 DEF WriteX, WriteY, BusWrite, End
  <2>2. c # Kernel /\ mod # "live"
    BY <1>3, <1>5 DEF DriverInv, Holdings, Users, Writers, Writing
  <2>3. /\ Writers' = Writers \ {c} /\ Busy' = Busy \ {c} /\ proc'[c] = "closed"
        /\ \A d \in Callers \ {c} : proc'[d] = proc[d]
    BY <2>1, GoSets DEF DriverInv, Writing, Reading
  <2>4. TypeOK'
    BY <1>2, <2>1, <2>3 DEF DriverInv, TypeOK, Go
  <2>5. Holdings'
    BY <1>2 DEF DriverInv, Holdings
  <2>6. Users'
    BY <1>2, <2>2, <2>3 DEF DriverInv, Users, Unused
  <2>7. \A d \in Writers' : d \in Writers /\ d # c /\ proc'[d] = proc[d]
    BY <2>3 DEF Writers
  <2>8. Alone'
    BY <1>2, <1>3, <2>1, <2>7 DEF DriverInv, Alone, Progress
  <2>9. Quiet'
    BY <1>2, <1>3, <2>1, <2>2, <2>3 DEF DriverInv, Quiet, Reading
  <2> QED
    BY <2>4, <2>5, <2>6, <2>8, <2>9 DEF DriverInv
<1> QED
  BY <1>4, <1>5

LEMMA StoreXNext == ASSUME DriverInv, NEW c \in Callers, StoreX(c) PROVE DriverInv'
<1>1. /\ Go(c, "store x", "store y")
      /\ position' = [position EXCEPT !.x = vla[c].x]
      /\ UNCHANGED <<mod, registered, region, virtbase, ball, vla, beside, mixed, early>>
  BY DEF StoreX, resources
<1>2. /\ Writers' = Writers /\ Busy' = Busy
      /\ proc[c] = "store x" /\ proc'[c] = "store y" /\ c \in Writers
      /\ \A d \in Callers \ {c} : proc'[d] = proc[d]
  BY <1>1, GoSets DEF DriverInv, Writers, Busy, Writing
<1>3. vla[c] \in Positions /\ position \in Positions
  BY DEF DriverInv, TypeOK
<1>4. position' \in Positions /\ position'.x = vla[c].x
  BY <1>1, <1>3 DEF Positions
<1>5. TypeOK'
  BY <1>1, <1>2, <1>4 DEF DriverInv, TypeOK, Go, Writing
<1>6. Holdings'
  BY <1>1 DEF DriverInv, Holdings
<1>7. Users'
  BY <1>1, <1>2 DEF DriverInv, Users, Unused, Writing
<1>8. \A d \in Writers : d \notin beside => Progress(d) /\ d = c
  BY <1>2 DEF DriverInv, Alone, Progress
<1>9. Alone'
  BY <1>1, <1>2, <1>4, <1>8 DEF DriverInv, Alone, Progress
<1>10. Writers' # {} /\ \A p \in Procs \ beside' : proc'[p] \notin Reading
  BY <1>1, <1>2 DEF DriverInv, Quiet, Reading
<1> QED
  BY <1>5, <1>6, <1>7, <1>9, <1>10 DEF DriverInv, Quiet

\* The end of a write_position: one that has run alone leaves its position.
LEMMA StoreYNext == ASSUME DriverInv, NEW c \in Callers, StoreY(c) PROVE DriverInv'
<1> DEFINE to == IF c = Kernel THEN "closed" ELSE "open"
<1>1. /\ Go(c, "store y", to)
      /\ beside' = beside \ {c} /\ mixed' = beside \cap {c}
      /\ position' = [position EXCEPT !.y = vla[c].y]
      /\ mod' = IF c = Kernel THEN "live" ELSE mod
      /\ UNCHANGED <<registered, region, virtbase, ball, vla, early>>
  BY DEF StoreY, End, resources
<1>2. to \in {"closed", "open"} /\ to \notin Writing \cup Reading
  BY DEF Writing, Reading
<1>3. (c = Kernel => to = "closed") /\ (c # Kernel => to = "open")
  OBVIOUS
<1> HIDE DEF to
<1>4. /\ Writers' = Writers \ {c} /\ Busy' = Busy \ {c}
      /\ proc[c] = "store y" /\ proc'[c] = to /\ c \in Writers
      /\ \A d \in Callers \ {c} : proc'[d] = proc[d]
  BY <1>1, <1>2, GoSets DEF DriverInv, Writers, Writing
<1>5. vla[c] \in Given /\ vla[c] \in Positions /\ position \in Positions /\ ball \in Positions
  BY <1>4, GivenPositions DEF DriverInv, TypeOK, Alone
<1>6. position' \in Positions /\ position'.y = vla[c].y /\ position'.x = position.x
  BY <1>1, <1>5 DEF Positions
<1>7. c = Kernel => mod = "position"
  BY <1>4 DEF DriverInv, Users
<1>8. c # Kernel => c \in Procs /\ mod # "absent" /\ (c \notin early => mod = "live")
  BY <1>4 DEF DriverInv, Users, Unused
<1>9. TypeOK'
  <2>1. mod' \in Labels /\ beside' \subseteq Busy' /\ mixed' \subseteq Callers
    BY <1>1, <1>4 DEF DriverInv, TypeOK, Labels
  <2> QED
    BY <1>1, <1>2, <1>4, <1>6, <2>1 DEF DriverInv, TypeOK, Go
<1>10. Holdings'
  BY <1>1, <1>7 DEF DriverInv, Holdings
<1>11. Users'
  <2>1. CASE c = Kernel
    BY <1>1, <1>3, <1>4, <1>7, <2>1 DEF DriverInv, Users
  <2>2. CASE c # Kernel
    BY <1>1, <1>3, <1>4, <1>8, <2>2 DEF DriverInv, Users
  <2> QED
    BY <2>1, <2>2
<1>12. Alone'
  <2>1. \A d \in Writers' : d \in Writers /\ d # c /\ d \in beside /\ vla'[d] \in Given
    BY <1>1, <1>4 DEF DriverInv, Alone, Progress
  <2> QED
    BY <1>1, <2>1 DEF Alone
<1>13. mixed' = {} => position' = ball /\ position' \in Given
  <2> SUFFICES ASSUME c \notin beside PROVE position' = ball /\ position' \in Given
    BY <1>1
  <2>1. ball.x = vla[c].x /\ ball.y = vla[c].y /\ position.x = vla[c].x
    BY <1>4 DEF DriverInv, Alone, Progress
  <2>2. position' = ball
    BY <1>5, <1>6, <2>1 DEF Positions
  <2>3. vla[c] = position'
    BY <1>5, <1>6, <2>1 DEF Positions
  <2> QED
    BY <1>5, <2>2, <2>3
<1>14. ASSUME NEW p \in Procs \ beside' PROVE proc'[p] \notin Reading
  <2>1. CASE p = c
    BY <1>2, <1>4, <2>1
  <2>2. CASE p # c
    <3>1. p \notin beside /\ proc'[p] = proc[p] /\ Writers # {}
      BY <1>1, <1>4, <2>2
    <3> QED
      BY <3>1 DEF DriverInv, Quiet
  <2> QED
    BY <2>1, <2>2
<1> QED
  BY <1>1, <1>9, <1>10, <1>11, <1>12, <1>13, <1>14 DEF DriverInv, Quiet

LEMMA ReadNext ==
  ASSUME DriverInv, NEW p \in Procs, Load(p) \/ Copy(p)
  PROVE  DriverInv'
<1>1. PICK from \in Reading, to \in {"load y", "copy", "open"} :
        /\ Go(p, from, to)
        /\ from = "load x" =>
             to = "load y" /\ vla' = [vla EXCEPT ![p].x = position.x] /\ UNCHANGED beside
        /\ from = "load y" =>
             to = "copy" /\ vla' = [vla EXCEPT ![p].y = position.y] /\ UNCHANGED beside
        /\ from = "copy" => to = "open" /\ UNCHANGED vla /\ beside' = beside \ {p}
  BY DEF Load, Copy, End, Reading
<1>2. UNCHANGED <<mod, registered, region, virtbase, ball, position, mixed, early>>
  BY DEF Load, Copy, resources
<1>3. from \notin Writing /\ to \notin Writing
  BY DEF Reading, Writing
<1>4. /\ Writers' = Writers /\ p \notin Writers /\ proc[p] = from /\ proc'[p] = to
      /\ \A d \in Callers \ {p} : proc'[d] = proc[d]
      /\ Busy' = IF to = "open" THEN Busy \ {p} ELSE Busy \cup {p}
  <2>1. to \in Writing \cup Reading <=> to # "open"
    BY DEF Writing, Reading
  <2>2. p \notin Writers
    BY <1>1, <1>3 DEF Go, Writers
  <2> QED
    <3>1. Go(p, from, to) /\ p \in Callers
      BY <1>1
    <3>2. Writers \ {p} = Writers
      BY <2>2
    <3>3. /\ Writers' = IF to \in Writing THEN Writers \cup {p} ELSE Writers \ {p}
          /\ Busy' = IF to \in Writing \cup Reading THEN Busy \cup {p} ELSE Busy \ {p}
          /\ proc[p] = from /\ proc'[p] = to
          /\ \A d \in Callers \ {p} : proc'[d] = proc[d]
      BY <3>1, GoSets DEF DriverInv
    <3> QED
      BY <1>3, <2>1, <2>2, <3>2, <3>3
<1>5. vla[p] \in Positions /\ position \in Positions
  BY DEF DriverInv, TypeOK
<1>6. /\ vla' \in [Callers -> Positions]
      /\ \A d \in Callers \ {p} : vla'[d] = vla[d]
      /\ from = "load x" => vla'[p].x = position.x
      /\ from = "load y" => vla'[p].x = vla[p].x /\ vla'[p].y = position.y
  <2>1. CASE from = "load x"
    <3>1. vla' = [vla EXCEPT ![p] = [vla[p] EXCEPT !.x = position.x]]
      BY <1>1, <2>1
    <3>2. [vla[p] EXCEPT !.x = position.x] \in Positions
      BY <1>5 DEF Positions
    <3> QED
      BY <1>5, <2>1, <3>1, <3>2 DEF DriverInv, TypeOK, Positions
  <2>2. CASE from = "load y"
    <3>1. vla' = [vla EXCEPT ![p] = [vla[p] EXCEPT !.y = position.y]]
      BY <1>1, <2>2
    <3>2. [vla[p] EXCEPT !.y = position.y] \in Positions
      BY <1>5 DEF Positions
    <3> QED
      BY <1>5, <2>2, <3>1, <3>2 DEF DriverInv, TypeOK, Positions
  <2>3. CASE from = "copy"
    BY <1>1, <2>3 DEF DriverInv, TypeOK
  <2> QED
    BY <2>1, <2>2, <2>3 DEF Reading
<1>7. beside' \subseteq Busy' /\ beside' \subseteq beside /\ beside \subseteq beside' \cup {p}
  BY <1>1, <1>4 DEF DriverInv, TypeOK, Reading
<1>8. TypeOK'
  BY <1>1, <1>2, <1>6, <1>7 DEF DriverInv, TypeOK, Go, Reading
<1>9. Holdings'
  BY <1>2 DEF DriverInv, Holdings
<1>10. Users'
  BY <1>1, <1>2, <1>4 DEF DriverInv, Users, Unused, Reading
<1>11. Alone'
  <2>1. \A c \in Writers : /\ vla'[c] = vla[c] /\ proc'[c] = proc[c]
                           /\ c \notin beside' => c \notin beside
    <3>1. Writers \subseteq Callers
      BY DEF Writers
    <3> QED
      BY <1>4, <1>6, <1>7, <3>1
  <2> QED
    BY <1>2, <1>4, <2>1 DEF DriverInv, Alone, Progress
<1>12. ASSUME NEW q \in Procs \ beside', proc'[q] \in Reading
       PROVE  /\ Writers' = {}
              /\ mod' = "live" /\ mixed' = {} =>
                   /\ proc'[q] # "load x" => vla'[q].x = position'.x
                   /\ proc'[q] = "copy" => vla'[q].y = position'.y
  <2>1. CASE q = p
    <3>1. p \notin beside /\ from # "copy"
      BY <1>1, <1>4, <1>12, <2>1 DEF Reading
    <3>2. /\ Writers = {}
          /\ mod = "live" /\ mixed = {} => (from = "load y" => vla[p].x = position.x)
      BY <1>4, <3>1 DEF DriverInv, Quiet
    <3> QED
      BY <1>1, <1>2, <1>4, <1>6, <2>1, <3>1, <3>2 DEF Reading
  <2>2. CASE q # p
    <3>1. q \notin beside /\ proc'[q] = proc[q] /\ vla'[q] = vla[q]
      BY <1>1, <1>4, <1>6, <2>2 DEF Reading
    <3> QED
      BY <1>2, <1>4, <1>12, <3>1 DEF DriverInv, Quiet
  <2> QED
    BY <2>1, <2>2
<1>13. Quiet'
  BY <1>2, <1>4, <1>12 DEF DriverInv, Quiet
<1> QED
  BY <1>8, <1>9, <1>10, <1>11, <1>13 DEF DriverInv

LEMMA DriverNext == DriverInv /\ [Next]_vars => DriverInv'
<1> SUFFICES ASSUME DriverInv, [Next]_vars PROVE DriverInv'
  OBVIOUS
<1>1. CASE Insmod \/ Register \/ GetResource \/ RequestRegion \/ Iomap \/ Release
           \/ Rmmod \/ Unmap
  BY <1>1, ModuleNext
<1>2. CASE Deregister
  BY <1>2, DeregisterNext
<1>3. CASE InitPosition
  BY <1>3, InitPositionNext
<1>4. ASSUME NEW p \in Procs, Open(p) \/ Close(p) PROVE DriverInv'
  BY <1>4, OpenNext
<1>5. ASSUME NEW p \in Procs, Ioctl(p) PROVE DriverInv'
  BY <1>5, IoctlNext
<1>6. ASSUME NEW c \in Callers, WriteX(c) \/ WriteY(c) PROVE DriverInv'
  BY <1>6, BusWriteNext
<1>7. ASSUME NEW c \in Callers, StoreX(c) PROVE DriverInv'
  BY <1>7, StoreXNext
<1>8. ASSUME NEW c \in Callers, StoreY(c) PROVE DriverInv'
  BY <1>8, StoreYNext
<1>9. ASSUME NEW p \in Procs, Load(p) \/ Copy(p) PROVE DriverInv'
  BY <1>9, ReadNext
<1>10. CASE UNCHANGED vars
  BY <1>10 DEF vars, resources, positions, DriverInv, TypeOK, Holdings, Users, Unused,
             Alone, Progress, Quiet, Writers, Busy
<1> QED
  BY <1>1, <1>2, <1>3, <1>4, <1>5, <1>6, <1>7, <1>8, <1>9, <1>10 DEF Next, Probe

\* An ioctl never writes through a mapping that is not there yet, or no longer,
\* for any number of processes (vga_ball.c:52-59, 93, 145).
THEOREM MappingSafe == Spec => []WritesReachRegisters
<1>1. DriverInv => WritesReachRegisters
  <2> SUFFICES ASSUME DriverInv, NEW c \in Callers \ early, proc[c] \in Writing
               PROVE  virtbase = "mapped"
    BY DEF WritesReachRegisters
  <2> QED
    BY DEF DriverInv, Holdings, Users, Writing
<1> QED
  BY <1>1, DriverInit, DriverNext, PTL DEF Spec

\* No failure of probe and no unloading leaves anything behind
\* (vga_ball.c:135-149).
THEOREM LeftSafe == Spec => []NothingLeft
<1>1. DriverInv => NothingLeft
  BY DEF DriverInv, Holdings, Users, Unused, NothingLeft
<1> QED
  BY <1>1, DriverInit, DriverNext, PTL DEF Spec

\* Whatever calls have run at once, one write_position alone makes the registers and
\* dev.position whole and equal, and a read alone returns it, for any number of
\* processes and any positions (vga_ball.c:54-59, 78, 132).
THEOREM WholeSafe == Spec => []WholePositions
<1>1. DriverInv => WholePositions
  <2> SUFFICES ASSUME DriverInv, mod = "live", mixed = {}
               PROVE  /\ Writers = {} => position = ball /\ position \in Given
                      /\ \A p \in Procs \ (early \cup beside) :
                            proc[p] = "copy" => vla[p] = position
    BY DEF WholePositions
  <2>1. ASSUME NEW p \in Procs, p \notin beside, proc[p] = "copy" PROVE vla[p] = position
    <3>1. vla[p] \in Positions /\ position \in Positions
      BY DEF DriverInv, TypeOK
    <3>2. vla[p].x = position.x /\ vla[p].y = position.y
      BY <2>1 DEF DriverInv, Quiet, Reading
    <3> QED
      BY <3>1, <3>2 DEF Positions
  <2> QED
    BY <2>1 DEF DriverInv, Quiet
<1> QED
  BY <1>1, DriverInit, DriverNext, PTL DEF Spec
=============================================================================
