-------------------------- MODULE ChatClientProofs --------------------------
(***************************************************************************)
(* What holds of the chat client for every value of its constants.         *)
(***************************************************************************)
EXTENDS ChatClientRefinement, SequenceTheorems, TLAPS

\* A thread that main has yet to create holds nothing.
Unborn ==
    /\ pc["main"] \in {"start", "connect", "spawnNet"} => pc["net"] = "unborn"
    /\ pc["main"] \in {"start", "connect", "spawnNet", "spawnBlink"} =>
           pc["blink"] = "unborn"

LockInv == pc = [t \in Threads |-> pc[t]] /\ Unborn /\ LockHeld

LEMMA LockInit == Init => LockInv
  BY DEF Init, LockInv, LockHeld, Unborn, Threads, Critical

LEMMA LockNext == LockInv /\ [Next]_vars => LockInv'
<1> SUFFICES ASSUME LockInv, [Next]_vars PROVE LockInv'
  OBVIOUS
<1> USE DEF Threads
<1>1. CASE Startup
  <2>1. fb_lock' = fb_lock
    BY <1>1 DEF Startup, OpenScreen, Connect, SpawnNet, SpawnBlink, world
  <2>2. CASE OpenScreen \/ Connect
    <3>1. \/ pc["main"] = "start" /\ Goto("main", "connect")
          \/ pc["main"] = "connect" /\ Goto("main", "spawnNet")
          \/ pc["main"] \in {"start", "connect"} /\ Goto("main", "exited")
      BY <2>2 DEF OpenScreen, Connect, At
    <3> QED
      BY <2>1, <3>1 DEF Goto, Critical, LockInv, LockHeld, Unborn
  <2>3. CASE SpawnNet \/ SpawnBlink
    BY <2>1, <2>3 DEF SpawnNet, SpawnBlink, At, Critical, LockInv, LockHeld, Unborn
  <2> QED
    BY <1>1, <2>2, <2>3 DEF Startup
<1>2. ASSUME NEW k \in Pressed, KeyReport(k) PROVE LockInv'
  <2>1. fb_lock' = fb_lock
    BY <1>2 DEF KeyReport, KeyEsc, KeyRelease, KeyNoEffect, KeyLeft, KeyRight,
                KeyArrow, KeyCaps, KeyBackspace, KeyChar, KeyEnter, Step, world
  <2>2. /\ pc["main"] = "key"
        /\ \/ pc' = pc
           \/ \E to \in {"cancelNet", "load", "lock", "move", "write"} :
                 Goto("main", to)
    BY <1>2 DEF KeyReport, KeyEsc, KeyRelease, KeyNoEffect, KeyLeft, KeyRight,
                KeyArrow, KeyCaps, KeyBackspace, KeyChar, KeyEnter, TakeKey,
                Redraw, Step, Jump, At
  <2> QED
    BY <2>1, <2>2 DEF Goto, Critical, LockInv, LockHeld, Unborn
<1>3. CASE Edit
  BY <1>3 DEF Edit, Move, Put, StoreLen, LoadCursor, StoreCursor, Redraw, Jump,
              At, Goto, Critical, world, LockInv, LockHeld, Unborn
<1>4. CASE Send
  BY <1>4 DEF Send, WriteSome, WriteEnds, WriteKills, Wipe, Step, Jump,
              At, Goto, Critical, world, LockInv, LockHeld, Unborn
<1>5. CASE Quit
  BY <1>5 DEF Quit, CancelNet, CancelBlink, Cancel, JoinNet, JoinBlink, Step,
              Jump, At, Goto, Critical, world, LockInv, LockHeld, Unborn
<1>6. ASSUME NEW t \in Drawers, Draw(t) PROVE LockInv'
  BY <1>6 DEF Drawers, Draw, DrawRow1, DrawRow2, DrawCursor, Jump, At, Goto,
              Critical, LockInv, LockHeld, Unborn
<1>7. ASSUME NEW t \in Threads, Lock(t) PROVE LockInv'
  BY <1>7 DEF Lock, Unlocked, Jump, At, Goto, Critical, LockInv, LockHeld, Unborn
<1>8. ASSUME NEW t \in Threads, Unlock(t) PROVE LockInv'
  BY <1>8 DEF Unlock, Home, Jump, At, Goto, Critical, LockInv, LockHeld, Unborn
<1>9. CASE Blink \/ NetRead \/ NetEnd
  BY <1>9 DEF Blink, NetRead, NetEnd, Step, Jump, At, Goto, Critical, world,
              LockInv, LockHeld, Unborn
<1>10. CASE Net
  BY <1>10 DEF Net, NetPrintf, Clamp, ClampLow, ClampLowStore, ClampHigh,
               ClampHighStore, PrintChat, Step, Jump, At, Goto, Critical, world,
               LockInv, LockHeld, Unborn
<1>11. ASSUME NEW t \in {"net", "blink"}, ActOnCancel(t) PROVE LockInv'
  BY <1>11 DEF ActOnCancel, CancellationPoints, Goto, Critical, LockInv, LockHeld, Unborn
<1>12. CASE ServerCloses \/ Terminated \/ UNCHANGED vars
  BY <1>12 DEF ServerCloses, Terminated, vars, world, LockInv, LockHeld, Unborn
<1> QED
  BY <1>1, <1>2, <1>3, <1>4, <1>5, <1>6, <1>7, <1>8, <1>9, <1>10, <1>11, <1>12
     DEF Next

\* Mutual exclusion of the drawing threads, whatever the server sends and
\* whichever keys are pressed, cancellation included.
THEOREM LockSafe == Spec => []LockHeld
<1>1. LockInv => LockHeld
  BY DEF LockInv
<1> QED
  BY <1>1, LockInit, LockNext, PTL DEF Spec

-----------------------------------------------------------------------------
(* The cursor.  main edits without the lock and net clamps under it, so the   *)
(* invariant says, for each label of main, where the cursor is, and for the   *)
(* two stores of net, which labels main can be at.                            *)

EditLabels == {"move", "put", "len", "load", "store", "write", "wipe"}

Numbers ==
    /\ input_len \in Nat /\ input_len <= MaxLen
    /\ cursor_pos \in Int /\ -1 <= cursor_pos /\ cursor_pos <= MaxLen
    /\ tmp \in Int

\* Where the cursor is before an insertion, a deletion and a move to the right.
InsAt(c)   == 0 <= c /\ c <= input_len /\ input_len < MaxLen
BsAt(c)    == 1 <= c /\ c <= input_len
RightAt(c) == 0 <= c /\ c < input_len

\* After input_len-- and before cursor_pos-- the cursor may be one too far.
BsAfter(c) == 0 <= c /\ c <= input_len + 1 /\ input_len < MaxLen

Editing ==
    /\ pc["main"] \notin EditLabels => cursor_pos <= input_len
    /\ pc["main"] = "move" => \/ op = "ins" /\ InsAt(cursor_pos)
                              \/ op = "bs"  /\ BsAt(cursor_pos)
    /\ pc["main"] = "put"  => op = "ins" /\ InsAt(cursor_pos)
    /\ pc["main"] = "len"  => \/ op = "ins"  /\ InsAt(cursor_pos)
                              \/ op = "bs"   /\ BsAt(cursor_pos)
                              \/ op = "send" /\ InLine
    /\ pc["main"] = "load" => \/ op = "ins"   /\ RightAt(cursor_pos)
                              \/ op = "bs"    /\ BsAfter(cursor_pos)
                              \/ op = "left"  /\ BsAt(cursor_pos)
                              \/ op = "right" /\ RightAt(cursor_pos)
    /\ pc["main"] = "store" => \/ op = "ins"   /\ RightAt(tmp) /\ InLine
                               \/ op = "bs"    /\ BsAfter(tmp) /\ BsAfter(cursor_pos)
                               \/ op = "left"  /\ BsAt(tmp)    /\ InLine
                               \/ op = "right" /\ RightAt(tmp) /\ InLine
                               \/ op = "send"  /\ input_len = 0 /\ 0 <= cursor_pos
    /\ pc["main"] \in {"write", "wipe"} => op = "send" /\ InLine

\* net clamps from below only when main has finished an edit, and from above only
\* in the window of a deletion or a send, or when main waits for the lock after it.
Clamping ==
    /\ pc["net"] = "lowSet" => cursor_pos = -1 /\ pc["main"] \notin EditLabels
    /\ pc["net"] = "highSet" =>
          \/ pc["main"] \in {"load", "store"} /\ op = "bs"
          \/ pc["main"] = "store" /\ op = "send"
          \/ pc["main"] = "lock"

CursorInv == LockInv /\ Numbers /\ Editing /\ Clamping

LEMMA MaxLenNat == MaxLen \in Nat
  BY CapsAssumption DEF MaxLen

LEMMA CursorInit == Init => CursorInv
<1> SUFFICES ASSUME Init PROVE CursorInv
  OBVIOUS
<1>1. LockInv
  BY LockInit
<1>2. Numbers
  BY MaxLenNat DEF Init, Numbers
<1>3. pc["main"] = "start" /\ pc["net"] = "unborn" /\ cursor_pos = 0 /\ input_len = 0
  BY DEF Init, Threads
<1> QED
  BY <1>1, <1>2, <1>3 DEF CursorInv, Editing, Clamping, EditLabels

\* A step that leaves the line and main's locals alone, net outside its two
\* stores and main outside the edit, keeps the invariant.
QuietLabels ==
    /\ \/ pc'["main"] = pc["main"]
       \/ pc'["main"] \notin EditLabels /\ pc["main"] \notin EditLabels \ {"write"}
    /\ pc["main"] = "lock" => pc'["main"] = "lock" \/ fb_lock # "net"
    /\ pc'["net"] \in {"lowSet", "highSet"} => pc'["net"] = pc["net"]

LEMMA QuietStep ==
  /\ CursorInv /\ LockInv' /\ QuietLabels
  /\ UNCHANGED <<input_len, cursor_pos, tmp, op>>
  => CursorInv'
<1> SUFFICES ASSUME CursorInv, LockInv', QuietLabels,
                    UNCHANGED <<input_len, cursor_pos, tmp, op>>
             PROVE  CursorInv'
  OBVIOUS
<1> USE DEF QuietLabels
<1>1. Numbers'
  BY DEF CursorInv, Numbers
<1>2. Editing'
  BY DEF CursorInv, Numbers, Editing, EditLabels, InLine, InsAt, BsAt, RightAt, BsAfter
<1>3. Clamping'
  BY DEF CursorInv, Clamping, EditLabels, LockInv, LockHeld, Critical, Threads
<1> QED
  BY <1>1, <1>2, <1>3 DEF CursorInv

\* The cursor is in the line whenever a key takes effect.
Minding == ~KeysAstray \/ (pc["main"] = "key" => InLine)

\* An accepted key finds the cursor in the line, so net is at none of its stores.
LEMMA KeyStep ==
  ASSUME Minding, CursorInv, LockInv', NEW k \in Pressed, KeyReport(k)
  PROVE  CursorInv'
<1> USE DEF CursorInv, Threads, Minding
<1>1. CASE (k = "esc" /\ KeyEsc) \/ (k = "none" /\ KeyRelease) \/ KeyNoEffect(k)
           \/ (k = "caps" /\ KeyCaps)
  <2>1. /\ UNCHANGED <<input_len, cursor_pos, tmp, op>>
        /\ pc["main"] = "key"
        /\ \/ pc' = pc
           \/ \E to \in {"cancelNet", "lock"} : Goto("main", to)
    BY <1>1 DEF KeyEsc, KeyRelease, KeyNoEffect, KeyCaps, TakeKey, Redraw, Step,
                Jump, At, mine, line, locals
  <2> QED
    BY <2>1, QuietStep DEF QuietLabels, Goto, EditLabels, LockInv
<1>2. CASE KeyLeft \/ KeyRight \/ KeyBackspace \/ KeyEnter
           \/ (k \in Letters \cup Symbols /\ \E shift \in BOOLEAN : KeyChar(k, shift))
  <2>1. /\ UNCHANGED <<input_len, cursor_pos, tmp>>
        /\ pc["main"] = "key" /\ InLine
        /\ \/ op' = "left"  /\ cursor_pos > 0 /\ Goto("main", "load")
           \/ op' = "right" /\ cursor_pos < input_len /\ Goto("main", "load")
           \/ op' = op      /\ Goto("main", "lock")
           \/ op' = "bs"    /\ cursor_pos > 0 /\ Goto("main", "move")
           \/ op' = "send"  /\ Goto("main", "write")
           \/ op' = "ins"   /\ input_len < MaxLen /\ Goto("main", "move")
    BY <1>2, MaxLenNat DEF KeyLeft, KeyRight, KeyArrow, KeyBackspace, KeyEnter,
                KeyChar, NoEffect, AtStart, Full, TakeKey, Redraw, Jump, At, line,
                Numbers
  <2>2. Numbers'
    BY <2>1 DEF Numbers
  <2>3. Editing'
    BY <2>1 DEF Goto, Numbers, Editing, EditLabels, InLine, InsAt, BsAt, RightAt,
                LockInv
  <2>4. Clamping'
    BY <2>1 DEF Goto, Clamping, EditLabels, InLine, LockInv, Numbers
  <2> QED
    BY <2>2, <2>3, <2>4
<1> QED
  BY <1>1, <1>2 DEF KeyReport

LEMMA EditStep ==
  ASSUME CursorInv, LockInv', Edit \/ Wipe
  PROVE  CursorInv'
<1> USE DEF CursorInv, Threads
<1>1. CASE Move \/ Put \/ Wipe
  <2>1. /\ UNCHANGED <<input_len, cursor_pos, tmp, op>>
        /\ \/ pc["main"] = "move" /\ Goto("main", IF op = "ins" THEN "put" ELSE "len")
           \/ pc["main"] \in {"put", "wipe"} /\ Goto("main", "len")
    BY <1>1 DEF Move, Put, Wipe, Jump, At, locals
  <2> QED
    BY <2>1 DEF Goto, Numbers, Editing, Clamping, EditLabels, InLine, InsAt, BsAt,
                RightAt, LockInv
<1>2. CASE StoreLen
  <2>1. /\ UNCHANGED <<cursor_pos, tmp, op>>
        /\ input_len' = NewLen /\ pc["main"] = "len"
        /\ Goto("main", IF op = "send" THEN "store" ELSE "load")
    BY <1>2 DEF StoreLen, Jump, At, locals
  <2> QED
    BY <2>1, MaxLenNat
       DEF Goto, NewLen, Numbers, Editing, Clamping, EditLabels, InLine, InsAt,
           BsAt, RightAt, BsAfter, LockInv
<1>3. CASE LoadCursor
  <2>1. /\ UNCHANGED <<cursor_pos, input_len, op>>
        /\ tmp' = cursor_pos /\ pc["main"] = "load" /\ Goto("main", "store")
    BY <1>3 DEF LoadCursor, Jump, At, line
  <2> QED
    BY <2>1 DEF Goto, Numbers, Editing, Clamping, EditLabels, InLine, BsAt,
                RightAt, BsAfter, LockInv
<1>4. CASE StoreCursor
  <2>1. /\ UNCHANGED input_len /\ tmp' = 0
        /\ cursor_pos' = IF op = "send" THEN 0 ELSE tmp + Shift[op]
        /\ pc["main"] = "store" /\ Goto("main", "lock")
    BY <1>4 DEF StoreCursor, Redraw, At
  <2>2. /\ cursor_pos' \in Int
        /\ -1 <= cursor_pos' /\ cursor_pos' <= input_len
    BY <2>1 DEF Shift, Numbers, Editing, BsAt, RightAt, BsAfter
  <2> QED
    BY <2>1, <2>2, MaxLenNat DEF Goto, Numbers, Editing, Clamping, EditLabels, LockInv
<1> QED
  BY <1>1, <1>2, <1>3, <1>4 DEF Edit

LEMMA ClampStep ==
  ASSUME CursorInv, LockInv', Clamp
  PROVE  CursorInv'
<1> USE DEF CursorInv, Threads
<1>1. CASE ClampLow \/ ClampHigh
  <2>1. /\ UNCHANGED <<input_len, cursor_pos, tmp, op>>
        /\ \/ cursor_pos < 0 /\ Goto("net", "lowSet")
           \/ cursor_pos > input_len /\ Goto("net", "highSet")
           \/ \E to \in {"high", "print"} : Goto("net", to)
    BY <1>1 DEF ClampLow, ClampHigh, Step, Jump, mine, line, locals
  <2> QED
    BY <2>1 DEF Goto, Numbers, Editing, Clamping, EditLabels, InLine, InsAt, BsAt,
                RightAt, BsAfter, LockInv
<1>2. CASE ClampLowStore
  <2>1. /\ UNCHANGED <<input_len, tmp, op>> /\ cursor_pos' = 0
        /\ pc["net"] = "lowSet" /\ Goto("net", "high")
    BY <1>2 DEF ClampLowStore, Jump, At, locals
  <2> QED
    BY <2>1, MaxLenNat DEF Goto, Numbers, Editing, Clamping, EditLabels, LockInv
<1>3. CASE ClampHighStore
  <2>1. /\ UNCHANGED <<input_len, tmp, op>> /\ cursor_pos' = input_len
        /\ pc["net"] = "highSet" /\ Goto("net", "print")
    BY <1>3 DEF ClampHighStore, Jump, At, locals
  <2> QED
    BY <2>1 DEF Goto, Numbers, Editing, Clamping, EditLabels, InLine, BsAfter,
                LockInv
<1> QED
  BY <1>1, <1>2, <1>3 DEF Clamp

LEMMA CursorMinded == Minding /\ CursorInv /\ [Next]_vars => CursorInv'
<1> SUFFICES ASSUME Minding, CursorInv, [Next]_vars PROVE CursorInv'
  OBVIOUS
<1> USE DEF Threads
<1>0. LockInv'
  BY LockNext DEF CursorInv
<1>1. CASE Startup
  <2>1. /\ UNCHANGED <<input_len, cursor_pos, tmp, op>>
        /\ pc["main"] \in {"start", "connect", "spawnNet", "spawnBlink"}
        /\ \/ \E to \in {"connect", "exited", "spawnNet"} : Goto("main", to)
           \/ pc' = [pc EXCEPT !["main"] = "spawnBlink", !["net"] = "read"]
           \/ pc' = [pc EXCEPT !["main"] = "key", !["blink"] = "sleep"]
    BY <1>1 DEF Startup, OpenScreen, Connect, SpawnNet, SpawnBlink, Jump, At,
                mine, line, locals
  <2> QED
    BY <1>0, <2>1, QuietStep DEF QuietLabels, Goto, EditLabels, CursorInv, LockInv
<1>2. ASSUME NEW k \in Pressed, KeyReport(k) PROVE CursorInv'
  BY <1>0, <1>2, KeyStep
<1>3. CASE Edit \/ Wipe
  BY <1>0, <1>3, EditStep
<1>4. CASE WriteSome \/ WriteEnds \/ WriteKills
  <2>1. /\ UNCHANGED <<input_len, cursor_pos, tmp, op>>
        /\ pc["main"] = "write"
        /\ pc' = pc \/ \E to \in {"wipe", "killed"} : Goto("main", to)
    BY <1>4 DEF WriteSome, WriteEnds, WriteKills, Step, Jump, At, mine, line, locals
  <2> QED
    BY <1>0, <2>1 DEF Goto, CursorInv, Numbers, Editing, Clamping, EditLabels,
                      InLine, LockInv
<1>5. CASE Quit
  <2>1. /\ UNCHANGED <<input_len, cursor_pos, tmp, op>>
        /\ pc["main"] \in {"cancelNet", "joinNet", "cancelBlink", "joinBlink"}
        /\ \E to \in {"joinNet", "cancelBlink", "joinBlink", "exited"} :
              Goto("main", to)
    BY <1>5 DEF Quit, CancelNet, CancelBlink, Cancel, JoinNet, JoinBlink, Step,
                Jump, At, mine, line, locals
  <2> QED
    BY <1>0, <2>1, QuietStep DEF QuietLabels, Goto, EditLabels, CursorInv, LockInv
<1>6. ASSUME NEW t \in Drawers, Draw(t) PROVE CursorInv'
  <2>1. /\ UNCHANGED <<input_len, cursor_pos, tmp, op>>
        /\ pc[t] \in {"row1", "row2", "cursor"}
        /\ \E to \in {"row2", "cursor", "unlock"} : Goto(t, to)
    BY <1>6 DEF Draw, DrawRow1, DrawRow2, DrawCursor, Jump, At, mine, line, locals
  <2>2. QuietLabels
    BY <2>1 DEF QuietLabels, Goto, Drawers, EditLabels, CursorInv, LockInv
  <2> QED
    BY <1>0, <2>1, <2>2, QuietStep
<1>7. ASSUME NEW t \in Threads, Lock(t) PROVE CursorInv'
  <2>1. /\ UNCHANGED <<input_len, cursor_pos, tmp, op>> /\ fb_lock = "free"
        /\ pc[t] = "lock" /\ \E to \in {"row1", "low"} : Goto(t, to)
    BY <1>7 DEF Lock, Unlocked, Jump, At, mine, line, locals
  <2>2. QuietLabels
    BY <2>1 DEF QuietLabels, Goto, EditLabels, CursorInv, LockInv
  <2> QED
    BY <1>0, <2>1, <2>2, QuietStep
<1>8. ASSUME NEW t \in Threads, Unlock(t) PROVE CursorInv'
  <2>1. /\ UNCHANGED <<input_len, cursor_pos, tmp, op>>
        /\ pc[t] = "unlock" /\ \E to \in {"key", "sleep", "read"} : Goto(t, to)
    BY <1>8 DEF Unlock, Home, Jump, At, mine, line, locals
  <2>2. QuietLabels
    BY <2>1 DEF QuietLabels, Goto, EditLabels, CursorInv, LockInv
  <2> QED
    BY <1>0, <2>1, <2>2, QuietStep
<1>9. CASE Blink \/ NetRead \/ NetEnd \/ NetPrintf \/ PrintChat
           \/ \E t \in {"net", "blink"} : ActOnCancel(t)
  <2>1. /\ UNCHANGED <<input_len, cursor_pos, tmp, op>>
        /\ \E t \in {"net", "blink"}, to \in {"lock", "printf", "done", "unlock"} :
              Goto(t, to)
    BY <1>9 DEF Blink, NetRead, NetEnd, NetPrintf, PrintChat, ActOnCancel, Step,
                Jump, mine, line, locals
  <2>2. QuietLabels
    BY <2>1 DEF QuietLabels, Goto, EditLabels, CursorInv, LockInv
  <2> QED
    BY <1>0, <2>1, <2>2, QuietStep
<1>10. CASE Clamp
  BY <1>0, <1>10, ClampStep
<1>11. CASE ServerCloses \/ Terminated \/ UNCHANGED vars
  <2>1. UNCHANGED <<input_len, cursor_pos, tmp, op, pc>>
    BY <1>11 DEF ServerCloses, Terminated, vars, mine, line, locals
  <2> QED
    BY <1>0, <2>1, QuietStep DEF QuietLabels
<1> QED
  BY <1>1, <1>2, <1>3, <1>4, <1>5, <1>6, <1>7, <1>8, <1>9, <1>10, <1>11
     DEF Next, Send, Net

LEMMA CursorNext == ~KeysAstray /\ CursorInv /\ [Next]_vars => CursorInv'
BY CursorMinded DEF Minding

\* However many chat lines arrive, and whenever, each memmove and each store of a
\* character happens with the cursor in the line, as long as no key is pressed
\* while the cursor is outside it (lab2.c:192-211 against 247-248).
THEOREM EditSafe == ~KeysAstray => (Spec => []EditInLine)
<1> SUFFICES ASSUME ~KeysAstray PROVE Spec => []EditInLine
  OBVIOUS
<1>1. CursorInv => EditInLine
  BY DEF CursorInv, Editing, EditInLine, InsAt, BsAt, Numbers
<1> QED
  BY <1>1, CursorInit, CursorNext, PTL DEF Spec

\* A race between Backspace and a chat line costs the cursor one place at most,
\* and never leaves it behind the end of the line.
THEOREM CursorSafe == ~KeysAstray => (Spec => []CursorNear)
<1> SUFFICES ASSUME ~KeysAstray PROVE Spec => []CursorNear
  OBVIOUS
<1>1. CursorInv => CursorNear
  BY DEF CursorInv, Editing, CursorNear, EditLabels, InsAt, BsAt, RightAt,
         BsAfter, Numbers, InLine
<1> QED
  BY <1>1, CursorInit, CursorNext, PTL DEF Spec

\* A chat line never moves the cursor of a user who is not typing.
THEOREM CursorStays == ~KeysAstray => (Spec => CursorKept)
<1> SUFFICES ASSUME ~KeysAstray PROVE Spec => CursorKept
  OBVIOUS
<1>1. ASSUME CursorInv, [Next]_vars, pc["main"] = "key", pc'["main"] = "key", InLine
      PROVE  cursor_pos' = cursor_pos
  <2>1. CASE Startup \/ Edit \/ Send \/ Quit
    BY <1>1, <2>1
       DEF Startup, OpenScreen, Connect, SpawnNet, SpawnBlink, Edit, Move, Put,
           StoreLen, LoadCursor, StoreCursor, Send, WriteSome, WriteEnds,
           WriteKills, Wipe, Quit, CancelNet, CancelBlink, Cancel, JoinNet,
           JoinBlink, Step, Jump, At
  <2>2. ASSUME NEW k \in Pressed, KeyReport(k) PROVE UNCHANGED cursor_pos
    BY <2>2 DEF KeyReport, KeyEsc, KeyRelease, KeyNoEffect, KeyLeft, KeyRight,
                KeyArrow, KeyCaps, KeyBackspace, KeyChar, KeyEnter, Step, mine, line
  <2>3. ASSUME NEW t \in Threads, Draw(t) \/ Lock(t) \/ Unlock(t)
        PROVE  UNCHANGED cursor_pos
    BY <2>3 DEF Draw, DrawRow1, DrawRow2, DrawCursor, Lock, Unlock, mine, line
  <2>4. CASE Clamp
    BY <1>1, <2>4 DEF Clamp, ClampLow, ClampLowStore, ClampHigh, ClampHighStore,
                      Step, Jump, At, mine, line, CursorInv, Clamping, InLine
  <2>5. CASE Blink \/ NetRead \/ NetEnd \/ NetPrintf \/ PrintChat \/ ServerCloses
             \/ Terminated \/ UNCHANGED vars
             \/ \E t \in {"net", "blink"} : ActOnCancel(t)
    BY <2>5 DEF Blink, NetRead, NetEnd, NetPrintf, PrintChat, ServerCloses,
                Terminated, ActOnCancel, Step, vars, mine, line
  <2> QED
    BY <1>1, <2>1, <2>2, <2>3, <2>4, <2>5 DEF Next, Net, Drawers, Threads
<1>2. CursorInv /\ [Next]_vars =>
        [(pc["main"] = "key" /\ pc'["main"] = "key" /\ InLine)
           => cursor_pos' = cursor_pos]_vars
  BY <1>1
<1> QED
  BY <1>2, CursorInit, CursorNext, PTL DEF Spec, CursorKept

-----------------------------------------------------------------------------
(* The rows.  What they must show changes only in an edit, and main redraws   *)
(* after each before it is settled again; a redraw that blink has under way   *)
(* by then has main wait for the lock.                                        *)

StartLabels == {"start", "connect", "spawnNet", "spawnBlink"}
Settled     == pc["main"] \in StartLabels \cup {"key", "row2", "cursor", "unlock"}

Row1Len   == Smaller(input_len, FirstCap)
Row1Shown == screen.row1 = Shown(0, Row1Len)
Row2Shown == screen.row2 = Shown(Row1Len, Smaller(input_len - Row1Len, RestCap))

RowsShown ==
    Settled =>
        /\ Row1Shown
        /\ IF \E t \in Drawers : pc[t] = "row2" THEN first_len = Row1Len ELSE Row2Shown

\* The screen has its fields.
ScreenOK ==
    screen = [row1 |-> screen.row1, row2 |-> screen.row2, at |-> screen.at,
              mark |-> screen.mark]

RowsInv == LockInv /\ ScreenOK /\ RowsShown

\* The steps of main that work on the line, and the others.
MainStep  == Edit \/ Send \/ \E k \in Pressed : KeyReport(k)
OtherStep ==
    \/ Startup \/ Quit \/ \E t \in Threads : Draw(t) \/ Lock(t) \/ Unlock(t) \/ ActOnCancel(t)
    \/ Blink \/ NetRead \/ NetEnd \/ Net \/ ServerCloses \/ Terminated \/ UNCHANGED vars

LEMMA StepSplit == [Next]_vars => MainStep \/ OtherStep
BY DEF Next, MainStep, OtherStep, Threads, Drawers

LEMMA MainFrame == MainStep => UNCHANGED world
BY DEF MainStep, KeyReport, KeyEsc, KeyRelease, KeyNoEffect, KeyLeft, KeyRight, KeyArrow, KeyCaps,
   KeyBackspace, KeyChar, KeyEnter, Edit, Move, Put, StoreLen, LoadCursor, StoreCursor, Send,
   WriteSome, WriteEnds, WriteKills, Wipe, Step

LEMMA OtherFrame == OtherStep => UNCHANGED <<keyboard, input_buf, sendBuf, locals>>
BY DEF OtherStep, Startup, OpenScreen, Connect, SpawnNet, SpawnBlink, Quit, CancelNet, CancelBlink,
   Cancel, JoinNet, JoinBlink, Blink, NetRead, NetEnd, Net, NetPrintf, Clamp, ClampLow,
   ClampLowStore, ClampHigh, ClampHighStore, PrintChat, ServerCloses, Terminated, Draw, DrawRow1,
   DrawRow2, DrawCursor, Lock, Unlock, ActOnCancel, Step, vars, mine, line

LEMMA ScreenNext == ScreenOK /\ [Next]_vars => ScreenOK'
<1> SUFFICES ASSUME ScreenOK, [Next]_vars PROVE ScreenOK'
  OBVIOUS
<1> USE DEF ScreenOK
<1>1. CASE \E t \in Threads : Draw(t) \/ Lock(t) \/ Unlock(t) \/ ActOnCancel(t)
  BY <1>1 DEF Draw, DrawRow1, DrawRow2, DrawCursor, Lock, Unlock, ActOnCancel, area
<1>2. CASE Startup \/ Quit
  BY <1>2 DEF Startup, OpenScreen, Connect, SpawnNet, SpawnBlink, Quit, CancelNet, CancelBlink,
     Cancel, JoinNet, JoinBlink, Step, world, area
<1>3. CASE Blink \/ NetRead \/ NetEnd \/ Net \/ ServerCloses \/ Terminated \/ UNCHANGED vars
  BY <1>3 DEF Blink, NetRead, NetEnd, Net, NetPrintf, Clamp, ClampLow, ClampLowStore, ClampHigh,
     ClampHighStore, PrintChat, ServerCloses, Terminated, Step, vars, world, area
<1>4. CASE MainStep
  BY <1>4, MainFrame DEF world, area
<1> QED
  BY <1>1, <1>2, <1>3, <1>4, StepSplit DEF OtherStep

LEMMA RowsInit == Init => RowsInv
<1> SUFFICES ASSUME Init PROVE RowsShown
  BY LockInit DEF RowsInv, Init, ScreenOK
<1>1. Row1Len = 0 /\ Smaller(input_len - Row1Len, RestCap) = 0
  <2>1. input_len = 0
    BY DEF Init
  <2>2. Row1Len = 0
    BY <2>1, CapsAssumption DEF Row1Len, Smaller
  <2> QED
    BY <2>1, <2>2, CapsAssumption DEF Smaller
<1>2. Shown(0, 0) = <<>>
  BY DEF Shown
<1>3. screen.row1 = <<>> /\ screen.row2 = <<>>
  BY DEF Init
<1>4. \A t \in Drawers : pc[t] # "row2"
  BY DEF Init, Drawers, Threads
<1> QED
  BY <1>1, <1>2, <1>3, <1>4 DEF RowsShown, Row1Shown, Row2Shown

\* A step that leaves what is shown and the rows alone, and brings no thread to
\* the second row or away from it.
RowsQuiet ==
    /\ UNCHANGED <<input_buf, input_len, first_len>>
    /\ screen'.row1 = screen.row1 /\ screen'.row2 = screen.row2
    /\ Settled' => Settled
    /\ \A t \in Drawers : pc'[t] = "row2" <=> pc[t] = "row2"

LEMMA RowsQuietStep == RowsShown /\ RowsQuiet => RowsShown'
<1> SUFFICES ASSUME RowsShown, RowsQuiet, Settled' PROVE RowsShown'
  BY DEF RowsShown
<1>1. Row1Len' = Row1Len /\ (Row1Shown' <=> Row1Shown) /\ (Row2Shown' <=> Row2Shown)
  BY DEF RowsQuiet, Row1Len, Row1Shown, Row2Shown, Shown, Smaller
<1> QED
  BY <1>1 DEF RowsShown, RowsQuiet

LEMMA RowsDraw ==
  ASSUME RowsInv, LockInv', NEW t \in Drawers, Draw(t)
  PROVE  RowsShown'
<1> USE DEF RowsInv
<1>0. t \in Threads /\ Drawers \subseteq Threads
  BY DEF Drawers, Threads
<1>1. /\ UNCHANGED <<input_buf, input_len>> /\ Row1Len' = Row1Len
      /\ \A i, k : Shown(i, k)' = Shown(i, k)
  BY DEF Draw, DrawRow1, DrawRow2, DrawCursor, mine, line, Row1Len, Shown, Smaller
<1>2. \A u \in Drawers \ {t} : pc[u] \notin Critical /\ pc'[u] = pc[u]
  BY <1>0 DEF Draw, DrawRow1, DrawRow2, DrawCursor, Jump, At, Goto, LockInv, LockHeld, Critical
<1>3. CASE DrawRow1(t)
  <2>1. screen'.row1 = Shown(0, first_len') /\ first_len' = Row1Len
    BY <1>3 DEF DrawRow1, Row1Len
  <2>2. pc'[t] = "row2"
    BY <1>0, <1>3 DEF DrawRow1, Jump, Goto, LockInv
  <2> QED
    BY <1>1, <2>1, <2>2 DEF RowsShown, Row1Shown
<1>4. CASE DrawRow2(t)
  <2>1. /\ screen'.row1 = screen.row1
        /\ screen'.row2 = Shown(first_len, Smaller(input_len - first_len, RestCap))
    BY <1>4 DEF DrawRow2, ScreenOK
  <2>2. pc[t] = "row2" /\ pc'[t] = "cursor" /\ (Settled' => Settled)
    BY <1>0, <1>4 DEF DrawRow2, Jump, At, Goto, LockInv, Settled, Threads
  <2>3. \A u \in Drawers : pc'[u] # "row2"
    BY <1>2, <2>2 DEF Critical
  <2> QED
    BY <1>1, <2>1, <2>2, <2>3 DEF RowsShown, Row1Shown, Row2Shown, Smaller
<1>5. CASE DrawCursor(t)
  <2>1. RowsQuiet
    BY <1>0, <1>1, <1>2, <1>5
       DEF DrawCursor, Jump, At, Goto, LockInv, ScreenOK, Settled, RowsQuiet, Critical,
           Threads
  <2> QED
    BY <2>1, RowsQuietStep
<1> QED
  BY <1>3, <1>4, <1>5 DEF Draw

LEMMA RowsNext == RowsInv /\ [Next]_vars => RowsInv'
<1> SUFFICES ASSUME RowsInv, [Next]_vars PROVE RowsShown' /\ ScreenOK'
  BY LockNext DEF RowsInv
<1> USE DEF Threads, Drawers
<1>0. LockInv /\ LockInv' /\ pc = [t \in Threads |-> pc[t]]
  BY LockNext DEF RowsInv, LockInv
<1>1. ASSUME NEW t \in Drawers, Draw(t) PROVE RowsShown' /\ ScreenOK'
  <2>1. ScreenOK'
    BY <1>1 DEF Draw, DrawRow1, DrawRow2, DrawCursor, ScreenOK, RowsInv
  <2> QED
    BY <1>0, <1>1, <2>1, RowsDraw
<1>2. CASE OpenScreen
  <2>1. ScreenOK' /\ screen'.row1 = screen.row1 /\ screen'.row2 = screen.row2
    BY <1>2 DEF OpenScreen, ScreenOK, RowsInv
  <2>2. RowsQuiet
    BY <1>0, <1>2, <2>1 DEF OpenScreen, At, Goto, mine, line, RowsQuiet, Settled, StartLabels
  <2> QED
    BY <2>1, <2>2, RowsQuietStep DEF RowsInv
<1>3. CASE Edit \/ Send
  <2>1. UNCHANGED screen /\ (Settled' => FALSE)
    BY <1>0, <1>3 DEF Edit, Move, Put, StoreLen, LoadCursor, StoreCursor, Redraw, Send,
       WriteSome, WriteEnds, WriteKills, Wipe, Step, Jump, At, Goto, world, area, Settled,
       StartLabels
  <2> QED
    BY <2>1 DEF RowsShown, ScreenOK, RowsInv
<1>4. ASSUME NEW k \in Pressed, KeyReport(k) PROVE RowsShown' /\ ScreenOK'
  <2>1. UNCHANGED <<input_buf, input_len, first_len, screen>>
    BY <1>4 DEF KeyReport, KeyEsc, KeyRelease, KeyNoEffect, KeyLeft, KeyRight,
                KeyArrow, KeyCaps, KeyBackspace, KeyChar, KeyEnter, Step, world, area, mine, line
  <2>2. /\ pc["main"] = "key"
        /\ \/ pc' = pc
           \/ \E to \in {"cancelNet", "load", "lock", "move", "write"} : Goto("main", to)
    BY <1>4 DEF KeyReport, KeyEsc, KeyRelease, KeyNoEffect, KeyLeft, KeyRight,
                KeyArrow, KeyCaps, KeyBackspace, KeyChar, KeyEnter, TakeKey,
                Redraw, Step, Jump, At
  <2>3. RowsQuiet
    BY <1>0, <2>1, <2>2 DEF Goto, RowsQuiet, Settled, StartLabels
  <2> QED
    BY <2>1, <2>3, RowsQuietStep DEF RowsInv, ScreenOK
<1>5. CASE Connect \/ SpawnNet \/ SpawnBlink \/ Quit
  <2>1. UNCHANGED <<input_buf, input_len, first_len, screen>>
    BY <1>5 DEF Connect, SpawnNet, SpawnBlink, Quit, CancelNet, CancelBlink, Cancel,
       JoinNet, JoinBlink, Step, world, area, mine, line
  <2>2. /\ Settled' => Settled
        /\ \A t \in Drawers : pc'[t] = "row2" <=> pc[t] = "row2"
    BY <1>0, <1>5 DEF Connect, SpawnNet, SpawnBlink, Quit, CancelNet, CancelBlink, Cancel,
       JoinNet, JoinBlink, Step, Jump, At, Goto, Settled, StartLabels, LockInv, Unborn
  <2> QED
    BY <2>1, <2>2, RowsQuietStep DEF RowsQuiet, RowsInv, ScreenOK
<1>6. ASSUME NEW t \in Threads, Lock(t) \/ Unlock(t) PROVE RowsShown' /\ ScreenOK'
  <2>1. UNCHANGED <<input_buf, input_len, first_len, screen>>
    BY <1>6 DEF Lock, Unlock, area, mine, line
  <2>2. /\ Settled' => Settled
        /\ \A u \in Drawers : pc'[u] = "row2" <=> pc[u] = "row2"
    BY <1>0, <1>6 DEF Lock, Unlock, Home, Jump, At, Goto, Settled, StartLabels
  <2> QED
    BY <2>1, <2>2, RowsQuietStep DEF RowsQuiet, RowsInv, ScreenOK
<1>7. CASE Blink \/ NetRead \/ NetEnd \/ Net \/ ServerCloses \/ Terminated
           \/ UNCHANGED vars \/ \E t \in {"net", "blink"} : ActOnCancel(t)
  <2>1. UNCHANGED <<input_buf, input_len, first_len, screen>>
    BY <1>7 DEF Blink, NetRead, NetEnd, Net, NetPrintf, Clamp, ClampLow, ClampLowStore,
       ClampHigh, ClampHighStore, PrintChat, ServerCloses, Terminated, ActOnCancel, Step,
       vars, world, area, mine, line
  <2>2. /\ pc'["main"] = pc["main"]
        /\ \A t \in Drawers : pc'[t] = "row2" <=> pc[t] = "row2"
    BY <1>0, <1>7 DEF Blink, NetRead, NetEnd, Net, NetPrintf, Clamp, ClampLow,
       ClampLowStore, ClampHigh, ClampHighStore, PrintChat, ServerCloses, Terminated,
       ActOnCancel, CancellationPoints, Step, Jump, At, Goto, vars
  <2> QED
    BY <2>1, <2>2, RowsQuietStep DEF RowsQuiet, Settled, RowsInv, ScreenOK
<1> QED
  BY <1>1, <1>2, <1>3, <1>4, <1>5, <1>6, <1>7 DEF Next, Startup

\* Each edit is followed by a redraw that comes after every redraw of the old line,
\* whatever the server sends and wherever the cursor has gone (lab2.c:323-383).
THEOREM RowsSafe == Spec => []InputShown
<1>1. RowsInv => InputShown
  <2> SUFFICES ASSUME RowsInv, pc["main"] = "key", fb_lock = "free"
               PROVE  Row1Shown /\ Row2Shown
    BY DEF InputShown, Row1Shown, Row2Shown, Row1Len
  <2>1. Settled /\ \A t \in Drawers : pc[t] # "row2"
    BY DEF Settled, RowsInv, LockInv, LockHeld, Critical, Drawers, Threads
  <2> QED
    BY <2>1 DEF RowsInv, RowsShown
<1> QED
  BY <1>1, RowsInit, RowsNext, PTL DEF Spec

-----------------------------------------------------------------------------
(* The cursor on the screen, while the server is silent. *)

NetSilent == pc["net"] \in {"unborn", "read", "done"}

Marked == pc["main"] \in {"connect", "spawnNet", "spawnBlink", "key", "unlock"}

\* What DrawCursor leaves, until blink toggles the cursor.
Drawn ==
    /\ screen.at = cursor_pos
    /\ pc["blink"] \notin {"lock", "row1"} =>
           screen.mark = IF cursor_visible THEN Underscore ELSE Under

MarkShown ==
    /\ pc["main"] = "start" => cursor_pos = 0 /\ cursor_visible = TRUE
    /\ Marked /\ (\A t \in Drawers : pc[t] \notin {"row2", "cursor"}) => Drawn

MarkInv == LockInv /\ ScreenOK /\ NetSilent /\ MarkShown

LEMMA MarkInit == Init => MarkInv
<1> SUFFICES ASSUME Init PROVE NetSilent /\ MarkShown
  BY LockInit DEF MarkInv, Init, ScreenOK
<1> QED
  BY DEF Init, NetSilent, MarkShown, Marked, Threads

\* A step that leaves the line, the screen and the cursor alone, and brings main to
\* no place where it has to have drawn, and blink to none where it has to.
MarkQuiet ==
    /\ UNCHANGED <<input_buf, input_len, cursor_pos, cursor_visible, screen>>
    /\ (pc["main"] = "start")' => pc["main"] = "start"
    /\ Marked' => Marked
    /\ \A t \in Drawers : pc[t] \in {"row2", "cursor"} => pc'[t] \in {"row2", "cursor"}
    /\ pc'["blink"] \notin {"lock", "row1"} => pc["blink"] \notin {"lock", "row1"}

LEMMA MarkQuietStep == MarkShown /\ MarkQuiet => MarkShown'
<1> SUFFICES ASSUME MarkShown, MarkQuiet PROVE MarkShown'
  OBVIOUS
<1>1. Under' = Under
  BY DEF MarkQuiet, Under
<1> QED
  BY <1>1 DEF MarkShown, MarkQuiet, Drawn

LEMMA MarkDraw ==
  ASSUME MarkInv, LockInv', NEW t \in Drawers, Draw(t)
  PROVE  MarkShown'
<1> USE DEF MarkInv, Threads, Drawers
<1>0. /\ UNCHANGED <<input_buf, input_len, cursor_pos, cursor_visible>> /\ Under' = Under
      /\ fb_lock = t /\ pc[t] \in {"row1", "row2", "cursor"}
      /\ \A u \in Threads \ {t} : pc[u] \notin Critical /\ pc'[u] = pc[u]
  BY DEF Draw, DrawRow1, DrawRow2, DrawCursor, Jump, At, Goto, LockInv, LockHeld, Critical,
         mine, line, Under
<1>1. CASE DrawRow1(t) \/ DrawRow2(t)
  <2>1. pc'[t] \in {"row2", "cursor"}
    BY <1>1 DEF DrawRow1, DrawRow2, Jump, Goto, LockInv
  <2>2. pc'["main"] # "start"
    BY <1>0, <2>1, <1>1 DEF MarkShown, LockInv, Unborn
  <2> QED
    BY <2>1, <2>2 DEF MarkShown
<1>2. CASE DrawCursor(t)
  <2>1. /\ screen'.at = cursor_pos
        /\ screen'.mark = IF cursor_visible THEN Underscore ELSE Under
    BY <1>2 DEF DrawCursor, ScreenOK
  <2>2. pc'["main"] # "start"
    BY <1>0, <1>2 DEF DrawCursor, Jump, Goto, LockInv, Unborn
  <2> QED
    BY <1>0, <2>1, <2>2 DEF MarkShown, Drawn
<1> QED
  BY <1>1, <1>2 DEF Draw

\* The server cannot take back what it has said.
LEMMA SpokenNext == [Next]_vars => (~spoken' => ~spoken)
<1> SUFFICES ASSUME [Next]_vars, ~spoken' PROVE ~spoken
  OBVIOUS
<1>1. CASE MainStep
  BY <1>1, MainFrame DEF world, chat
<1>2. CASE OtherStep
  BY <1>2 DEF OtherStep, Startup, OpenScreen, Connect, SpawnNet, SpawnBlink, Quit, CancelNet,
     CancelBlink, Cancel, JoinNet, JoinBlink, Blink, NetRead, NetEnd, Net, NetPrintf, Clamp,
     ClampLow, ClampLowStore, ClampHigh, ClampHighStore, PrintChat, ServerCloses, Draw, DrawRow1,
     DrawRow2, DrawCursor, Lock, Unlock, ActOnCancel, Terminated, Step, vars, world, chat
<1> QED
  BY <1>1, <1>2, StepSplit

LEMMA MarkNext == ~spoken' /\ MarkInv /\ [Next]_vars => MarkInv'
<1> SUFFICES ASSUME ~spoken', MarkInv, [Next]_vars
             PROVE  NetSilent' /\ MarkShown' /\ ScreenOK'
  BY LockNext DEF MarkInv
<1> USE DEF Threads, Drawers
<1>0. LockInv /\ LockInv' /\ pc = [t \in Threads |-> pc[t]] /\ ScreenOK /\ NetSilent /\ MarkShown
  BY LockNext DEF MarkInv, LockInv
<1>1. ASSUME NEW t \in Drawers, Draw(t) PROVE NetSilent' /\ MarkShown' /\ ScreenOK'
  <2>1. ScreenOK'
    BY <1>0, <1>1 DEF Draw, DrawRow1, DrawRow2, DrawCursor, ScreenOK
  <2>2. NetSilent'
    BY <1>0, <1>1 DEF Draw, DrawRow1, DrawRow2, DrawCursor, Jump, Goto, NetSilent
  <2> QED
    BY <1>0, <1>1, <2>1, <2>2, MarkDraw DEF MarkInv
<1>2. CASE OpenScreen
  <2>1. /\ UNCHANGED <<input_buf, input_len, cursor_pos, cursor_visible>>
        /\ pc["main"] = "start" /\ ScreenOK'
        /\ \/ /\ screen'.at = 0 /\ screen'.mark = Underscore
              /\ Goto("main", "connect")
           \/ Goto("main", "exited")
    BY <1>0, <1>2 DEF OpenScreen, At, ScreenOK, mine, line
  <2> QED
    BY <1>0, <2>1 DEF Goto, MarkShown, Marked, Drawn, NetSilent
<1>3. CASE Edit \/ Send
  <2>1. UNCHANGED screen /\ pc'["net"] = pc["net"] /\ (Marked' => FALSE) /\ pc'["main"] # "start"
    BY <1>0, <1>3 DEF Edit, Move, Put, StoreLen, LoadCursor, StoreCursor, Redraw, Send,
       WriteSome, WriteEnds, WriteKills, Wipe, Step, Jump, At, Goto, world, area, Marked
  <2> QED
    BY <1>0, <2>1 DEF MarkShown, ScreenOK, NetSilent
<1>4. ASSUME NEW k \in Pressed, KeyReport(k) PROVE NetSilent' /\ MarkShown' /\ ScreenOK'
  <2>1. UNCHANGED <<input_buf, input_len, cursor_pos, cursor_visible, screen>>
    BY <1>4 DEF KeyReport, KeyEsc, KeyRelease, KeyNoEffect, KeyLeft, KeyRight,
                KeyArrow, KeyCaps, KeyBackspace, KeyChar, KeyEnter, Step, world, area, mine, line
  <2>2. /\ pc["main"] = "key"
        /\ \/ pc' = pc
           \/ \E to \in {"cancelNet", "load", "lock", "move", "write"} : Goto("main", to)
    BY <1>4 DEF KeyReport, KeyEsc, KeyRelease, KeyNoEffect, KeyLeft, KeyRight,
                KeyArrow, KeyCaps, KeyBackspace, KeyChar, KeyEnter, TakeKey,
                Redraw, Step, Jump, At
  <2>3. MarkQuiet /\ pc'["net"] = pc["net"]
    BY <1>0, <2>1, <2>2 DEF Goto, MarkQuiet, Marked
  <2> QED
    BY <1>0, <2>1, <2>3, MarkQuietStep DEF ScreenOK, NetSilent
<1>5. CASE Connect \/ SpawnNet \/ SpawnBlink \/ Quit
  <2>1. UNCHANGED <<input_buf, input_len, cursor_pos, cursor_visible, screen>>
    BY <1>5 DEF Connect, SpawnNet, SpawnBlink, Quit, CancelNet, CancelBlink, Cancel,
       JoinNet, JoinBlink, Step, world, area, mine, line
  <2>2. MarkQuiet /\ pc'["net"] \in {pc["net"], "read"}
    BY <1>0, <1>5, <2>1 DEF Connect, SpawnNet, SpawnBlink, Quit, CancelNet, CancelBlink, Cancel,
       JoinNet, JoinBlink, Step, Jump, At, Goto, MarkQuiet, Marked, LockInv, Unborn
  <2> QED
    BY <1>0, <2>1, <2>2, MarkQuietStep DEF ScreenOK, NetSilent
<1>6. ASSUME NEW t \in Threads, Lock(t) \/ Unlock(t)
      PROVE  NetSilent' /\ MarkShown' /\ ScreenOK'
  <2>1. UNCHANGED <<input_buf, input_len, cursor_pos, cursor_visible, screen>>
    BY <1>6 DEF Lock, Unlock, area, mine, line
  <2>2. t # "net"
    BY <1>0, <1>6 DEF Lock, Unlock, Jump, At, NetSilent
  <2>3. MarkQuiet /\ pc'["net"] = pc["net"]
    BY <1>0, <1>6, <2>1, <2>2 DEF Lock, Unlock, Home, Jump, At, Goto, MarkQuiet, Marked
  <2> QED
    BY <1>0, <2>1, <2>3, MarkQuietStep DEF ScreenOK, NetSilent
<1>7. CASE Blink
  <2>1. /\ UNCHANGED <<input_buf, input_len, cursor_pos, screen>>
        /\ pc["blink"] = "sleep" /\ Goto("blink", "lock")
    BY <1>7 DEF Blink, Jump, At, mine, line
  <2>2. pc["main"] # "start"
    BY <1>0, <2>1 DEF LockInv, Unborn
  <2> QED
    BY <1>0, <2>1, <2>2 DEF Goto, MarkShown, Marked, Drawn, ScreenOK, NetSilent
<1>8. CASE NetRead \/ NetEnd \/ Net \/ ServerCloses \/ Terminated
           \/ UNCHANGED vars \/ \E t \in {"net", "blink"} : ActOnCancel(t)
  <2>1. ~NetRead /\ ~Net
    BY <1>0 DEF NetRead, Net, NetPrintf, Clamp, ClampLow, ClampLowStore, ClampHigh,
       ClampHighStore, PrintChat, Step, Jump, At, NetSilent
  <2>2. UNCHANGED <<input_buf, input_len, cursor_pos, cursor_visible, screen>>
    BY <1>8, <2>1 DEF NetEnd, ServerCloses, Terminated, ActOnCancel, Step, vars, world, area,
       mine, line
  <2>3. MarkQuiet /\ NetSilent'
    BY <1>0, <1>8, <2>1, <2>2 DEF NetEnd, ServerCloses, Terminated, ActOnCancel,
       CancellationPoints, Step, Jump, At, Goto, vars, MarkQuiet, Marked, NetSilent
  <2> QED
    BY <1>0, <2>2, <2>3, MarkQuietStep DEF ScreenOK
<1> QED
  BY <1>1, <1>2, <1>3, <1>4, <1>5, <1>6, <1>7, <1>8 DEF Next, Startup

\* While nothing comes from the server, the cursor is drawn where it is and, but for
\* a toggle that has yet to be drawn, as it is (lab2.c:351-394).
THEOREM MarkSafe == Spec => []CursorShown
<1>1. (~spoken => MarkInv) => CursorShown
  BY DEF MarkInv, MarkShown, Marked, Drawn, CursorShown, LockInv, LockHeld, Critical,
         Drawers, Threads
<1>2. (~spoken => MarkInv) /\ [Next]_vars => (~spoken => MarkInv)'
  BY MarkNext, SpokenNext
<1> QED
  BY <1>1, <1>2, MarkInit, PTL DEF Spec

-----------------------------------------------------------------------------
(* Types.  Those of the cursor and of main's locals follow from CursorInv. *)

ChatText == UNION {{c[i] : i \in DOMAIN c} : c \in Chunks}

KeyTypes  == last_kc \in Keys /\ caps_lock_on \in BOOLEAN /\ typed \in Bytes
BufTypes  == input_buf \in [Index -> Bytes] /\ sendBuf \in Seq(Bytes \cup {Newline})
SendTypes == /\ sent \in 0 .. Len(sendBuf)
             /\ pc["main"] \notin {"write", "killed"} => sent = 0
OpTypes   == op \in {"none", "ins", "bs", "left", "right", "send"} /\ tmp \in -1 .. MaxLen
DrawTypes == /\ cursor_visible \in BOOLEAN
             /\ first_len \in 0 .. FirstCap /\ screen.at \in NoCell .. MaxLen
ChatTypes == /\ chunk \in Chunks \cup {<<>>} /\ spoken \in BOOLEAN
             /\ chat_lines \in Seq(ChatText) /\ Len(chat_lines) <= MaxChat
EnvTypes  == /\ conn \in {"none", "up", "down"} /\ cancelled \subseteq {"net", "blink"}
             /\ fb_lock \in Threads \cup {"free"}
PcTypes   == \A t \in Threads : pc[t] \in Labels[t]

TypeInv ==
    /\ CursorInv /\ ScreenOK
    /\ KeyTypes /\ BufTypes /\ SendTypes /\ OpTypes
    /\ DrawTypes /\ ChatTypes /\ EnvTypes /\ PcTypes

LEMMA ChunkText == \A c \in Chunks \cup {<<>>} : c \in Seq(ChatText)
<1>1. <<>> \in Seq(ChatText)
  OBVIOUS
<1>2. ASSUME NEW c \in Chunks PROVE c \in Seq(ChatText)
  <2>1. c \in Seq({c[i] : i \in DOMAIN c}) /\ {c[i] : i \in DOMAIN c} \subseteq ChatText
    BY ChunksAssumption DEF ChatText
  <2> QED
    BY <2>1
<1> QED
  BY <1>1, <1>2

LEMMA TypeInit == Init => TypeInv
<1> SUFFICES ASSUME Init PROVE TypeInv
  OBVIOUS
<1>1. KeyTypes /\ OpTypes /\ EnvTypes
  <2>1. KeyTypes
    BY DEF Init, KeyTypes, Keys, Control, Bytes
  <2>2. OpTypes
    BY MaxLenNat DEF Init, OpTypes
  <2>3. EnvTypes
    BY DEF Init, EnvTypes
  <2> QED
    BY <2>1, <2>2, <2>3
<1>6. SendTypes
  BY DEF Init, SendTypes
<1>2. BufTypes
  BY DEF Init, BufTypes, Bytes, Index
<1>3. DrawTypes
  BY MaxLenNat, CapsAssumption DEF Init, DrawTypes, NoCell
<1>4. ChatTypes
  <2>1. spoken \in BOOLEAN
    BY Zenon DEF Init
  <2>2. chunk = <<>> /\ chat_lines = <<>>
    BY DEF Init
  <2> QED
    BY <2>1, <2>2, ChatAssumption DEF ChatTypes
<1>5. PcTypes
  BY DEF Init, PcTypes, Labels, Threads
<1> QED
  BY <1>1, <1>2, <1>3, <1>4, <1>5, <1>6, CursorInit DEF TypeInv, Init, ScreenOK

LEMMA KeyTypesNext == KeyTypes /\ [Next]_vars => KeyTypes'
<1> SUFFICES ASSUME KeyTypes, [Next]_vars PROVE KeyTypes'
  OBVIOUS
<1>1. ASSUME NEW k \in Pressed, KeyReport(k) PROVE KeyTypes'
  <2>1. k \in Keys /\ {"none", "left", "right"} \subseteq Keys
    BY PressedAssumption DEF Keys, Control
  <2>2. ASSUME k \in Letters \cup Symbols, NEW shift \in BOOLEAN, KeyChar(k, shift)
        PROVE  KeyTypes'
    <3>1. Ascii(k, shift) \in Bytes
      BY <2>2 DEF Ascii, Bytes, Printable, KeyTypes
    <3> QED
      BY <2>1, <2>2, <3>1 DEF KeyChar, TakeKey, KeyTypes
  <2>3. CASE \/ KeyEsc \/ KeyRelease \/ KeyNoEffect(k)
             \/ KeyLeft \/ KeyRight
             \/ (k = "bksp" /\ KeyBackspace) \/ (k = "enter" /\ KeyEnter)
    BY <2>1, <2>3 DEF KeyEsc, KeyRelease, KeyNoEffect, KeyLeft, KeyRight, KeyArrow,
       KeyBackspace, KeyEnter, TakeKey, Step, mine, keyboard, locals, KeyTypes
  <2>4. CASE k = "caps" /\ KeyCaps
    <3>1. caps_lock_on' \in BOOLEAN
      BY <2>4 DEF KeyCaps
    <3>2. last_kc' = k /\ typed' = typed
      BY <2>4 DEF KeyCaps, TakeKey, locals
    <3> QED
      BY <2>1, <3>1, <3>2 DEF KeyTypes
  <2> QED
    BY <1>1, <2>2, <2>3, <2>4 DEF KeyReport
<1>2. CASE Edit \/ Send
  BY <1>2 DEF Edit, Move, Put, StoreLen, LoadCursor, StoreCursor, Send, WriteSome, WriteEnds,
     WriteKills, Wipe, Step, mine, keyboard, locals, Bytes, KeyTypes
<1>3. CASE OtherStep
  BY <1>3, OtherFrame DEF keyboard, locals, KeyTypes
<1> QED
  BY <1>1, <1>2, <1>3, StepSplit DEF MainStep

LEMMA BufTypesEnter == Numbers /\ BufTypes /\ KeyEnter => BufTypes'
<1> SUFFICES ASSUME Numbers, BufTypes, KeyEnter PROVE BufTypes'
  OBVIOUS
<1>1. input_len \in Nat /\ \A i \in 1 .. input_len : input_buf[i - 1] \in Bytes
  BY MaxLenNat DEF Numbers, BufTypes, Index
<1>2. [i \in 1 .. input_len |-> input_buf[i - 1]] \in Seq(Bytes \cup {Newline})
  BY <1>1
<1> QED
  BY <1>2 DEF KeyEnter, BufTypes, line

LEMMA BufTypesNext == CursorInv /\ KeyTypes /\ BufTypes /\ [Next]_vars => BufTypes'
<1> SUFFICES ASSUME CursorInv, KeyTypes, BufTypes, [Next]_vars PROVE BufTypes'
  OBVIOUS
<1> USE DEF BufTypes
<1>1. Nul \in Bytes /\ Index = -1 .. MaxLen /\ MaxLen \in Nat
  BY MaxLenNat DEF Bytes, Index
<1>2. CASE Move
  <2>1. cursor_pos \in Int /\ input_len \in Int /\ 0 <= cursor_pos /\ input_len <= MaxLen
        /\ (op # "ins" => 1 <= cursor_pos)
    BY <1>2 DEF Move, Jump, At, CursorInv, Numbers, Editing, InsAt, BsAt
  <2>2. \A dst \in Int : Moved(dst, cursor_pos, MoveSize) \in [Index -> Bytes]
    <3> SUFFICES ASSUME NEW dst \in Int, NEW i \in Index, i \in dst .. dst + MoveSize - 1
                 PROVE  input_buf[cursor_pos + i - dst] \in Bytes
      BY <1>1 DEF Moved
    <3>1. cursor_pos + i - dst \in Index
      BY <1>1, <2>1 DEF MoveSize
    <3> QED
      BY <3>1
  <2> QED
    BY <1>2, <2>1, <2>2 DEF Move
<1>3. CASE Put
  BY <1>3 DEF Put, KeyTypes
<1>4. CASE Wipe
  BY <1>1, <1>4 DEF Wipe
<1>5. CASE StoreLen \/ LoadCursor \/ WriteSome \/ WriteEnds \/ WriteKills
  BY <1>5 DEF StoreLen, LoadCursor, WriteSome, WriteEnds, WriteKills, Step, mine, line
<1>6. CASE StoreCursor
  BY <1>6 DEF StoreCursor
<1>7. ASSUME NEW k \in Pressed, KeyReport(k) PROVE BufTypes'
  <2>1. CASE KeyEnter
    BY <2>1, BufTypesEnter DEF CursorInv
  <2>2. CASE \/ KeyEsc \/ KeyRelease \/ KeyNoEffect(k) \/ KeyLeft \/ KeyRight \/ KeyCaps
             \/ KeyBackspace \/ \E shift \in BOOLEAN : KeyChar(k, shift)
    BY <2>2 DEF KeyEsc, KeyRelease, KeyNoEffect, KeyLeft, KeyRight, KeyArrow, KeyCaps,
       KeyBackspace, KeyChar, Step, mine, line
  <2> QED
    BY <1>7, <2>1, <2>2 DEF KeyReport
<1>8. CASE OtherStep
  BY <1>8, OtherFrame
<1> QED
  BY <1>2, <1>3, <1>4, <1>5, <1>6, <1>7, <1>8, StepSplit DEF MainStep, Edit, Send

LEMMA CursorRange == CursorInv => cursor_pos \in -1 .. MaxLen /\ input_len \in 0 .. MaxLen
BY DEF CursorInv, Numbers

LEMMA SendTypesNext == CursorInv /\ BufTypes /\ SendTypes /\ [Next]_vars => SendTypes'
<1> SUFFICES ASSUME CursorInv, BufTypes, SendTypes, [Next]_vars PROVE SendTypes'
  OBVIOUS
<1> USE DEF SendTypes, Threads
<1>0. pc = [t \in Threads |-> pc[t]] /\ Len(sendBuf) \in Nat
  BY DEF CursorInv, LockInv, BufTypes
<1>1. CASE WriteSome
  <2>1. UNCHANGED <<sendBuf, pc>> /\ pc["main"] = "write"
    BY <1>1 DEF WriteSome, At
  <2>2. PICK w \in 1 .. Len(sendBuf) - sent : sent' = sent + w
    BY <1>1 DEF WriteSome, Advanced
  <2> QED
    BY <1>0, <2>1, <2>2
<1>2. CASE WriteEnds \/ WriteKills \/ Wipe \/ Move \/ Put \/ StoreLen \/ LoadCursor
  BY <1>0, <1>2 DEF WriteEnds, WriteKills, Wipe, Move, Put, StoreLen, LoadCursor, Step, Jump,
     At, Goto, mine, line, locals
<1>3. CASE StoreCursor
  <2>1. sent' = 0 /\ sendBuf' = <<>>
    BY <1>3 DEF StoreCursor, At
  <2> QED
    BY <2>1
<1>4. ASSUME NEW k \in Pressed, KeyReport(k) PROVE SendTypes'
  <2>1. sent' = sent /\ pc["main"] = "key"
    BY <1>4 DEF KeyReport, KeyEsc, KeyRelease, KeyNoEffect, KeyLeft, KeyRight, KeyArrow, KeyCaps,
       KeyBackspace, KeyChar, KeyEnter, TakeKey, Step, Jump, At, mine, locals
  <2>2. sendBuf' = sendBuf \/ KeyEnter
    BY <1>4 DEF KeyReport, KeyEsc, KeyRelease, KeyNoEffect, KeyLeft, KeyRight, KeyArrow, KeyCaps,
       KeyBackspace, KeyChar, Step, mine
  <2>3. CASE KeyEnter
    <3>1. BufTypes'
      BY BufTypesEnter, <2>3 DEF CursorInv
    <3> QED
      BY <2>1, <3>1 DEF BufTypes
  <2> QED
    BY <2>1, <2>2, <2>3
<1>5. CASE OtherStep
  <2>1. pc["main"] \in {"write", "killed"} => pc'["main"] = pc["main"]
    BY <1>0, <1>5 DEF OtherStep, Startup, OpenScreen, Connect, SpawnNet, SpawnBlink, Quit,
       CancelNet, CancelBlink, Cancel, JoinNet, JoinBlink, Blink, NetRead, NetEnd, Net, NetPrintf, Clamp,
       ClampLow, ClampLowStore, ClampHigh, ClampHighStore, PrintChat, ServerCloses, Terminated,
       Draw, DrawRow1, DrawRow2, DrawCursor, Lock, Unlock, ActOnCancel, CancellationPoints, Step,
       Jump, At, Goto, vars
  <2> QED
    BY <1>5, <2>1, OtherFrame DEF locals
<1> QED
  BY <1>1, <1>2, <1>3, <1>4, <1>5, StepSplit DEF MainStep, Edit, Send

LEMMA OpTypesNext == CursorInv /\ OpTypes /\ [Next]_vars => OpTypes'
<1> SUFFICES ASSUME CursorInv, OpTypes, [Next]_vars PROVE OpTypes'
  OBVIOUS
<1> USE DEF OpTypes
<1>1. cursor_pos \in -1 .. MaxLen /\ 0 \in -1 .. MaxLen
  BY CursorRange, MaxLenNat
<1>2. CASE Edit \/ Send
  BY <1>1, <1>2 DEF Edit, Move, Put, StoreLen, LoadCursor, StoreCursor, Send, WriteSome, WriteEnds,
     WriteKills, Wipe, Step, mine, locals
<1>3. ASSUME NEW k \in Pressed, KeyReport(k) PROVE OpTypes'
  BY <1>3 DEF KeyReport, KeyEsc, KeyRelease, KeyNoEffect, KeyLeft, KeyRight, KeyArrow, KeyCaps,
     KeyBackspace, KeyChar, KeyEnter, Step, mine, locals
<1>4. CASE OtherStep
  BY <1>4, OtherFrame DEF locals
<1> QED
  BY <1>2, <1>3, <1>4, StepSplit DEF MainStep

LEMMA DrawTypesNext == CursorInv /\ ScreenOK /\ DrawTypes /\ [Next]_vars => DrawTypes'
<1> SUFFICES ASSUME CursorInv, ScreenOK, DrawTypes, [Next]_vars PROVE DrawTypes'
  OBVIOUS
<1> USE DEF DrawTypes
<1>1. /\ cursor_pos \in -1 .. MaxLen /\ input_len \in 0 .. MaxLen /\ MaxLen \in Nat
      /\ FirstCap \in Nat /\ NoCell = -2
  BY CursorRange, MaxLenNat, CapsAssumption DEF NoCell
<1>2. ASSUME NEW t \in Threads, Draw(t) PROVE DrawTypes'
  <2>1. CASE DrawRow1(t)
    BY <1>1, <2>1 DEF DrawRow1, Smaller
  <2>2. CASE DrawRow2(t)
    BY <1>1, <2>2 DEF DrawRow2, ScreenOK
  <2>3. CASE DrawCursor(t)
    BY <1>1, <2>3 DEF DrawCursor, ScreenOK
  <2> QED
    BY <1>2, <2>1, <2>2, <2>3 DEF Draw
<1>3. CASE OpenScreen
  <2>1. screen'.at \in {0, screen.at} /\ UNCHANGED <<cursor_visible, first_len>>
    BY <1>3 DEF OpenScreen, ScreenOK
  <2> QED
    BY <1>1, <2>1
<1>4. CASE Blink
  <2>1. cursor_visible' \in BOOLEAN
    BY <1>4 DEF Blink, Toggled
  <2> QED
    BY <1>4, <2>1 DEF Blink
<1>5. CASE MainStep
  BY <1>5, MainFrame DEF world, area
<1>6. CASE \/ Connect \/ SpawnNet \/ SpawnBlink \/ Quit
           \/ \E t \in Threads : Lock(t) \/ Unlock(t) \/ ActOnCancel(t)
           \/ NetRead \/ NetEnd \/ Net \/ ServerCloses \/ Terminated \/ UNCHANGED vars
  BY <1>6 DEF Connect, SpawnNet, SpawnBlink, Quit, CancelNet, CancelBlink, Cancel, JoinNet,
     JoinBlink, NetRead, NetEnd, Net, NetPrintf, Clamp, ClampLow, ClampLowStore, ClampHigh,
     ClampHighStore, PrintChat, ServerCloses, Terminated, Lock, Unlock, ActOnCancel, Step, vars,
     world, area
<1> QED
  BY <1>2, <1>3, <1>4, <1>5, <1>6, StepSplit DEF OtherStep, Startup

LEMMA ScrolledText ==
  ASSUME NEW ls \in Seq(ChatText)
  PROVE  Scrolled(ls) \in Seq(ChatText) /\ Len(Scrolled(ls)) <= MaxChat
<1> HIDE DEF ChatText
<1>1. Len(ls) \in Nat /\ MaxChat \in Nat /\ MaxChat > 0
  BY ChatAssumption
<1>2. CASE Len(ls) <= MaxChat
  BY <1>2 DEF Scrolled
<1>3. CASE Len(ls) > MaxChat
  <2>1. Len(ls) - MaxChat + 1 \in 1 .. Len(ls)
    BY <1>1, <1>3
  <2>2. /\ SubSeq(ls, Len(ls) - MaxChat + 1, Len(ls)) \in Seq(ChatText)
        /\ Len(SubSeq(ls, Len(ls) - MaxChat + 1, Len(ls))) = MaxChat
    BY <1>1, <2>1
  <2> QED
    BY <1>1, <1>3, <2>2 DEF Scrolled
<1> QED
  BY <1>1, <1>2, <1>3

LEMMA ChatTypesNext == ChatTypes /\ [Next]_vars => ChatTypes'
<1> SUFFICES ASSUME ChatTypes, [Next]_vars PROVE ChatTypes'
  OBVIOUS
<1> USE DEF ChatTypes
<1>1. CASE PrintChat
  <2>1. chunk \in Seq(ChatText) /\ chat_lines \o chunk \in Seq(ChatText)
    BY ChunkText
  <2> QED
    BY <1>1, <2>1, ScrolledText DEF PrintChat
<1>2. CASE NetRead
  BY <1>2 DEF NetRead
<1>3. CASE MainStep
  BY <1>3, MainFrame DEF world, chat
<1>4. CASE \/ Startup \/ Quit \/ Blink \/ NetEnd \/ NetPrintf \/ Clamp \/ ServerCloses
           \/ \E t \in Threads : Draw(t) \/ Lock(t) \/ Unlock(t) \/ ActOnCancel(t)
           \/ Terminated \/ UNCHANGED vars
  BY <1>4 DEF Startup, OpenScreen, Connect, SpawnNet, SpawnBlink, Quit, CancelNet, CancelBlink,
     Cancel, JoinNet, JoinBlink, Blink, NetEnd, NetPrintf, Clamp, ClampLow, ClampLowStore,
     ClampHigh, ClampHighStore, ServerCloses, Draw, DrawRow1, DrawRow2, DrawCursor, Lock,
     Unlock, ActOnCancel, Terminated, Step, vars, world, chat
<1> QED
  BY <1>1, <1>2, <1>3, <1>4, StepSplit DEF OtherStep, Net

LEMMA EnvTypesNext == EnvTypes /\ [Next]_vars => EnvTypes'
<1> SUFFICES ASSUME EnvTypes, [Next]_vars PROVE EnvTypes'
  OBVIOUS
<1> USE DEF EnvTypes
<1>1. CASE MainStep
  BY <1>1, MainFrame DEF world, env
<1>2. CASE Startup \/ Quit \/ ServerCloses
  BY <1>2 DEF Startup, OpenScreen, Connect, SpawnNet, SpawnBlink, Quit, CancelNet, CancelBlink,
     Cancel, JoinNet, JoinBlink, ServerCloses, Step, world, env
<1>3. ASSUME NEW t \in Threads, Draw(t) \/ Lock(t) \/ Unlock(t) \/ ActOnCancel(t)
      PROVE  EnvTypes'
  BY <1>3 DEF Draw, DrawRow1, DrawRow2, DrawCursor, Lock, Unlock, ActOnCancel, env
<1>4. CASE Blink \/ NetRead \/ NetEnd \/ Net \/ Terminated \/ UNCHANGED vars
  BY <1>4 DEF Blink, NetRead, NetEnd, Net, NetPrintf, Clamp, ClampLow, ClampLowStore, ClampHigh,
     ClampHighStore, PrintChat, Terminated, Step, vars, world, env
<1> QED
  BY <1>1, <1>2, <1>3, <1>4, StepSplit DEF OtherStep

LEMMA PcTypesNext == LockInv /\ PcTypes /\ [Next]_vars => PcTypes'
<1> SUFFICES ASSUME LockInv, PcTypes, [Next]_vars PROVE PcTypes'
  OBVIOUS
<1> USE DEF PcTypes, Labels, Threads
<1>0. pc = [t \in Threads |-> pc[t]]
  BY DEF LockInv
<1>1. CASE Edit \/ Send
  BY <1>0, <1>1 DEF Edit, Move, Put, StoreLen, LoadCursor, StoreCursor, Redraw, Send, WriteSome,
     WriteEnds, WriteKills, Wipe, Step, Jump, At, Goto
<1>2. ASSUME NEW k \in Pressed, KeyReport(k) PROVE PcTypes'
  BY <1>0, <1>2 DEF KeyReport, KeyEsc, KeyRelease, KeyNoEffect, KeyLeft, KeyRight, KeyArrow,
     KeyCaps, KeyBackspace, KeyChar, KeyEnter, Redraw, Step, Jump, At, Goto
<1>3. CASE Startup \/ Quit
  BY <1>0, <1>3 DEF Startup, OpenScreen, Connect, SpawnNet, SpawnBlink, Quit, CancelNet,
     CancelBlink, Cancel, JoinNet, JoinBlink, Step, Jump, At, Goto
<1>4. CASE Blink \/ NetRead \/ NetEnd \/ Net \/ ServerCloses \/ Terminated \/ UNCHANGED vars
  BY <1>0, <1>4 DEF Blink, NetRead, NetEnd, Net, NetPrintf, Clamp, ClampLow, ClampLowStore,
     ClampHigh, ClampHighStore, PrintChat, ServerCloses, Terminated, Step, Jump, At, Goto, vars
<1>5. ASSUME NEW t \in Threads, Draw(t) \/ Lock(t) \/ Unlock(t) PROVE PcTypes'
  BY <1>0, <1>5 DEF Draw, DrawRow1, DrawRow2, DrawCursor, Lock, Unlock, Home, Drawers, Jump, At,
     Goto
<1>6. ASSUME NEW t \in {"net", "blink"}, ActOnCancel(t) PROVE PcTypes'
  BY <1>0, <1>6 DEF ActOnCancel, Goto
<1> QED
  BY <1>1, <1>2, <1>3, <1>4, <1>5, <1>6 DEF Next, Drawers

\* As long as no key is pressed with the cursor outside the line, every variable
\* keeps its type: no index and no length leaves input_buf, whatever the threads do.
THEOREM Typed == ~KeysAstray => (Spec => []TypeOK)
<1> SUFFICES ASSUME ~KeysAstray PROVE Spec => []TypeOK
  OBVIOUS
<1>1. TypeInv /\ [Next]_vars => TypeInv'
  <2> SUFFICES ASSUME TypeInv, [Next]_vars PROVE TypeInv'
    OBVIOUS
  <2>1. CursorInv' /\ ScreenOK'
    BY CursorNext, ScreenNext DEF TypeInv
  <2>2. KeyTypes' /\ BufTypes' /\ SendTypes' /\ OpTypes'
    BY KeyTypesNext, BufTypesNext, SendTypesNext, OpTypesNext DEF TypeInv
  <2>3. DrawTypes' /\ ChatTypes' /\ EnvTypes' /\ PcTypes'
    BY DrawTypesNext, ChatTypesNext, EnvTypesNext, PcTypesNext DEF TypeInv, CursorInv
  <2> QED
    BY <2>1, <2>2, <2>3 DEF TypeInv
<1>2. TypeInv => TypeOK
  BY CursorRange DEF TypeInv, KeyTypes, BufTypes, SendTypes, OpTypes, DrawTypes, ChatTypes,
     EnvTypes, PcTypes, TypeOK
<1> QED
  BY <1>1, <1>2, TypeInit, PTL DEF Spec

-----------------------------------------------------------------------------
(* The line as a sequence. *)

\* What RemoveAt and InsertAt have where.
LEMMA RemoveAtProperties ==
  ASSUME NEW S, NEW s \in Seq(S), NEW i \in 1 .. Len(s)
  PROVE  /\ RemoveAt(s, i) \in Seq(S) /\ Len(RemoveAt(s, i)) = Len(s) - 1
         /\ \A j \in 1 .. Len(s) - 1 : RemoveAt(s, i)[j] = IF j < i THEN s[j] ELSE s[j + 1]
<1>1. Len(s) \in Nat /\ \A j \in 1 .. Len(s) : s[j] \in S
  BY LenProperties, ElementOfSeq
<1> DEFINE a == SubSeq(s, 1, i - 1)
           b == SubSeq(s, i + 1, Len(s))
<1>2. /\ a \in Seq(S) /\ Len(a) = i - 1
      /\ \A j \in 1 .. i - 1 : a[j] = s[j]
  <2>1. \A j \in 1 .. i - 1 : s[j] \in S
    BY <1>1
  <2>2. /\ a \in Seq(S) /\ Len(a) = IF 1 <= i - 1 THEN i - 1 - 1 + 1 ELSE 0
        /\ \A j \in 1 .. i - 1 - 1 + 1 : a[j] = s[1 + j - 1]
    BY <1>1, <2>1, SubSeqProperties
  <2> QED
    BY <1>1, <2>2
<1>3. /\ b \in Seq(S) /\ Len(b) = Len(s) - i
      /\ \A j \in 1 .. Len(s) - i : b[j] = s[i + j]
  <2>1. \A j \in i + 1 .. Len(s) : s[j] \in S
    BY <1>1
  <2>2. /\ b \in Seq(S) /\ Len(b) = IF i + 1 <= Len(s) THEN Len(s) - (i + 1) + 1 ELSE 0
        /\ \A j \in 1 .. Len(s) - (i + 1) + 1 : b[j] = s[(i + 1) + j - 1]
    BY <1>1, <2>1, SubSeqProperties
  <2> QED
    BY <1>1, <2>2
<1> DEFINE t == a \o b
<1>4. RemoveAt(s, i) = t
  BY DEF RemoveAt
<1> HIDE DEF a, b
<1>5. /\ t \in Seq(S) /\ Len(t) = Len(a) + Len(b)
      /\ \A j \in 1 .. Len(a) + Len(b) : t[j] = IF j <= Len(a) THEN a[j] ELSE b[j - Len(a)]
  BY <1>2, <1>3, ConcatProperties
<1> HIDE DEF t
<1>6. Len(a) + Len(b) = Len(s) - 1
  BY <1>1, <1>2, <1>3
<1>7. ASSUME NEW j \in 1 .. Len(s) - 1
      PROVE  t[j] = IF j < i THEN s[j] ELSE s[j + 1]
  <2>1. CASE j < i
    BY <1>1, <1>2, <1>5, <1>6, <2>1
  <2>2. CASE j >= i
    <3>1. j - (i - 1) \in 1 .. Len(s) - i /\ i + (j - (i - 1)) = j + 1
      BY <1>1, <2>2
    <3>2. t[j] = b[j - (i - 1)]
      BY <1>1, <1>2, <1>5, <1>6, <2>2
    <3>3. b[j - (i - 1)] = s[i + (j - (i - 1))]
      BY <1>3, <3>1
    <3> QED
      BY <2>2, <3>1, <3>2, <3>3
  <2>3. i \in Int /\ j \in Int
    BY <1>1
  <2> QED
    BY <2>1, <2>2, <2>3
<1> QED
  BY <1>4, <1>5, <1>6, <1>7

LEMMA InsertAtProperties ==
  ASSUME NEW S, NEW s \in Seq(S), NEW i \in Int, NEW e \in S, 1 <= i, i <= Len(s) + 1
  PROVE  /\ InsertAt(s, i, e) \in Seq(S) /\ Len(InsertAt(s, i, e)) = Len(s) + 1
         /\ \A j \in 1 .. Len(s) + 1 :
               InsertAt(s, i, e)[j] = IF j < i THEN s[j] ELSE IF j = i THEN e ELSE s[j - 1]
<1>1. Len(s) \in Nat /\ \A j \in 1 .. Len(s) : s[j] \in S
  BY LenProperties, ElementOfSeq
<1> DEFINE a == SubSeq(s, 1, i - 1)
           b == SubSeq(s, i, Len(s))
           c == a \o <<e>>
<1>2. /\ a \in Seq(S) /\ Len(a) = i - 1
      /\ \A j \in 1 .. i - 1 : a[j] = s[j]
  <2>1. \A j \in 1 .. i - 1 : s[j] \in S
    BY <1>1
  <2>2. /\ a \in Seq(S) /\ Len(a) = IF 1 <= i - 1 THEN i - 1 - 1 + 1 ELSE 0
        /\ \A j \in 1 .. i - 1 - 1 + 1 : a[j] = s[1 + j - 1]
    BY <1>1, <2>1, SubSeqProperties
  <2> QED
    BY <1>1, <2>2
<1>3. /\ b \in Seq(S) /\ Len(b) = Len(s) - i + 1
      /\ \A j \in 1 .. Len(s) - i + 1 : b[j] = s[i + j - 1]
  <2>1. \A j \in i .. Len(s) : s[j] \in S
    BY <1>1
  <2>2. /\ b \in Seq(S) /\ Len(b) = IF i <= Len(s) THEN Len(s) - i + 1 ELSE 0
        /\ \A j \in 1 .. Len(s) - i + 1 : b[j] = s[i + j - 1]
    BY <1>1, <2>1, SubSeqProperties
  <2> QED
    BY <1>1, <2>2
<1>4. InsertAt(s, i, e) = c \o b
  BY DEF InsertAt
<1>5. <<e>> \in Seq(S) /\ Len(<<e>>) = 1 /\ <<e>>[1] = e
  OBVIOUS
<1> HIDE DEF a, b
<1>6. /\ c \in Seq(S) /\ Len(c) = i
      /\ \A j \in 1 .. i : c[j] = IF j <= i - 1 THEN a[j] ELSE <<e>>[j - (i - 1)]
  <2>1. /\ c \in Seq(S) /\ Len(c) = Len(a) + Len(<<e>>)
        /\ \A j \in 1 .. Len(a) + Len(<<e>>) :
              c[j] = IF j <= Len(a) THEN a[j] ELSE <<e>>[j - Len(a)]
    BY <1>2, <1>5, ConcatProperties
  <2> QED
    BY <1>1, <1>2, <1>5, <2>1
<1>7. \A j \in 1 .. i : c[j] = IF j < i THEN s[j] ELSE e
  BY <1>1, <1>2, <1>5, <1>6
<1> HIDE DEF c
<1> DEFINE t == c \o b
<1>8. /\ t \in Seq(S) /\ Len(t) = Len(c) + Len(b)
      /\ \A j \in 1 .. Len(c) + Len(b) : t[j] = IF j <= Len(c) THEN c[j] ELSE b[j - Len(c)]
  BY <1>3, <1>6, ConcatProperties
<1>9. InsertAt(s, i, e) = t
  BY <1>4
<1> HIDE DEF t
<1> QED
  BY <1>1, <1>3, <1>6, <1>7, <1>8, <1>9

-----------------------------------------------------------------------------
(* What memmove and the store of a character do to the line. *)

\* The first k bytes of a buffer.
Text(buf, k) == [i \in 1 .. k |-> buf[i - 1]]

LEMMA TextProperties ==
  ASSUME NEW buf \in [Index -> Bytes], NEW k \in Int, 0 <= k, k <= MaxLen
  PROVE  /\ Text(buf, k) \in Seq(Bytes) /\ Len(Text(buf, k)) = k
         /\ \A j \in 1 .. k : Text(buf, k)[j] = buf[j - 1]
<1>1. \A j \in 1 .. k : buf[j - 1] \in Bytes
  BY MaxLenNat DEF Index
<1>2. k \in Nat
  OBVIOUS
<1> QED
  BY <1>1, <1>2 DEF Text

\* memmove of k bytes.
MoveOf(buf, d, s, k) ==
    [i \in Index |-> IF i \in d .. d + k - 1 THEN buf[s + i - d] ELSE buf[i]]

LEMMA MakeRoom ==
  ASSUME NEW buf \in [Index -> Bytes], NEW n \in Int, NEW c \in Int,
         0 <= c, c <= n, n < MaxLen
  PROVE  LET moved == MoveOf(buf, c + 1, c, n - c + 1) IN
         /\ moved \in [Index -> Bytes]
         /\ RemoveAt(Text(moved, n + 1), c + 1) = Text(buf, n)
<1> DEFINE moved == MoveOf(buf, c + 1, c, n - c + 1)
<1>1. /\ \A i \in Index : moved[i] = IF i \in c + 1 .. n + 1 THEN buf[i - 1] ELSE buf[i]
      /\ moved \in [Index -> Bytes]
  <2>1. \A i \in Index : /\ i \in c + 1 .. c + 1 + (n - c + 1) - 1 <=> i \in c + 1 .. n + 1
                         /\ c + i - (c + 1) = i - 1
                         /\ i \in c + 1 .. n + 1 => i - 1 \in Index
    BY MaxLenNat DEF Index
  <2> QED
    BY <2>1 DEF MoveOf
<1> HIDE DEF moved
<1>2. /\ Text(moved, n + 1) \in Seq(Bytes) /\ Len(Text(moved, n + 1)) = n + 1
      /\ \A j \in 1 .. n + 1 : Text(moved, n + 1)[j] = moved[j - 1]
  <2>1. n + 1 \in Int /\ 0 <= n + 1 /\ n + 1 <= MaxLen
    BY MaxLenNat
  <2> QED
    BY <1>1, <2>1, TextProperties
<1>3. /\ Text(buf, n) \in Seq(Bytes) /\ Len(Text(buf, n)) = n
      /\ \A j \in 1 .. n : Text(buf, n)[j] = buf[j - 1]
  BY MaxLenNat, TextProperties
<1>4. /\ RemoveAt(Text(moved, n + 1), c + 1) \in Seq(Bytes)
      /\ Len(RemoveAt(Text(moved, n + 1), c + 1)) = n
      /\ \A j \in 1 .. n : RemoveAt(Text(moved, n + 1), c + 1)[j] =
            IF j < c + 1 THEN Text(moved, n + 1)[j] ELSE Text(moved, n + 1)[j + 1]
  <2>1. c + 1 \in 1 .. Len(Text(moved, n + 1)) /\ Len(Text(moved, n + 1)) - 1 = n
    BY <1>2
  <2> QED
    BY <1>2, <2>1, RemoveAtProperties
<1>5. ASSUME NEW j \in 1 .. n
      PROVE  RemoveAt(Text(moved, n + 1), c + 1)[j] = Text(buf, n)[j]
  <2>1. j \in 1 .. n + 1 /\ j + 1 \in 1 .. n + 1 /\ j - 1 \in Index /\ j \in Index
    BY MaxLenNat DEF Index
  <2>2. moved[j - 1] = IF j - 1 \in c + 1 .. n + 1 THEN buf[(j - 1) - 1] ELSE buf[j - 1]
    BY <1>1, <2>1
  <2>3. moved[j] = IF j \in c + 1 .. n + 1 THEN buf[j - 1] ELSE buf[j]
    BY <1>1, <2>1
  <2>4. Text(moved, n + 1)[j + 1] = moved[j] /\ Text(moved, n + 1)[j] = moved[j - 1]
    BY <1>2, <2>1
  <2> QED
    BY <1>3, <1>4, <2>2, <2>3, <2>4
<1> QED
  BY <1>1, <1>3, <1>4, <1>5, SeqEqual DEF moved

LEMMA CloseGap ==
  ASSUME NEW buf \in [Index -> Bytes], NEW n \in Int, NEW c \in Int,
         1 <= c, c <= n, n <= MaxLen
  PROVE  LET moved == MoveOf(buf, c - 1, c, n - c + 1) IN
         /\ moved \in [Index -> Bytes]
         /\ Text(moved, n - 1) = RemoveAt(Text(buf, n), c)
<1> DEFINE moved == MoveOf(buf, c - 1, c, n - c + 1)
<1>1. /\ \A i \in Index : moved[i] = IF i \in c - 1 .. n - 1 THEN buf[i + 1] ELSE buf[i]
      /\ moved \in [Index -> Bytes]
  <2>1. \A i \in Index : /\ i \in c - 1 .. c - 1 + (n - c + 1) - 1 <=> i \in c - 1 .. n - 1
                         /\ c + i - (c - 1) = i + 1
                         /\ i \in c - 1 .. n - 1 => i + 1 \in Index
    BY MaxLenNat DEF Index
  <2> QED
    BY <2>1 DEF MoveOf
<1> HIDE DEF moved
<1>2. /\ Text(moved, n - 1) \in Seq(Bytes) /\ Len(Text(moved, n - 1)) = n - 1
      /\ \A j \in 1 .. n - 1 : Text(moved, n - 1)[j] = moved[j - 1]
  <2>1. n - 1 \in Int /\ 0 <= n - 1 /\ n - 1 <= MaxLen
    BY MaxLenNat
  <2> QED
    BY <1>1, <2>1, TextProperties
<1>3. /\ Text(buf, n) \in Seq(Bytes) /\ Len(Text(buf, n)) = n
      /\ \A j \in 1 .. n : Text(buf, n)[j] = buf[j - 1]
  BY MaxLenNat, TextProperties
<1>4. /\ RemoveAt(Text(buf, n), c) \in Seq(Bytes)
      /\ Len(RemoveAt(Text(buf, n), c)) = n - 1
      /\ \A j \in 1 .. n - 1 : RemoveAt(Text(buf, n), c)[j] =
            IF j < c THEN Text(buf, n)[j] ELSE Text(buf, n)[j + 1]
  <2>1. c \in 1 .. Len(Text(buf, n))
    BY <1>3
  <2> QED
    BY <1>3, <2>1, RemoveAtProperties
<1>5. ASSUME NEW j \in 1 .. n - 1
      PROVE  Text(moved, n - 1)[j] = RemoveAt(Text(buf, n), c)[j]
  <2>1. j \in 1 .. n /\ j + 1 \in 1 .. n /\ j - 1 \in Index
    BY MaxLenNat DEF Index
  <2>2. moved[j - 1] = IF j - 1 \in c - 1 .. n - 1 THEN buf[(j - 1) + 1] ELSE buf[j - 1]
    BY <1>1, <2>1
  <2>4. (j - 1) + 1 = j /\ (j - 1 \in c - 1 .. n - 1 <=> ~(j < c))
    OBVIOUS
  <2>3. Text(buf, n)[j + 1] = buf[j] /\ Text(buf, n)[j] = buf[j - 1]
    BY <1>3, <2>1
  <2> QED
    BY <1>2, <1>4, <2>2, <2>3, <2>4
<1> QED
  BY <1>1, <1>2, <1>4, <1>5, SeqEqual DEF moved

LEMMA OneOut ==
  ASSUME NEW b \in [Index -> Bytes], NEW n \in Int, NEW c \in Int, 0 <= c, c < n, n <= MaxLen
  PROVE  /\ RemoveAt(Text(b, n), c + 1) \in Seq(Bytes)
         /\ Len(RemoveAt(Text(b, n), c + 1)) = n - 1
         /\ \A j \in 1 .. n - 1 : RemoveAt(Text(b, n), c + 1)[j] =
               IF j < c + 1 THEN b[j - 1] ELSE b[j]
<1>1. /\ Text(b, n) \in Seq(Bytes) /\ Len(Text(b, n)) = n
      /\ \A j \in 1 .. n : Text(b, n)[j] = b[j - 1]
  <2>1. 0 <= n
    OBVIOUS
  <2> QED
    BY <2>1, TextProperties
<1>2. c + 1 \in 1 .. Len(Text(b, n))
  BY <1>1
<1>3. /\ RemoveAt(Text(b, n), c + 1) \in Seq(Bytes)
      /\ Len(RemoveAt(Text(b, n), c + 1)) = n - 1
      /\ \A j \in 1 .. n - 1 : RemoveAt(Text(b, n), c + 1)[j] =
            IF j < c + 1 THEN Text(b, n)[j] ELSE Text(b, n)[j + 1]
  BY <1>1, <1>2, RemoveAtProperties
<1>4. \A j \in 1 .. n - 1 : Text(b, n)[j] = b[j - 1] /\ Text(b, n)[j + 1] = b[j]
  BY <1>1
<1> QED
  BY <1>3, <1>4

\* The character that is stored is the one that is left out.
Filled(buf, c, x) == [buf EXCEPT ![c] = x]

LEMMA FillRoom ==
  ASSUME NEW buf \in [Index -> Bytes], NEW n \in Int, NEW c \in Int, NEW x \in Bytes,
         0 <= c, c < n, n <= MaxLen
  PROVE  /\ Filled(buf, c, x) \in [Index -> Bytes] /\ Filled(buf, c, x)[c] = x
         /\ RemoveAt(Text(Filled(buf, c, x), n), c + 1) = RemoveAt(Text(buf, n), c + 1)
<1> DEFINE filled == Filled(buf, c, x)
<1>1. c \in Index
  BY MaxLenNat DEF Index
<1>2. filled \in [Index -> Bytes] /\ filled[c] = x /\ \A i \in Index \ {c} : filled[i] = buf[i]
  BY <1>1 DEF Filled
<1> HIDE DEF filled
<1>3. \A j \in 1 .. n - 1 : /\ j - 1 \in Index /\ j \in Index
                            /\ j < c + 1 => j - 1 # c
                            /\ ~(j < c + 1) => j # c
  BY MaxLenNat DEF Index
<1> DEFINE was == RemoveAt(Text(buf, n), c + 1)
           is  == RemoveAt(Text(filled, n), c + 1)
<1>4. /\ was \in Seq(Bytes) /\ Len(was) = n - 1
      /\ \A j \in 1 .. n - 1 : was[j] = IF j < c + 1 THEN buf[j - 1] ELSE buf[j]
  BY OneOut
<1>5. /\ is \in Seq(Bytes) /\ Len(is) = n - 1
      /\ \A j \in 1 .. n - 1 : is[j] = IF j < c + 1 THEN filled[j - 1] ELSE filled[j]
  BY <1>2, OneOut
<1> HIDE DEF was, is
<1>6. \A j \in 1 .. n - 1 : is[j] = was[j]
  BY <1>2, <1>3, <1>4, <1>5
<1>7. is = was
  BY <1>4, <1>5, <1>6, SeqEqual
<1> QED
  BY <1>2, <1>7 DEF filled, is, was

LEMMA PutBack ==
  ASSUME NEW buf \in [Index -> Bytes], NEW n \in Int, NEW c \in Int,
         0 <= c, c < n, n <= MaxLen
  PROVE  /\ Len(RemoveAt(Text(buf, n), c + 1)) = n - 1
         /\ Text(buf, n) = InsertAt(RemoveAt(Text(buf, n), c + 1), c + 1, buf[c])
<1> DEFINE t == Text(buf, n)
           r == RemoveAt(t, c + 1)
<1>1. t \in Seq(Bytes) /\ Len(t) = n /\ \A j \in 1 .. n : t[j] = buf[j - 1]
  BY MaxLenNat, TextProperties
<1>2. buf[c] \in Bytes /\ t[c + 1] = buf[c]
  BY <1>1, MaxLenNat DEF Index
<1> HIDE DEF t
<1>3. /\ r \in Seq(Bytes) /\ Len(r) = n - 1
      /\ \A j \in 1 .. n - 1 : r[j] = IF j < c + 1 THEN t[j] ELSE t[j + 1]
  <2>1. c + 1 \in 1 .. Len(t)
    BY <1>1
  <2> QED
    BY <1>1, <2>1, RemoveAtProperties
<1> HIDE DEF r
<1>4. /\ InsertAt(r, c + 1, buf[c]) \in Seq(Bytes) /\ Len(InsertAt(r, c + 1, buf[c])) = n
      /\ \A j \in 1 .. n : InsertAt(r, c + 1, buf[c])[j] =
            IF j < c + 1 THEN r[j] ELSE IF j = c + 1 THEN buf[c] ELSE r[j - 1]
  <2> DEFINE x == buf[c]
             p == c + 1
  <2>1. p \in Int /\ 1 <= p /\ p <= Len(r) + 1 /\ Len(r) + 1 = n /\ x \in Bytes
    BY <1>2, <1>3
  <2>0. r \in Seq(Bytes)
    BY <1>3
  <2> HIDE DEF x, p
  <2>2. /\ InsertAt(r, p, x) \in Seq(Bytes)
        /\ Len(InsertAt(r, p, x)) = Len(r) + 1
        /\ \A j \in 1 .. Len(r) + 1 : InsertAt(r, p, x)[j] =
              IF j < p THEN r[j] ELSE IF j = p THEN x ELSE r[j - 1]
    BY <2>0, <2>1, InsertAtProperties
  <2> QED
    BY <2>1, <2>2 DEF x, p
<1>5. ASSUME NEW j \in 1 .. n PROVE InsertAt(r, c + 1, buf[c])[j] = t[j]
  <2>1. CASE j < c + 1
    BY <1>3, <1>4, <2>1
  <2>2. CASE j = c + 1
    BY <1>2, <1>4, <2>2
  <2>3. CASE j > c + 1
    BY <1>3, <1>4, <2>3
  <2> QED
    BY <2>1, <2>2, <2>3
<1> QED
  BY <1>1, <1>3, <1>4, <1>5, SeqEqual DEF t, r

-----------------------------------------------------------------------------
(* The line editor: where main is with its edit, how far net, which may clamp the
   cursor meanwhile, is with that, and what each of their steps is to the user. *)

MainLabels == EditLabels \cup {"killed"}

\* What Editing leaves open, of the characters and, in the silence, of the cursor.
Underway ==
    /\ pc["main"] \notin MainLabels => op = "none" /\ (~spoken => InLine)
    /\ pc["main"] \in {"move", "put"} /\ op = "ins" => typed \in Printable
    /\ pc["main"] \in {"len", "load", "store"} /\ op = "ins" =>
          input_buf[cursor_pos] \in Printable
    /\ pc["main"] = "load" /\ op = "bs" /\ ~spoken => 1 <= cursor_pos
    /\ pc["main"] = "store" =>
          /\ op \in {"ins", "left", "right"} => tmp = cursor_pos
          /\ op = "bs" => /\ tmp = cursor_pos \/ tmp = input_len + 1
                          /\ ~spoken => 1 <= tmp
    /\ pc["main"] = "killed" => op = "send"

\* net is about to pull back a cursor that is one place too far, or was.
OneTooFar ==
    pc["net"] = "highSet" =>
        /\ pc["main"] = "load" => cursor_pos = input_len + 1
        /\ pc["main"] = "store" /\ op = "bs" => tmp = input_len + 1
        /\ pc["main"] = "lock" => cursor_pos = input_len

Around == CursorInv /\ KeyTypes /\ (~spoken => MarkInv)

EditorInv ==
    /\ Around
    /\ input_buf \in [Index -> Bytes]
    /\ op = "send" <=> sendBuf # <<>>
    /\ Underway /\ OneTooFar

\* The line and the cursor of LineEditor, at each label.
AbsIs ==
    /\ op = "send" => absLine = <<>> /\ absCursor = 0
    /\ op = "ins" /\ pc["main"] \in {"put", "len"} =>
          absLine = RemoveAt(Text(input_buf, input_len + 1), cursor_pos + 1)
    /\ op = "ins" /\ pc["main"] \in {"load", "store"} =>
          absLine = RemoveAt(Text(input_buf, input_len), cursor_pos + 1)
    /\ op = "bs" /\ pc["main"] = "len" => absLine = Text(input_buf, input_len - 1)
    /\ op = "bs" /\ pc["main"] \in {"load", "store"} => absLine = Text(input_buf, input_len)
    /\ op # "send" /\ ~Inserting /\ ~Deleting => absLine = Text(input_buf, input_len)
    /\ Deleting /\ pc["main"] # "store" => absCursor = cursor_pos - 1
    /\ Deleting /\ pc["main"] = "store" => absCursor = tmp - 1
    /\ op # "send" /\ ~Deleting => absCursor = cursor_pos

LEMMA AbsShape == Numbers => AbsIs
<1> SUFFICES ASSUME Numbers PROVE AbsIs
  OBVIOUS
<1>1. /\ Inserting /\ pc["main"] \in {"put", "len"} => Length = input_len + 1
      /\ Deleting /\ pc["main"] = "len" => Length = input_len - 1
      /\ pc["main"] \in {"load", "store"} => Length = input_len
      /\ ~Inserting /\ ~Deleting => Length = input_len
  BY DEF Numbers, Length, Deleting, Inserting
<1>2. \A n : Bytes1To(n) = Text(input_buf, n)
  BY DEF Bytes1To, Text
<1>3. \/ op = "send" /\ absLine = <<>> /\ absCursor = 0
      \/ /\ op # "send"
         /\ Inserting => absLine = RemoveAt(Text(input_buf, Length), cursor_pos + 1)
         /\ ~Inserting => absLine = Text(input_buf, Length)
         /\ absCursor = IF ~Deleting THEN cursor_pos
                        ELSE IF pc["main"] = "store" THEN tmp - 1 ELSE cursor_pos - 1
  BY <1>2 DEF absLine, absCursor, Sending
<1> HIDE DEF Length
<1> QED
  BY <1>1, <1>3 DEF AbsIs, Inserting, Deleting

LEMMA AbsShapeNext == (Numbers => AbsIs)'
BY AbsShape, PTL

LEMMA EditorQuiet ==
  ASSUME EditorInv, Around', ~spoken' => ~spoken,
         UNCHANGED <<line, op, typed, tmp, sendBuf>>,
         \/ pc'["main"] = pc["main"]
         \/ pc["main"] \notin MainLabels /\ pc'["main"] \notin MainLabels,
         pc'["net"] = "highSet" => pc["net"] = "highSet" \/ cursor_pos > input_len
  PROVE  EditorInv' /\ UNCHANGED Editor!vars
<1> USE DEF EditorInv, Around, CursorInv
<1>1. UNCHANGED <<input_buf, input_len, cursor_pos, op, typed, tmp, sendBuf>>
  BY DEF line
<1>2. Underway'
  BY <1>1 DEF Underway, MainLabels, EditLabels, InLine
<1>3. OneTooFar'
  BY <1>1 DEF OneTooFar, Underway, Editing, Clamping, Numbers, MainLabels, EditLabels, InLine,
     InsAt, BsAt, RightAt, BsAfter
<1>4. /\ Inserting' = Inserting /\ Deleting' = Deleting
      /\ pc'["main"] \in {"put", "len"} => pc["main"] = pc'["main"]
      /\ Deleting => pc["main"] = pc'["main"]
  BY <1>1 DEF Underway, MainLabels, EditLabels, Inserting, Deleting
<1>5. Length' = Length
  BY <1>1, <1>4 DEF Length, MainLabels, EditLabels
<1>6. UNCHANGED <<absLine, absCursor>>
  BY <1>1, <1>4, <1>5 DEF absLine, absCursor, Sending, Bytes1To
<1> QED
  BY <1>1, <1>2, <1>3, <1>6 DEF Editor!vars

LEMMA EditorKey ==
  ASSUME Minding, EditorInv, Around', ~spoken' => ~spoken, NEW k \in Pressed, KeyReport(k)
  PROVE  EditorInv' /\ [Editor!Next]_(Editor!vars)
<1> USE DEF EditorInv, Around, CursorInv
<1>0. pc = [t \in Threads |-> pc[t]] /\ {"main", "net"} \subseteq Threads
  BY DEF LockInv, Threads
<1>1. /\ pc["main"] = "key" /\ pc["main"] \notin MainLabels /\ op = "none"
      /\ pc["net"] # "highSet"
  <2>1. pc["main"] = "key"
    BY DEF KeyReport, KeyEsc, KeyRelease, KeyNoEffect, KeyLeft, KeyRight, KeyArrow, KeyCaps,
       KeyBackspace, KeyChar, KeyEnter, TakeKey, Step, Jump, At
  <2> QED
    BY <2>1 DEF Underway, Clamping, MainLabels, EditLabels
<1>2. CASE /\ UNCHANGED <<line, op, typed, tmp, sendBuf>>
           /\ pc' = pc \/ \E to \in {"cancelNet", "lock"} : Goto("main", to)
  BY <1>0, <1>1, <1>2, EditorQuiet DEF Goto, MainLabels, EditLabels
<1>3. CASE /\ UNCHANGED <<line, tmp, sendBuf>> /\ InLine
           /\ \/ op' = "left"  /\ cursor_pos > 0 /\ Goto("main", "load")
              \/ op' = "right" /\ cursor_pos < input_len /\ Goto("main", "load")
              \/ op' = "bs"    /\ cursor_pos > 0 /\ Goto("main", "move")
              \/ op' = "ins"   /\ input_len < MaxLen /\ typed' \in Printable
                               /\ Goto("main", "move")
  <2>1. UNCHANGED <<input_buf, input_len, cursor_pos, tmp, sendBuf>>
    BY <1>3 DEF line
  <2>2. Numbers'
    BY <2>1 DEF Numbers
  <2>3. Underway' /\ OneTooFar'
    BY <1>0, <1>1, <1>3, <2>1 DEF Goto, Underway, OneTooFar, MainLabels, EditLabels, InLine
  <2>4. ~Inserting /\ ~Deleting /\ ~Inserting' /\ ~Deleting' /\ op # "send" /\ op' # "send"
    BY <1>0, <1>1, <1>3 DEF Goto, Inserting, Deleting
  <2>5. UNCHANGED <<absLine, absCursor>>
    BY <2>1, <2>2, <2>4, AbsShape, AbsShapeNext DEF AbsIs, Text
  <2> QED
    BY <1>1, <2>1, <2>2, <2>3, <2>4, <2>5 DEF Editor!vars
<1>4. CASE k = "enter" /\ KeyEnter
  <2>1. /\ UNCHANGED <<input_buf, input_len, cursor_pos, tmp>> /\ op' = "send"
        /\ sendBuf' = Append(Text(input_buf, input_len), Newline)
        /\ Goto("main", "write") /\ input_len > 0 /\ InLine
    BY <1>4 DEF KeyEnter, TakeKey, At, Minding, NoEffect, Numbers, line, Text
  <2>2. Numbers'
    BY <2>1 DEF Numbers
  <2>3. Underway' /\ OneTooFar'
    BY <1>0, <1>1, <2>1 DEF Goto, Underway, OneTooFar, MainLabels, EditLabels
  <2>4. Text(input_buf, input_len) \in Seq(Bytes) /\ Len(Text(input_buf, input_len)) = input_len
    BY MaxLenNat, TextProperties DEF Numbers
  <2>5. Text(input_buf, input_len) # <<>> /\ sendBuf' # <<>>
    BY <2>1, <2>4 DEF Numbers
  <2>6. absLine = Text(input_buf, input_len) /\ absLine' = <<>> /\ absCursor' = 0
    BY <1>1, <2>1, <2>2, AbsShape, AbsShapeNext DEF AbsIs, Inserting, Deleting
  <2>7. Editor!Submit
    BY <1>1, <2>1, <2>5, <2>6 DEF Editor!Submit
  <2> QED
    BY <2>1, <2>2, <2>3, <2>5, <2>7 DEF Editor!Next
<1> QED
  <2>1. CASE KeyEsc \/ KeyRelease \/ KeyNoEffect(k) \/ KeyCaps
    BY <1>2, <2>1 DEF KeyEsc, KeyRelease, KeyNoEffect, KeyCaps, Redraw, Step, Jump, mine, locals
  <2>2. CASE KeyLeft \/ KeyRight
    BY <1>2, <1>3, <2>2 DEF KeyLeft, KeyRight, KeyArrow, Redraw, TakeKey, At, Minding
  <2>3. CASE k = "bksp" /\ KeyBackspace
    <3>1. cursor_pos > 0 /\ InLine
      BY <2>3 DEF KeyBackspace, TakeKey, At, Minding, NoEffect, AtStart, Numbers
    <3> QED
      BY <1>3, <2>3, <3>1 DEF KeyBackspace
  <2>4. ASSUME k \in Letters \cup Symbols, NEW shift \in BOOLEAN, KeyChar(k, shift)
        PROVE  EditorInv' /\ [Editor!Next]_(Editor!vars)
    <3>1. input_len < MaxLen /\ InLine
      BY <2>4, MaxLenNat DEF KeyChar, TakeKey, At, Minding, NoEffect, Full, Numbers
    <3>2. typed' \in Printable
      BY <2>4 DEF KeyChar, Ascii, Printable, KeyTypes
    <3> QED
      BY <1>3, <2>4, <3>1, <3>2 DEF KeyChar
  <2> QED
    BY <1>4, <2>1, <2>2, <2>3, <2>4 DEF KeyReport

\* What memmove does to input_buf in an insertion and in a deletion.
LEMMA Moves == \A d, c, k : Moved(d, c, k) = MoveOf(input_buf, d, c, k)
BY DEF Moved, MoveOf

LEMMA EditorOps ==
  /\ \A s, i : Editor!RemoveAt(s, i) = RemoveAt(s, i)
  /\ \A s, i, c : Editor!InsertAt(s, i, c) = InsertAt(s, i, c)
BY DEF Editor!RemoveAt, RemoveAt, Editor!InsertAt, InsertAt

LEMMA EditorMove ==
  ASSUME EditorInv, Around', ~spoken' => ~spoken, Move
  PROVE  EditorInv' /\ [Editor!Next]_(Editor!vars)
<1> USE DEF EditorInv, Around, CursorInv
<1>0. pc = [t \in Threads |-> pc[t]] /\ "main" \in Threads
  BY DEF LockInv, Threads
<1>1. /\ UNCHANGED <<input_len, cursor_pos, op, typed, tmp, sendBuf>> /\ pc["main"] = "move"
      /\ \/ op = "ins" /\ InsAt(cursor_pos) /\ typed \in Printable /\ Goto("main", "put")
         \/ op = "bs"  /\ BsAt(cursor_pos) /\ Goto("main", "len")
      /\ input_buf' = MoveOf(input_buf, IF op = "ins" THEN cursor_pos + 1 ELSE cursor_pos - 1,
                             cursor_pos, input_len - cursor_pos + 1)
  BY Moves DEF Move, Jump, At, locals, MoveSize, Underway, Editing
<1>2. Numbers' /\ OneTooFar'
  BY <1>1 DEF OneTooFar, Clamping, Goto, LockInv, Threads
<1>3. /\ input_len \in Int /\ cursor_pos \in Int /\ input_len <= MaxLen
      /\ MaxLen \in Nat
  BY MaxLenNat DEF Numbers
<1>4. CASE op = "ins"
  <2>1. /\ input_buf' = MoveOf(input_buf, cursor_pos + 1, cursor_pos, input_len - cursor_pos + 1)
        /\ 0 <= cursor_pos /\ cursor_pos <= input_len /\ input_len < MaxLen
        /\ pc'["main"] = "put"
    BY <1>0, <1>1, <1>4 DEF InsAt, Goto
  <2>2. /\ input_buf' \in [Index -> Bytes]
        /\ RemoveAt(Text(input_buf', input_len + 1), cursor_pos + 1) = Text(input_buf, input_len)
    BY <1>3, <2>1, MakeRoom
  <2>3. Underway'
    BY <1>1, <1>4, <2>1 DEF Underway, MainLabels, EditLabels
  <2>4. absLine' = absLine /\ absCursor' = absCursor
    BY <1>1, <1>2, <1>4, <2>1, <2>2, AbsShape, AbsShapeNext DEF AbsIs, Inserting, Deleting
  <2> QED
    BY <1>1, <1>2, <2>2, <2>3, <2>4 DEF Editor!vars
<1>5. CASE op = "bs"
  <2>1. /\ input_buf' = MoveOf(input_buf, cursor_pos - 1, cursor_pos, input_len - cursor_pos + 1)
        /\ 1 <= cursor_pos /\ cursor_pos <= input_len /\ pc'["main"] = "len"
    BY <1>0, <1>1, <1>5 DEF BsAt, Goto
  <2>2. /\ input_buf' \in [Index -> Bytes]
        /\ Text(input_buf', input_len - 1) = RemoveAt(Text(input_buf, input_len), cursor_pos)
    BY <1>3, <2>1, CloseGap
  <2>3. Underway'
    BY <1>1, <1>5, <2>1 DEF Underway, MainLabels, EditLabels
  <2>4. /\ absLine = Text(input_buf, input_len) /\ absCursor = cursor_pos
        /\ absLine' = Text(input_buf', input_len - 1) /\ absCursor' = cursor_pos - 1
    BY <1>1, <1>2, <1>5, <2>1, AbsShape, AbsShapeNext DEF AbsIs, Inserting, Deleting
  <2>5. Editor!Backspace
    <3>1. sendBuf = <<>> /\ sendBuf' = <<>>
      BY <1>1, <1>5
    <3>2. absCursor > 0
      BY <1>3, <2>1, <2>4
    <3>3. absLine' = Editor!RemoveAt(absLine, absCursor)
      BY <1>1, <2>2, <2>4, EditorOps
    <3> QED
      BY <2>4, <3>1, <3>2, <3>3 DEF Editor!Backspace, Editor!Ready
  <2> QED
    BY <1>1, <1>2, <2>2, <2>3, <2>5 DEF Editor!Next
<1> QED
  BY <1>1, <1>4, <1>5

LEMMA EditorPut ==
  ASSUME EditorInv, Around', ~spoken' => ~spoken, Put
  PROVE  EditorInv' /\ [Editor!Next]_(Editor!vars)
<1> USE DEF EditorInv, Around, CursorInv
<1>1. /\ UNCHANGED <<input_len, cursor_pos, op, tmp, sendBuf>>
      /\ pc["main"] = "put" /\ op = "ins" /\ InsAt(cursor_pos) /\ typed \in Printable
      /\ input_buf' = [input_buf EXCEPT ![cursor_pos] = typed] /\ pc'["main"] = "len"
  BY DEF Put, Jump, At, Goto, Underway, Editing, LockInv, Threads
<1>2. Numbers' /\ OneTooFar'
  BY <1>1 DEF OneTooFar, Clamping, Goto, LockInv, Threads
<1>3. /\ input_buf' \in [Index -> Bytes] /\ input_buf'[cursor_pos] = typed
      /\ RemoveAt(Text(input_buf', input_len + 1), cursor_pos + 1)
            = RemoveAt(Text(input_buf, input_len + 1), cursor_pos + 1)
  <2>1. /\ input_len + 1 \in Int /\ cursor_pos \in Int /\ typed \in Bytes
        /\ 0 <= cursor_pos /\ cursor_pos < input_len + 1 /\ input_len + 1 <= MaxLen
    BY <1>1, MaxLenNat DEF Numbers, InsAt, Bytes
  <2>2. /\ Filled(input_buf, cursor_pos, typed) \in [Index -> Bytes]
        /\ Filled(input_buf, cursor_pos, typed)[cursor_pos] = typed
        /\ RemoveAt(Text(Filled(input_buf, cursor_pos, typed), input_len + 1), cursor_pos + 1)
              = RemoveAt(Text(input_buf, input_len + 1), cursor_pos + 1)
    BY <2>1, FillRoom
  <2> QED
    BY <1>1, <2>2 DEF Filled
<1>4. Underway'
  BY <1>1, <1>3 DEF Underway, MainLabels, EditLabels
<1>5. absLine' = absLine /\ absCursor' = absCursor
  BY <1>1, <1>2, <1>3, AbsShape, AbsShapeNext DEF AbsIs, Inserting, Deleting
<1> QED
  BY <1>1, <1>2, <1>3, <1>4, <1>5 DEF Editor!vars

LEMMA EditorLen ==
  ASSUME EditorInv, Around', ~spoken' => ~spoken, StoreLen \/ LoadCursor
  PROVE  EditorInv' /\ [Editor!Next]_(Editor!vars)
<1> USE DEF EditorInv, Around, CursorInv
<1>1. CASE StoreLen
  <2>1. /\ UNCHANGED <<input_buf, cursor_pos, op, typed, tmp, sendBuf>>
        /\ pc["main"] = "len" /\ pc'["main"] = IF op = "send" THEN "store" ELSE "load"
        /\ \/ op = "ins" /\ input_len' = input_len + 1
           \/ op = "bs" /\ input_len' = input_len - 1
           \/ op = "send" /\ input_len' = 0
    BY <1>1 DEF StoreLen, NewLen, Jump, At, Goto, locals, Editing, LockInv, Threads
  <2>2. Numbers' /\ OneTooFar'
    BY <2>1, <1>1 DEF OneTooFar, Clamping, StoreLen, Jump, Goto, LockInv, Threads
  <2>3. Underway'
    BY <2>1 DEF Numbers, Underway, Editing, MainLabels, EditLabels, BsAt
  <2>4. absLine' = absLine /\ absCursor' = absCursor
    BY <2>1, <2>2, AbsShape, AbsShapeNext DEF AbsIs, Inserting, Deleting
  <2> QED
    BY <2>1, <2>2, <2>3, <2>4 DEF Editor!vars
<1>2. CASE LoadCursor
  <2>1. /\ UNCHANGED <<input_buf, input_len, cursor_pos, op, typed, sendBuf>> /\ tmp' = cursor_pos
        /\ pc["main"] = "load" /\ pc'["main"] = "store"
    BY <1>2 DEF LoadCursor, Jump, At, Goto, line, LockInv, Threads
  <2>2. Numbers' /\ OneTooFar'
    BY <2>1, <1>2 DEF OneTooFar, LoadCursor, Jump, Goto, LockInv, Threads
  <2>3. Underway'
    BY <2>1 DEF Underway, MainLabels, EditLabels
  <2>4. absLine' = absLine /\ absCursor' = absCursor
    BY <2>1, <2>2, AbsShape, AbsShapeNext DEF AbsIs, Inserting, Deleting, Underway
  <2> QED
    BY <2>1, <2>2, <2>3, <2>4 DEF Editor!vars
<1> QED
  BY <1>1, <1>2

LEMMA EditorStore ==
  ASSUME EditorInv, Around', ~spoken' => ~spoken, StoreCursor
  PROVE  EditorInv' /\ [Editor!Next]_(Editor!vars)
<1> USE DEF EditorInv, Around, CursorInv
<1>1. /\ UNCHANGED <<input_buf, input_len>> /\ op' = "none" /\ tmp' = 0 /\ sendBuf' = <<>>
      /\ pc["main"] = "store" /\ pc'["main"] = "lock"
      /\ cursor_pos' = IF op = "send" THEN 0 ELSE tmp + Shift[op]
  BY DEF StoreCursor, Redraw, At, Goto, LockInv, Threads
<1>2. \/ /\ op = "ins" /\ RightAt(cursor_pos) /\ input_buf[cursor_pos] \in Printable
         /\ cursor_pos' = cursor_pos + 1
      \/ op = "bs" /\ BsAfter(tmp) /\ cursor_pos' = tmp - 1
      \/ op = "left" /\ BsAt(cursor_pos) /\ cursor_pos' = cursor_pos - 1
      \/ op = "right" /\ RightAt(cursor_pos) /\ cursor_pos' = cursor_pos + 1
      \/ op = "send" /\ input_len = 0 /\ cursor_pos' = 0
  BY <1>1 DEF Underway, Editing, Shift, Numbers
<1>3. /\ Numbers'
      /\ ~spoken => InLine'
      /\ op \in {"ins", "left", "right", "send"} => InLine'
  BY <1>1, <1>2 DEF Numbers, Underway, InLine, RightAt, BsAt, BsAfter
<1>4. Underway' /\ OneTooFar'
  <2>1. Underway'
    BY <1>1, <1>3 DEF Underway, MainLabels, EditLabels
  <2>2. pc'["net"] = pc["net"]
    BY DEF StoreCursor, Redraw, At, Goto, LockInv, Threads
  <2>3. OneTooFar'
    BY <1>1, <1>2, <2>2 DEF OneTooFar, Clamping, Numbers
  <2> QED
    BY <2>1, <2>3
<1>5. absLine' = Text(input_buf, input_len) /\ absCursor' = cursor_pos'
  BY <1>1, <1>3, AbsShapeNext DEF AbsIs, Inserting, Deleting
<1>6. op = "send" <=> sendBuf # <<>>
  OBVIOUS
<1>7. input_len \in Int /\ 0 <= input_len /\ input_len <= MaxLen /\ cursor_pos \in Int
  BY DEF Numbers
<1>8. /\ Text(input_buf, input_len) \in Seq(Bytes)
      /\ Len(Text(input_buf, input_len)) = input_len
  BY <1>7, TextProperties
<1>9. CASE op = "ins"
  <2>1. absLine = RemoveAt(Text(input_buf, input_len), cursor_pos + 1) /\ absCursor = cursor_pos
    BY <1>1, <1>9, AbsShape DEF AbsIs, Deleting
  <2>2. 0 <= cursor_pos /\ cursor_pos < input_len
    BY <1>2, <1>9 DEF RightAt
  <2>3. /\ Len(absLine) = input_len - 1
        /\ Text(input_buf, input_len) = InsertAt(absLine, cursor_pos + 1, input_buf[cursor_pos])
    BY <1>7, <2>1, <2>2, PutBack
  <2>4. absLine' = Editor!InsertAt(absLine, absCursor + 1, input_buf[cursor_pos])
    BY <1>5, <2>1, <2>3, EditorOps
  <2>5. /\ Len(absLine) < MaxLen /\ absCursor >= 0
        /\ absCursor' = absCursor + 1 /\ sendBuf = <<>>
    BY <1>2, <1>5, <1>6, <1>7, <1>9, <2>1, <2>2, <2>3, MaxLenNat
  <2>6. Editor!Insert(input_buf[cursor_pos])
    BY <1>1, <2>4, <2>5 DEF Editor!Insert, Editor!Ready
  <2>7. input_buf[cursor_pos] \in Printable
    BY <1>2, <1>9
  <2> QED
    BY <1>1, <1>3, <1>4, <2>6, <2>7 DEF Editor!Next
<1>10. CASE op \in {"left", "right"}
  <2>1. absLine = Text(input_buf, input_len) /\ absCursor = cursor_pos
    BY <1>10, AbsShape DEF AbsIs, Inserting, Deleting
  <2>2. Editor!Left \/ Editor!Right
    <3>1. sendBuf = <<>>
      BY <1>6, <1>10
    <3> QED
      BY <1>1, <1>2, <1>5, <1>7, <1>8, <1>10, <2>1, <3>1
         DEF Editor!Left, Editor!Right, Editor!Ready, BsAt, RightAt
  <2> QED
    BY <1>1, <1>3, <1>4, <2>2 DEF Editor!Next
<1>11. CASE op = "bs"
  <2>1. absLine = Text(input_buf, input_len) /\ absCursor = tmp - 1
    BY <1>1, <1>11, AbsShape DEF AbsIs, Deleting
  <2> QED
    BY <1>1, <1>2, <1>3, <1>4, <1>5, <1>6, <1>11, <2>1 DEF Editor!vars
<1>12. CASE op = "send"
  <2>1. absLine = <<>> /\ absCursor = 0
    BY <1>12, AbsShape DEF AbsIs
  <2>2. absLine' = <<>> /\ absCursor' = 0
    BY <1>2, <1>5, <1>8, <1>12
  <2>3. Editor!Sent
    BY <1>1, <1>6, <1>12, <2>1, <2>2 DEF Editor!Sent
  <2> QED
    BY <1>1, <1>3, <1>4, <2>3 DEF Editor!Next
<1> QED
  BY <1>2, <1>9, <1>10, <1>11, <1>12

LEMMA EditorSend ==
  ASSUME EditorInv, Around', ~spoken' => ~spoken, Send
  PROVE  EditorInv' /\ [Editor!Next]_(Editor!vars)
<1> USE DEF EditorInv, Around, CursorInv
<1>1. /\ UNCHANGED <<input_len, cursor_pos, op, typed, tmp, sendBuf>>
      /\ pc["main"] \in {"write", "wipe"} /\ op = "send" /\ pc'["net"] = pc["net"]
      /\ pc'["main"] \in {"write", "wipe", "killed", "len"}
  BY DEF Send, WriteSome, WriteEnds, WriteKills, Wipe, Step, Jump, At, Goto, mine, line, locals,
     Editing, LockInv, Threads
<1>2. input_buf' \in [Index -> Bytes]
  BY DEF Send, WriteSome, WriteEnds, WriteKills, Wipe, Step, mine, line, Bytes
<1>3. Numbers' /\ OneTooFar'
  BY <1>1 DEF OneTooFar, Clamping
<1>4. Underway'
  BY <1>1 DEF Underway, MainLabels, EditLabels
<1>5. UNCHANGED <<absLine, absCursor>>
  BY <1>1, <1>3, AbsShape, AbsShapeNext DEF AbsIs
<1> QED
  BY <1>1, <1>2, <1>3, <1>4, <1>5 DEF Editor!vars

\* The user sees net pull the cursor back from behind the line, a place too far when
\* Backspace has yet to store it, and up to an empty line's start from before it.
LEMMA EditorClamp ==
  ASSUME EditorInv, Around', ~spoken' => ~spoken, Clamp
  PROVE  /\ EditorInv' /\ spoken'
         /\ Editor!Slip \/ Editor!Recover \/ UNCHANGED Editor!vars
<1> USE DEF EditorInv, Around, CursorInv
<1>0. pc = [t \in Threads |-> pc[t]] /\ {"main", "net"} \subseteq Threads
  BY DEF LockInv, Threads
<1>1. spoken' /\ pc'["main"] = pc["main"] /\ pc["main"] # "killed"
  BY <1>0 DEF MarkInv, NetSilent, Clamp, ClampLow, ClampLowStore, ClampHigh, ClampHighStore,
     Step, Jump, At, Running, Goto
<1>2. CASE ClampLow \/ ClampHigh
  <2>1. /\ UNCHANGED <<line, op, typed, tmp, sendBuf>>
        /\ pc'["net"] = "highSet" => cursor_pos > input_len
    BY <1>0, <1>2 DEF ClampLow, ClampHigh, Step, Jump, Goto, mine, locals
  <2> QED
    BY <1>1, <2>1, EditorQuiet
<1>3. CASE ClampLowStore
  <2>1. /\ UNCHANGED <<input_buf, input_len, op, typed, tmp, sendBuf>> /\ cursor_pos' = 0
        /\ pc["net"] = "lowSet" /\ pc'["net"] = "high"
    BY <1>0, <1>3 DEF ClampLowStore, Jump, At, Goto, locals
  <2>2. cursor_pos = -1 /\ pc["main"] \notin MainLabels /\ op = "none" /\ sendBuf = <<>>
    BY <1>1, <2>1 DEF Clamping, Underway, MainLabels
  <2>3. Underway' /\ OneTooFar'
    BY <1>1, <2>1, <2>2 DEF Underway, OneTooFar, MainLabels, EditLabels
  <2>4. /\ absLine' = absLine /\ absCursor = -1 /\ absCursor' = 0
    BY <1>1, <2>1, <2>2, AbsShape, AbsShapeNext
       DEF AbsIs, Inserting, Deleting, MainLabels, EditLabels
  <2>5. Editor!Recover
    BY <2>1, <2>2, <2>4 DEF Editor!Recover, Editor!Ready
  <2> QED
    BY <1>1, <2>1, <2>3, <2>5
<1>4. CASE ClampHighStore
  <2>1. /\ UNCHANGED <<input_buf, input_len, op, typed, tmp, sendBuf>> /\ cursor_pos' = input_len
        /\ pc["net"] = "highSet" /\ pc'["net"] = "print"
    BY <1>0, <1>4 DEF ClampHighStore, Jump, At, Goto, locals
  <2>2. \/ pc["main"] \in {"load", "store"} /\ op = "bs"
        \/ pc["main"] = "store" /\ op = "send"
        \/ pc["main"] = "lock" /\ cursor_pos = input_len
    BY <2>1 DEF Clamping, OneTooFar
  <2>3. Underway' /\ OneTooFar'
    BY <1>1, <2>1, <2>2 DEF Underway, OneTooFar, MainLabels, EditLabels
  <2>4. CASE pc["main"] = "load" /\ op = "bs"
    <3>1. cursor_pos = input_len + 1 /\ sendBuf = <<>>
      BY <2>1, <2>4 DEF OneTooFar
    <3>2. /\ absLine' = absLine /\ absLine = Text(input_buf, input_len)
          /\ absCursor = input_len /\ absCursor' = input_len - 1
      BY <1>1, <2>1, <2>4, <3>1, AbsShape, AbsShapeNext DEF AbsIs, Deleting, Numbers
    <3>3. Len(absLine) = input_len
      BY <3>2, TextProperties DEF Numbers
    <3>4. Editor!Slip
      BY <2>1, <3>1, <3>2, <3>3 DEF Editor!Slip, Editor!Ready
    <3> QED
      BY <1>1, <2>1, <2>3, <3>4
  <2>5. CASE pc["main"] = "store" \/ (pc["main"] = "lock" /\ cursor_pos = input_len)
    <3>1. UNCHANGED <<absLine, absCursor>>
      BY <1>1, <2>1, <2>2, <2>5, AbsShape, AbsShapeNext DEF AbsIs, Inserting, Deleting
    <3> QED
      BY <1>1, <2>1, <2>3, <3>1 DEF Editor!vars
  <2> QED
    BY <2>2, <2>4, <2>5
<1> QED
  BY <1>2, <1>3, <1>4 DEF Clamp

\* The other steps work on nothing of main's.
LEMMA EditorOther ==
  ASSUME EditorInv, Around', ~spoken' => ~spoken, OtherStep, ~Clamp
  PROVE  EditorInv' /\ UNCHANGED Editor!vars
<1>1. UNCHANGED <<line, op, typed, tmp, sendBuf>>
  BY OtherFrame DEF OtherStep, Startup, OpenScreen, Connect, SpawnNet, SpawnBlink, Quit,
     CancelNet, CancelBlink, Cancel, JoinNet, JoinBlink, Blink, NetRead, NetEnd, Net, NetPrintf,
     PrintChat, ServerCloses, Terminated, Draw, DrawRow1, DrawRow2, DrawCursor, Lock, Unlock,
     ActOnCancel, Step, vars, mine, line, locals
<1>2. \/ pc'["main"] = pc["main"]
      \/ pc["main"] \notin MainLabels /\ pc'["main"] \notin MainLabels
  BY DEF EditorInv, Around, CursorInv, LockInv, Threads, OtherStep, Startup, OpenScreen, Connect,
     SpawnNet, SpawnBlink, Quit, CancelNet, CancelBlink, Cancel, JoinNet, JoinBlink, Blink, NetRead, NetEnd,
     Net, NetPrintf, PrintChat, ServerCloses, Terminated, Draw, DrawRow1, DrawRow2, DrawCursor,
     Lock, Unlock, Home, ActOnCancel, CancellationPoints, Step, Jump, At, Goto, vars, MainLabels,
     EditLabels
<1>3. pc'["net"] = "highSet" => pc["net"] = "highSet"
  BY DEF EditorInv, Around, CursorInv, LockInv, Threads, OtherStep, Startup, OpenScreen, Connect,
     SpawnNet, SpawnBlink, Quit, CancelNet, CancelBlink, Cancel, JoinNet, JoinBlink, Blink,
     NetRead, NetEnd, Net, NetPrintf, PrintChat, ServerCloses, Terminated, Draw, DrawRow1,
     DrawRow2, DrawCursor, Lock, Unlock, Home, ActOnCancel, Step, Jump, At, Goto, vars
<1> QED
  BY <1>1, <1>2, <1>3, EditorQuiet

LEMMA EditorStart == Init => EditorInv /\ Editor!Init
<1> SUFFICES ASSUME Init PROVE EditorInv /\ Editor!Init
  OBVIOUS
<1>1. MarkInv /\ KeyTypes /\ CursorInv
  BY MarkInit, CursorInit, TypeInit DEF TypeInv
<1>2. Numbers /\ op = "none" /\ sendBuf = <<>> /\ pc["main"] = "start" /\ InLine
  BY CursorInit DEF CursorInv, Init, Threads, InLine
<1>3. input_buf \in [Index -> Bytes]
  BY DEF Init, Bytes
<1>4. EditorInv
  BY <1>1, <1>2, <1>3 DEF EditorInv, Around, Underway, OneTooFar, MainLabels, EditLabels, Init,
     Threads
<1>5. absLine = Text(input_buf, 0) /\ absCursor = 0
  BY <1>2, AbsShape DEF AbsIs, Inserting, Deleting, Init
<1>6. Text(input_buf, 0) \in Seq(Bytes) /\ Len(Text(input_buf, 0)) = 0
  BY <1>3, MaxLenNat, TextProperties
<1> QED
  BY <1>2, <1>4, <1>5, <1>6 DEF Editor!Init

LEMMA EditorNext ==
  ASSUME Minding, EditorInv, [Next]_vars
  PROVE  /\ EditorInv'
         /\ \/ [Editor!Next]_(Editor!vars)
            \/ spoken' /\ (Editor!Slip \/ Editor!Recover)
<1>1. Around' /\ (~spoken' => ~spoken)
  BY CursorMinded, MarkNext, SpokenNext, KeyTypesNext DEF EditorInv, Around
<1>2. CASE MainStep
  BY <1>1, <1>2, EditorKey, EditorMove, EditorPut, EditorLen, EditorStore, EditorSend
     DEF MainStep, Edit
<1>3. CASE OtherStep /\ ~Clamp
  BY <1>1, <1>3, EditorOther
<1>4. CASE Clamp
  BY <1>1, <1>4, EditorClamp
<1> QED
  BY <1>2, <1>3, <1>4, StepSplit

\* Until the server says something the loads and stores of main, with blink drawing between
\* any two of them, are the edits of a line: none is lost, split, applied twice or
\* applied elsewhere, and what is sent is the line (lab2.c:191-227, 461-489).
THEOREM EditorSafe == Spec => ImplementsLineEditor
<1>1. EditorInv /\ ~spoken => Minding
  BY DEF EditorInv, Underway, Minding, MainLabels, EditLabels
<1>2. (~spoken => EditorInv) /\ [Next]_vars
         => (~spoken => EditorInv)' /\ [spoken' \/ Editor!Next]_(Editor!vars)
  BY <1>1, EditorNext, SpokenNext
<1>3. Init => (~spoken => EditorInv)
  BY EditorStart
<1> QED
  BY <1>2, <1>3, EditorStart, PTL DEF Spec, ImplementsLineEditor

\* Chat lines at any moment, clamping the cursor in the middle of an edit, take no
\* character from the line, add none and reorder none, and never change what is sent:
\* all they do to the line's user is to move a cursor at its end by one place, as long
\* as no key is pressed while the cursor is outside it (lab2.c:191-227 against 247-248).
THEOREM SharedEditorSafe == ~KeysAstray => (Spec => EditsUnderChat)
<1> SUFFICES ASSUME ~KeysAstray PROVE Spec => EditsUnderChat
  OBVIOUS
<1>1. EditorInv /\ [Next]_vars
         => EditorInv' /\ [Editor!Next \/ Editor!Slip \/ Editor!Recover]_(Editor!vars)
  BY EditorNext DEF Minding
<1> QED
  BY <1>1, EditorStart, PTL DEF Spec, EditsUnderChat, Editor!SharedSpec
=============================================================================
