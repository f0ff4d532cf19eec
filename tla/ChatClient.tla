----------------------------- MODULE ChatClient -----------------------------
(***************************************************************************)
(* The chat client of lab 2 (src/lab2/lab2.c): three threads that share an *)
(* input line and a screen.                                                *)
(*                                                                         *)
(*   main   reads key reports, edits the input line, sends it, redraws;    *)
(*   net    reads what the server sends and prints it in the chat area;    *)
(*   blink  toggles the cursor every half second and redraws.              *)
(*                                                                         *)
(* Only drawing is done under fb_lock.  The line itself (input_buf,        *)
(* input_len, cursor_pos) is edited by main without the lock and read by   *)
(* the drawing threads under it; net writes cursor_pos under it.  Each     *)
(* load and each store of a shared variable is a step, since the Makefile  *)
(* compiles without optimisation.  The cells of a row are drawn in one     *)
(* step; InputArea and ChatLog model where the characters go.  A copy of   *)
(* sendBuf is kept in last_sent, which nothing reads; it is left out.      *)
(***************************************************************************)
EXTENDS Integers, Sequences

CONSTANTS Letters,    \* key codes of letters (caps lock applies)
          Symbols,    \* key codes of digits and punctuation
          FirstCap,   \* SCREEN_COLS - 2, the room of the first input row
          RestCap,    \* SCREEN_COLS, the room of the second
          Chunks,     \* what read() may return, each a sequence of chat lines
          MaxChat,    \* MAX_CHAT_LINES
          Pressed,    \* a bound: the keys the user presses, of Keys
          KeysAstray  \* a bound: FALSE lets the user press no key, other than
                      \* ESC, while the cursor is outside the line

ASSUME CapsAssumption == FirstCap \in Nat \ {0} /\ RestCap \in Nat \ {0}
ASSUME ChatAssumption == MaxChat \in Nat \ {0}
ASSUME ChunksAssumption == \A c \in Chunks : c \in Seq({c[i] : i \in DOMAIN c})
ASSUME AstrayAssumption == KeysAstray \in BOOLEAN

MaxLen == FirstCap + RestCap

\* A character is a key code with a case; the control bytes and the two marks
\* the program draws have codes of their own.
Nul        == <<"nul", FALSE>>
Newline    == <<"newline", FALSE>>
Foreign    == <<"foreign", FALSE>>   \* a byte of whatever lies before input_buf
Blank      == <<"blank", FALSE>>
Underscore == <<"underscore", FALSE>>

Printable == (Letters \cup Symbols) \X BOOLEAN
Bytes     == Printable \cup {Nul, Foreign}

Control == {"none", "esc", "left", "right", "caps", "enter", "bksp", "other"}
Keys    == Control \cup Letters \cup Symbols

ASSUME PressedAssumption == Pressed \subseteq Keys
ASSUME KeysAssumption ==
    /\ (Letters \cup Symbols) \cap Control = {}
    /\ Letters \cap Symbols = {}
    /\ (Letters \cup Symbols)
          \cap {"nul", "newline", "foreign", "blank", "underscore"} = {}

Threads == {"main", "net", "blink"}

\* input_buf has the indices 0 .. MaxLen; a cursor that has left the line reaches
\* the byte before it.
Index == -1 .. MaxLen

VARIABLES
    last_kc, caps_lock_on,             \* the keyboard filter and its mode
    input_buf, input_len, cursor_pos,  \* the input line
    sendBuf,                           \* the line being sent, with its newline
    op, typed, tmp, sent,              \* main's locals
    fb_lock,                           \* the thread that holds the mutex
    cursor_visible, screen, first_len, \* the input area and the drawing local
    chunk, chat_lines,                 \* what net has read and the chat area
    spoken,                            \* history: whether net has read anything
    conn,                              \* the TCP connection
    cancelled,                         \* threads with a pending cancellation
    pc

keyboard == <<last_kc, caps_lock_on>>
line     == <<input_buf, input_len, cursor_pos>>
locals   == <<op, typed, tmp, sent>>
mine     == <<keyboard, line, sendBuf, locals>>   \* what main works on
area     == <<cursor_visible, screen, first_len>>
chat     == <<chunk, chat_lines, spoken>>
env      == <<conn, cancelled>>
world    == <<fb_lock, area, chat, env>>          \* the rest but the labels
vars     == <<mine, world, pc>>

Running == pc["main"] \notin {"exited", "killed"}

\* Thread t is at a label; goes to a label; goes from one to another, having
\* done something; goes and does nothing else.
At(t, from)       == Running /\ pc[t] = from
Goto(t, to)       == pc' = [pc EXCEPT ![t] = to]
Jump(t, from, to) == At(t, from) /\ Goto(t, to)
Step(t, from, to) == Jump(t, from, to) /\ UNCHANGED <<mine, world>>

-----------------------------------------------------------------------------
(* Helpers on the line. *)

\* The first k bytes at offset i that fbputs draws: it stops at a NUL.
Shown(i, k) ==
    LET stop == {j \in 0 .. k - 1 : \A m \in 0 .. j : input_buf[i + m] # Nul}
    IN  [j \in {m + 1 : m \in stop} |-> input_buf[i + j - 1]]

\* memmove of k bytes from offset s to offset d of input_buf.
Moved(d, s, k) ==
    [i \in Index |-> IF i \in d .. d + k - 1 THEN input_buf[s + i - d]
                                             ELSE input_buf[i]]

\* hid_to_ascii for the keys that print: caps lock and shift cancel out on a
\* letter, shift alone picks the upper sign of another key.
Ascii(k, shift) == <<k, IF k \in Letters THEN shift # caps_lock_on ELSE shift>>

NoCell == -2

InLine == cursor_pos \in 0 .. input_len

Smaller(a, b) == IF a < b THEN a ELSE b

-----------------------------------------------------------------------------
(* Start-up: main is alone, so the first drawing is one step. *)

Init ==
    /\ last_kc = "none" /\ caps_lock_on = FALSE
    /\ \E b \in {Nul, Foreign} :
          input_buf = [i \in Index |-> IF i \in 0 .. MaxLen THEN Nul ELSE b]
    /\ input_len = 0 /\ cursor_pos = 0 /\ sendBuf = <<>>
    /\ op = "none" /\ typed = Nul /\ tmp = 0 /\ sent = 0
    /\ fb_lock = "free"
    /\ cursor_visible = TRUE /\ first_len = 0
    /\ screen = [row1 |-> <<>>, row2 |-> <<>>, at |-> NoCell, mark |-> Blank]
    /\ chunk = <<>> /\ chat_lines = <<>> /\ spoken = FALSE
    /\ conn = "none" /\ cancelled = {}
    /\ pc = [t \in Threads |-> IF t = "main" THEN "start" ELSE "unborn"]

\* fbopen and the first refresh_input_area; a failure of fbopen exits.
OpenScreen ==
    /\ At("main", "start")
    /\ \/ /\ screen' = [screen EXCEPT !.at = 0, !.mark = Underscore]
          /\ Goto("main", "connect")
       \/ Goto("main", "exited") /\ UNCHANGED screen
    /\ UNCHANGED <<mine, fb_lock, cursor_visible, first_len, chat, env>>

\* openkeyboard, socket, inet_pton and connect; a failure of any exits.
Connect ==
    /\ At("main", "connect")
    /\ \/ conn' = "up" /\ Goto("main", "spawnNet")
       \/ Goto("main", "exited") /\ UNCHANGED conn
    /\ UNCHANGED <<mine, fb_lock, area, chat, cancelled>>

SpawnNet ==
    /\ At("main", "spawnNet")
    /\ pc' = [pc EXCEPT !["main"] = "spawnBlink", !["net"] = "read"]
    /\ UNCHANGED <<mine, world>>

SpawnBlink ==
    /\ At("main", "spawnBlink")
    /\ pc' = [pc EXCEPT !["main"] = "key", !["blink"] = "sleep"]
    /\ UNCHANGED <<mine, world>>

-----------------------------------------------------------------------------
(* The key loop.  should_accept_key comes after the test for ESC and before *)
(* everything else; it lets a key through only when the code changes.       *)

Accept(k) == k # "none" /\ k # last_kc

TakeKey(k) ==
    /\ At("main", "key") /\ Accept(k)
    /\ InLine \/ KeysAstray
    /\ last_kc' = k

KeyEsc == Step("main", "key", "cancelNet")

\* A release forgets the key; a report of a key still held changes nothing.
KeyRelease ==
    /\ At("main", "key")
    /\ last_kc' = "none"
    /\ UNCHANGED <<caps_lock_on, line, sendBuf, locals, world, pc>>

\* The guards of a printable key and of Backspace, each with a variant that is
\* off by one.
FullLate == input_len > MaxLen
Full     == input_len >= MaxLen

AtStartLate == cursor_pos < 0
AtStart     == cursor_pos <= 0

\* Accepted keys that neither edit nor draw: no mapping, Enter on an empty line,
\* Backspace at the start of the line, a character on a full line.
NoEffect(k) ==
    \/ k = "other"
    \/ k = "enter" /\ input_len <= 0
    \/ k = "bksp" /\ AtStart
    \/ k \in Letters \cup Symbols /\ Full

KeyNoEffect(k) ==
    /\ TakeKey(k) /\ NoEffect(k)
    /\ UNCHANGED <<caps_lock_on, line, sendBuf, locals, world, pc>>

\* main calls refresh_input_area; the variant forgets to.
RedrawNot == Goto("main", "key")
Redraw    == Goto("main", "lock")

\* An arrow moves the cursor when its guard holds, and always redraws.
KeyArrow(k, moves) ==
    /\ TakeKey(k)
    /\ IF moves THEN op' = k /\ Goto("main", "load")
                ELSE Redraw /\ UNCHANGED op
    /\ UNCHANGED <<caps_lock_on, line, sendBuf, typed, tmp, sent, world>>

KeyLeft == KeyArrow("left", cursor_pos > 0)

\* The variant lets the cursor leave the line.
KeyRightFar == KeyArrow("right", cursor_pos <= input_len)
KeyRight    == KeyArrow("right", cursor_pos < input_len)

KeyCaps ==
    /\ TakeKey("caps")
    /\ caps_lock_on' = ~caps_lock_on
    /\ Redraw
    /\ UNCHANGED <<line, sendBuf, locals, world>>

KeyBackspace ==
    /\ TakeKey("bksp") /\ ~NoEffect("bksp")
    /\ op' = "bs"
    /\ Goto("main", "move")
    /\ UNCHANGED <<caps_lock_on, line, sendBuf, typed, tmp, sent, world>>

KeyChar(k, shift) ==
    /\ TakeKey(k) /\ ~NoEffect(k)
    /\ op' = "ins" /\ typed' = Ascii(k, shift)
    /\ Goto("main", "move")
    /\ UNCHANGED <<caps_lock_on, line, sendBuf, tmp, sent, world>>

\* send_input_line up to the write loop: the line and a newline are copied.
KeyEnter ==
    /\ TakeKey("enter") /\ ~NoEffect("enter")
    /\ op' = "send"
    /\ sendBuf' = Append([i \in 1 .. input_len |-> input_buf[i - 1]], Newline)
    /\ Goto("main", "write")
    /\ UNCHANGED <<caps_lock_on, line, typed, tmp, sent, world>>

-----------------------------------------------------------------------------
(* Editing, one load or store at a time and without the lock. *)

\* The terminating NUL moves too.  The three arguments of memmove load
\* cursor_pos one after the other; net only changes a cursor that is outside
\* the line, so the loads are one step.
MoveSize == input_len - cursor_pos + 1

Move ==
    /\ Jump("main", "move", IF op = "ins" THEN "put" ELSE "len")
    /\ input_buf' = Moved(IF op = "ins" THEN cursor_pos + 1 ELSE cursor_pos - 1,
                          cursor_pos, MoveSize)
    /\ UNCHANGED <<keyboard, input_len, cursor_pos, sendBuf, locals, world>>

Put ==
    /\ Jump("main", "put", "len")
    /\ input_buf' = [input_buf EXCEPT ![cursor_pos] = typed]
    /\ typed' = Nul
    /\ UNCHANGED <<keyboard, input_len, cursor_pos, sendBuf, op, tmp, sent, world>>

NewLen == CASE op = "ins" -> input_len + 1
            [] op = "bs"  -> input_len - 1
            [] OTHER      -> 0

StoreLen ==
    /\ Jump("main", "len", IF op = "send" THEN "store" ELSE "load")
    /\ input_len' = NewLen
    /\ UNCHANGED <<keyboard, input_buf, cursor_pos, sendBuf, locals, world>>

LoadCursor ==
    /\ Jump("main", "load", "store")
    /\ tmp' = cursor_pos
    /\ UNCHANGED <<keyboard, line, sendBuf, op, typed, sent, world>>

\* The variant forgets cursor_pos-- after a deletion.
ShiftNot == [ins |-> 1, right |-> 1, bs |-> 0, left |-> -1]
Shift    == [ins |-> 1, right |-> 1, bs |-> -1, left |-> -1]

StoreCursor ==
    /\ At("main", "store") /\ Redraw
    /\ cursor_pos' = IF op = "send" THEN 0 ELSE tmp + Shift[op]
    /\ op' = "none" /\ tmp' = 0 /\ sendBuf' = <<>>
    /\ UNCHANGED <<keyboard, input_buf, input_len, typed, sent, world>>

-----------------------------------------------------------------------------
(* Sending. *)

\* sent += w, and a variant that assigns.
AdvancedNot(w) == w
Advanced(w)    == sent + w

\* write() takes some of the bytes that are left.
WriteSome ==
    /\ At("main", "write") /\ sent < Len(sendBuf)
    /\ \E w \in 1 .. Len(sendBuf) - sent : sent' = Advanced(w)
    /\ UNCHANGED <<keyboard, line, sendBuf, op, typed, tmp, world, pc>>

\* The loop ends when all is written, or when the server has gone and write()
\* fails; the line is cleared either way.
WriteEnds ==
    /\ Jump("main", "write", "wipe")
    /\ sent = Len(sendBuf) \/ conn = "down"
    /\ sent' = 0
    /\ UNCHANGED <<keyboard, line, sendBuf, op, typed, tmp, world>>

\* SIGPIPE is not handled: a write to a connection the server has reset ends
\* the process.
WriteKills == sent < Len(sendBuf) /\ conn = "down" /\ Step("main", "write", "killed")

\* memset of the whole input_buf.
Wipe ==
    /\ Jump("main", "wipe", "len")
    /\ input_buf' = [i \in Index |-> IF i \in 0 .. MaxLen THEN Nul
                                                          ELSE input_buf[i]]
    /\ UNCHANGED <<keyboard, input_len, cursor_pos, sendBuf, locals, world>>

-----------------------------------------------------------------------------
(* refresh_input_area, called by main and by blink. *)

Drawers == {"main", "blink"}

\* pthread_mutex_lock waits for this; the variant does not.
UnlockedNot == TRUE
Unlocked    == fb_lock = "free"

Lock(t) ==
    /\ Jump(t, "lock", IF t \in Drawers THEN "row1" ELSE "low")
    /\ Unlocked
    /\ fb_lock' = t
    /\ UNCHANGED <<mine, area, chat, env>>

\* Both rows are cleared, then the first is drawn.
DrawRow1(t) ==
    /\ Jump(t, "row1", "row2")
    /\ first_len' = Smaller(input_len, FirstCap)
    /\ screen' = [row1 |-> Shown(0, first_len'), row2 |-> <<>>,
                  at |-> NoCell, mark |-> Blank]
    /\ UNCHANGED <<mine, fb_lock, cursor_visible, chat, env>>

DrawRow2(t) ==
    /\ Jump(t, "row2", "cursor")
    /\ screen' = [screen EXCEPT
            !.row2 = Shown(first_len, Smaller(input_len - first_len, RestCap))]
    /\ first_len' = 0
    /\ UNCHANGED <<mine, fb_lock, cursor_visible, chat, env>>

\* The character under the cursor, which a hidden cursor uncovers.
Under == IF cursor_pos \in 0 .. input_len - 1 THEN input_buf[cursor_pos]
                                              ELSE Blank

DrawCursor(t) ==
    /\ Jump(t, "cursor", "unlock")
    /\ screen' = [screen EXCEPT
            !.at = cursor_pos,
            !.mark = IF cursor_visible THEN Underscore ELSE Under]
    /\ UNCHANGED <<mine, fb_lock, cursor_visible, first_len, chat, env>>

\* What each thread goes back to once it has released the lock.
Home(t) == CASE t = "main" -> "key" [] t = "blink" -> "sleep" [] t = "net" -> "read"

Unlock(t) ==
    /\ Jump(t, "unlock", Home(t))
    /\ fb_lock' = "free"
    /\ UNCHANGED <<mine, area, chat, env>>

-----------------------------------------------------------------------------
(* The cursor thread. *)

\* The variant hides the cursor for good.
ToggledNot == FALSE
Toggled    == ~cursor_visible

Blink ==
    /\ Jump("blink", "sleep", "lock") /\ "blink" \notin cancelled
    /\ cursor_visible' = Toggled
    /\ UNCHANGED <<mine, fb_lock, screen, first_len, chat, env>>

-----------------------------------------------------------------------------
(* The network thread. *)

NetRead ==
    /\ Jump("net", "read", "printf") /\ "net" \notin cancelled
    /\ \E c \in Chunks : chunk' = c
    /\ spoken' = TRUE
    /\ UNCHANGED <<mine, fb_lock, area, chat_lines, env>>

\* read() returns 0 or an error once the server has closed the connection.
NetEnd == conn = "down" /\ Step("net", "read", "done")

NetPrintf == Step("net", "printf", "lock")

\* if (cursor_pos < 0) cursor_pos = 0;
ClampLow == Step("net", "low", IF cursor_pos < 0 THEN "lowSet" ELSE "high")

ClampLowStore ==
    /\ Jump("net", "lowSet", "high")
    /\ cursor_pos' = 0
    /\ UNCHANGED <<keyboard, input_buf, input_len, sendBuf, locals, world>>

\* if (cursor_pos > input_len) cursor_pos = input_len;  The operands of the test
\* are loaded in one step, and so is input_len with the store: main, which has
\* one edit under way before it waits for the lock, decrements input_len before
\* cursor_pos, and the outcome is the same.  The variant tests with >=.
ClampHighNot == Step("net", "high", IF cursor_pos >= input_len THEN "highSet"
                                                               ELSE "print")

ClampHigh == Step("net", "high", IF cursor_pos > input_len THEN "highSet"
                                                           ELSE "print")

ClampHighStore ==
    /\ Jump("net", "highSet", "print")
    /\ cursor_pos' = input_len
    /\ UNCHANGED <<keyboard, input_buf, input_len, sendBuf, locals, world>>

\* A variant that keeps the first lines.
ScrolledNot(ls) == SubSeq(ls, 1, Smaller(Len(ls), MaxChat))

\* The chat area keeps the last MaxChat lines; ChatLog has the wrapping.
Scrolled(ls) ==
    IF Len(ls) <= MaxChat THEN ls
    ELSE SubSeq(ls, Len(ls) - MaxChat + 1, Len(ls))

PrintChat ==
    /\ Jump("net", "print", "unlock")
    /\ chat_lines' = Scrolled(chat_lines \o chunk)
    /\ chunk' = <<>>
    /\ UNCHANGED <<mine, fb_lock, area, spoken, env>>

-----------------------------------------------------------------------------
(* Termination.  Cancellation is deferred: it acts in a cancellation point. *)

CancellationPoints == {"read", "printf", "sleep"}

Cancel(t, from, to) ==
    /\ Jump("main", from, to)
    /\ cancelled' = cancelled \cup {t}
    /\ UNCHANGED <<mine, fb_lock, area, chat, conn>>

\* The variant cancels one thread and joins the other.
CancelNetNot == Cancel("blink", "cancelNet", "joinNet")
CancelNet    == Cancel("net", "cancelNet", "joinNet")
CancelBlink  == Cancel("blink", "cancelBlink", "joinBlink")

ActOnCancel(t) ==
    /\ Running /\ t \in cancelled /\ pc[t] \in CancellationPoints
    /\ Goto(t, "done")
    /\ chunk' = IF t = "net" THEN <<>> ELSE chunk
    /\ UNCHANGED <<mine, fb_lock, area, chat_lines, spoken, env>>

JoinNet   == pc["net"] = "done" /\ Step("main", "joinNet", "cancelBlink")
JoinBlink == pc["blink"] = "done" /\ Step("main", "joinBlink", "exited")

\* The server may close the connection at any time.
ServerCloses ==
    /\ Running /\ conn = "up"
    /\ conn' = "down"
    /\ UNCHANGED <<mine, fb_lock, area, chat, cancelled, pc>>

Terminated == ~Running /\ UNCHANGED vars

-----------------------------------------------------------------------------

Startup == OpenScreen \/ Connect \/ SpawnNet \/ SpawnBlink

KeyReport(k) ==
    \/ k = "esc" /\ KeyEsc
    \/ k = "none"  /\ KeyRelease
    \/ KeyNoEffect(k)
    \/ k = "left"  /\ KeyLeft
    \/ k = "right" /\ KeyRight
    \/ k = "caps"  /\ KeyCaps
    \/ k = "bksp"  /\ KeyBackspace
    \/ k = "enter" /\ KeyEnter
    \/ k \in Letters \cup Symbols /\ \E shift \in BOOLEAN : KeyChar(k, shift)

Edit == Move \/ Put \/ StoreLen \/ LoadCursor \/ StoreCursor

Send == WriteSome \/ WriteEnds \/ WriteKills \/ Wipe

Quit == CancelNet \/ JoinNet \/ CancelBlink \/ JoinBlink

Draw(t) == DrawRow1(t) \/ DrawRow2(t) \/ DrawCursor(t)

Clamp == ClampLow \/ ClampLowStore \/ ClampHigh \/ ClampHighStore

Net == NetPrintf \/ Clamp \/ PrintChat

Next ==
    \/ Startup \/ Edit \/ Send \/ Quit
    \/ \E k \in Pressed : KeyReport(k)
    \/ \E t \in Drawers : Draw(t)
    \/ \E t \in Threads : Lock(t) \/ Unlock(t)
    \/ Blink
    \/ NetRead \/ NetEnd \/ Net
    \/ \E t \in {"net", "blink"} : ActOnCancel(t)
    \/ ServerCloses
    \/ Terminated

Spec == Init /\ [][Next]_vars

\* Each thread is scheduled, and takes the lock if it is free again and again:
\* the holder draws and releases it without waiting for anything, and the cursor
\* thread then sleeps for half a second.  The server goes on taking bytes while
\* the connection is up.  Nobody has to press a key, and the server need not say
\* anything or close.
Fairness ==
    /\ WF_vars(Startup) /\ WF_vars(Edit) /\ WF_vars(Send) /\ WF_vars(Quit)
    /\ \A t \in Drawers : WF_vars(Draw(t))
    /\ \A t \in Threads : SF_vars(Lock(t)) /\ WF_vars(Unlock(t))
    /\ WF_vars(Blink) /\ WF_vars(Net) /\ WF_vars(NetEnd)
    /\ \A t \in {"net", "blink"} : WF_vars(ActOnCancel(t))

FairSpec == Spec /\ Fairness

-----------------------------------------------------------------------------
(* What must hold. *)

Labels ==
    [main  |-> {"start", "connect", "spawnNet", "spawnBlink", "key", "move",
                "put", "len", "load", "store", "write", "wipe", "lock", "row1",
                "row2", "cursor", "unlock", "cancelNet", "joinNet",
                "cancelBlink", "joinBlink", "exited", "killed"},
     net   |-> {"unborn", "read", "printf", "lock", "low", "lowSet", "high",
                "highSet", "print", "unlock", "done"},
     blink |-> {"unborn", "sleep", "lock", "row1", "row2", "cursor", "unlock",
                "done"}]

\* The type invariant.  An index before input_buf is possible, see CursorNear.
TypeOK ==
    /\ last_kc \in Keys /\ caps_lock_on \in BOOLEAN
    /\ input_buf \in [Index -> Bytes]
    /\ input_len \in 0 .. MaxLen
    /\ cursor_pos \in -1 .. MaxLen
    /\ sendBuf \in Seq(Bytes \cup {Newline})
    /\ op \in {"none", "ins", "bs", "left", "right", "send"}
    /\ typed \in Bytes
    /\ tmp \in -1 .. MaxLen
    /\ sent \in 0 .. Len(sendBuf)
    /\ fb_lock \in Threads \cup {"free"}
    /\ cursor_visible \in BOOLEAN
    /\ first_len \in 0 .. FirstCap
    /\ screen.at \in NoCell .. MaxLen
    /\ chunk \in Chunks \cup {<<>>}
    /\ Len(chat_lines) <= MaxChat /\ spoken \in BOOLEAN
    /\ conn \in {"none", "up", "down"}
    /\ cancelled \subseteq {"net", "blink"}
    /\ \A t \in Threads : pc[t] \in Labels[t]

Critical == {"row1", "row2", "cursor", "low", "lowSet", "high", "highSet",
             "print", "unlock"}

\* fb_lock (lab2.c:37) is held by exactly the thread that is between the calls
\* to lock and unlock: two threads never draw at once, and a thread that has
\* been cancelled never takes the mutex with it, so the others go on drawing.
LockHeld == \A t \in Threads : fb_lock = t <=> pc[t] \in Critical

\* While an insertion or a deletion is on its way the cursor is in the line, and
\* behind the character a deletion removes: the clamp in chat_print_line, which
\* main does not wait for, never moves the cursor between the test in the key
\* loop and the memmove and the store that rely on it (lab2.c:192-208).  So the
\* size of the memmove is positive and every byte written is one of input_buf.
EditInLine ==
    pc["main"] \in {"move", "put"} =>
        cursor_pos \in (IF op = "bs" THEN 1 ELSE 0) .. input_len

\* The clamp may act on a cursor main is about to decrement anyway, in the window
\* between input_len-- and cursor_pos-- (lab2.c:197, 198); that costs one place,
\* never more, and never leaves the cursor behind the end of the line.
CursorNear ==
    /\ cursor_pos >= -1
    /\ cursor_pos > input_len =>
          \/ op = "bs" /\ pc["main"] \in {"load", "store"}
          \/ op = "send" /\ pc["main"] = "store"

\* A chat line never moves the cursor of a user who is not typing: while main
\* waits for a key, a cursor in the line stays where it is (lab2.c:247, 248).
CursorKept ==
    [][(pc["main"] = "key" /\ pc'["main"] = "key" /\ InLine)
          => cursor_pos' = cursor_pos]_vars

\* When main waits for a key and nobody draws, the two input rows show the line:
\* each edit is followed by a redraw (lab2.c:168, 173, 180, 200, 214, 489), and a
\* redraw by blink that began with the old line cannot come after it.
InputShown ==
    (pc["main"] = "key" /\ fb_lock = "free") =>
        LET first == Smaller(input_len, FirstCap) IN
        /\ screen.row1 = Shown(0, first)
        /\ screen.row2 = Shown(first, Smaller(input_len - first, RestCap))

\* As long as the server is silent the cursor is drawn where it is, and, unless
\* blink has just toggled it, as it is (lab2.c:351-380).
CursorShown ==
    (~spoken /\ pc["main"] = "key" /\ fb_lock = "free") =>
        /\ screen.at = cursor_pos
        /\ pc["blink"] # "lock" =>
               screen.mark = IF cursor_visible THEN Underscore ELSE Under

\* ESC ends the program: each thread that is cancelled reaches a cancellation
\* point, with the lock free, and can be joined (lab2.c:219-226).
QuitEnds == pc["main"] = "cancelNet" ~> pc["main"] = "exited"

\* Whatever a key started, main gets back to the keyboard or the program ends:
\* it is never kept from the lock by the other two threads (lab2.c:149-217).
KeyAnswered ==
    pc["main"] \in {"move", "load", "write", "lock"} ~>
        pc["main"] = "key" \/ ~Running

\* What has been read from the server ends up at the bottom of the chat area,
\* even if the thread that read it is cancelled by then (lab2.c:497-501).
ChunkPrinted ==
    \A c \in Chunks :
        (pc["net"] = "lock" /\ chunk = c) ~>
            \/ ~Running
            \/ /\ Len(chat_lines) >= Len(c)
               /\ c = SubSeq(chat_lines, Len(chat_lines) - Len(c) + 1,
                             Len(chat_lines))

\* Until it is told to end, blink draws the cursor and hides it again, for ever,
\* also while main waits for the server to take a line (lab2.c:385-394).
CursorBlinks ==
    LET stopping == ~Running \/ "blink" \in cancelled IN
    /\ []<>(stopping \/ screen.mark = Underscore)
    /\ []<>(stopping \/ (screen.at # NoCell /\ screen.mark # Underscore))

-----------------------------------------------------------------------------
(* What a comment in the code says and the code does not do. *)

\* "insert at cursor position" (lab2.c:205): the character is put where the
\* cursor is, in the line.
InsertAtCursor == pc["main"] = "put" => InLine
=============================================================================
