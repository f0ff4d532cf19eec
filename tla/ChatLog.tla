------------------------------- MODULE ChatLog -------------------------------
(***************************************************************************)
(* The chat area of the chat client: network_thread_f and chat_print_line  *)
(* of src/lab2/lab2.c, from the bytes of the socket to the rows of the     *)
(* screen.  A chunk is what one read() returns; the bytes are taken one at *)
(* a time, as the loop of chat_print_line does, wrapped at SCREEN_COLS and *)
(* pushed into a window of MAX_CHAT_LINES rows.  fb_lock is held meanwhile *)
(* (ChatClient), so nothing else happens between two bytes.  chat_cursor,  *)
(* which nothing reads, is left out.                                       *)
(*                                                                         *)
(* log, heard and ends are history: the rows ever pushed, the bytes ever   *)
(* printed, carriage returns left out and with a line end where a chunk    *)
(* broke off within a row, and how many they were when each row was pushed.*)
(***************************************************************************)
EXTENDS Integers, Sequences

CONSTANTS Chars,    \* bytes that are printed
          Cols,     \* SCREEN_COLS
          MaxChat,  \* MAX_CHAT_LINES
          Reads,    \* what read() may return
          MaxHeard  \* a bound: the bytes the server sends

Newline == "newline"
Return  == "return"
Nul     == "nul"

Bytes == Chars \cup {Newline, Return, Nul}

ASSUME CharsAssumption == Chars \cap {Newline, Return, Nul} = {}
ASSUME SizeAssumption == Cols \in Nat \ {0} /\ MaxChat \in Nat \ {0}
ASSUME ReadsAssumption == Reads \subseteq Seq(Bytes) \ {<<>>}

VARIABLES
    phase,       \* "read", "print" in chat_print_line, "done"
    chunk,       \* the bytes still to be printed
    cur,         \* the row being built
    chat_lines,  \* the window
    shown,       \* the rows of the chat area on the screen
    log, heard, ends

vars == <<phase, chunk, cur, chat_lines, shown, log, heard, ends>>

-----------------------------------------------------------------------------
(* Flushing a row into the window. *)

\* The variant drops the newest row but one.
PushedNot(row) ==
    IF Len(chat_lines) < MaxChat THEN Append(chat_lines, row)
    ELSE [chat_lines EXCEPT ![MaxChat] = row]
Pushed(row) ==
    IF Len(chat_lines) < MaxChat THEN Append(chat_lines, row)
    ELSE Append(Tail(chat_lines), row)

Flush(row) ==
    /\ chat_lines' = Pushed(row)
    /\ log' = Append(log, row) /\ ends' = Append(ends, Len(heard'))

\* Whether a row is full.
IsFull(row) == Len(row) >= Cols

-----------------------------------------------------------------------------

Init ==
    /\ phase = "read" /\ chunk = <<>> /\ cur = <<>>
    /\ chat_lines = <<>> /\ log = <<>> /\ heard = <<>> /\ ends = <<>>
    /\ shown = [i \in 1 .. MaxChat |-> <<>>]

\* idx starts at 0 for each chunk, whatever the chunk before ended with.
Read(bytes) ==
    /\ phase = "read" /\ Len(heard) + Len(bytes) <= MaxHeard
    /\ phase' = "print" /\ chunk' = bytes /\ cur' = <<>>
    /\ UNCHANGED <<chat_lines, shown, log, heard, ends>>

\* The loop takes the next byte: not behind a NUL, where the string ends.
Take(byte) ==
    /\ phase = "print" /\ chunk # <<>> /\ Head(chunk) = byte
    /\ chunk' = Tail(chunk)
    /\ heard' = IF byte = Return THEN heard ELSE Append(heard, byte)
    /\ UNCHANGED <<phase, shown>>

TakeReturn ==
    /\ Take(Return)
    /\ UNCHANGED <<cur, chat_lines, log, ends>>

\* The variant starts no new row at a line end that finds the row empty.
TakeNewlineNot ==
    /\ Take(Newline)
    /\ IF cur # <<>> THEN Flush(cur) ELSE UNCHANGED <<chat_lines, log, ends>>
    /\ cur' = <<>>
TakeNewline ==
    /\ Take(Newline)
    /\ Flush(cur)
    /\ cur' = <<>>

TakeChar(c) ==
    /\ Take(c)
    /\ LET row == Append(cur, c) IN
       IF IsFull(row) THEN Flush(row) /\ cur' = <<>>
                      ELSE cur' = row /\ UNCHANGED <<chat_lines, log, ends>>

\* What the window draws on the rows of the chat area: blank below the last.
Redrawn(lines) ==
    [i \in 1 .. MaxChat |-> IF i <= Len(lines) THEN lines[i] ELSE <<>>]

\* The end of the string: the rest of a row, if any, is a row, and all is redrawn.
Rest == IF cur # <<>> THEN Flush(cur) ELSE UNCHANGED <<chat_lines, log, ends>>

StringEnds == chunk = <<>> \/ (chunk # <<>> /\ Head(chunk) = Nul)

Finish ==
    /\ phase = "print" /\ StringEnds
    /\ heard' = IF cur # <<>> THEN Append(heard, Newline) ELSE heard
    /\ Rest
    /\ shown' = Redrawn(chat_lines')
    /\ phase' = "read" /\ chunk' = <<>> /\ cur' = <<>>

\* read() returns 0 or an error, and the thread ends.
End ==
    /\ phase = "read"
    /\ phase' = "done"
    /\ UNCHANGED <<chunk, cur, chat_lines, shown, log, heard, ends>>

Ended == phase = "done" /\ UNCHANGED vars

Next ==
    \/ \E bytes \in Reads : Read(bytes)
    \/ End \/ Ended
    \/ TakeReturn \/ TakeNewline
    \/ \E c \in Chars : TakeChar(c)
    \/ Finish

Spec == Init /\ [][Next]_vars

-----------------------------------------------------------------------------
(* What must hold. *)

Rows == {row \in Seq(Chars) : Len(row) <= Cols}

TypeOK ==
    /\ phase \in {"read", "print", "done"}
    /\ chunk \in Seq(Bytes)
    /\ cur \in Seq(Chars) /\ Len(cur) < Cols
    /\ chat_lines \in Seq(Rows) /\ Len(chat_lines) <= MaxChat
    /\ shown \in [1 .. MaxChat -> Rows]
    /\ log \in Seq(Rows)
    /\ heard \in Seq(Chars \cup {Newline})
    /\ ends \in Seq(Nat)

\* The last n rows of a sequence.
LastOf(rows, n) ==
    LET skip == IF Len(rows) > n THEN Len(rows) - n ELSE 0
    IN  [i \in 1 .. Len(rows) - skip |-> rows[skip + i]]

\* Between two chunks the screen shows the latest rows, in order and from the
\* top, however many rows a chunk has and wherever in it the window fills up
\* (lab2.c:260-268, 305-314).
ShowsLatest ==
    phase = "read" => shown = Redrawn(LastOf(log, MaxChat))

\* How much of what was heard is in the first n rows.
UpToRow(n) == IF n = 0 THEN 0 ELSE ends[n]

\* A row is the text behind the rows before it: Cols characters, or those to the
\* line end, which it takes with it.  A line end right behind a full row makes an
\* empty one.
RowOfText(n) ==
    LET row  == log[n]
        from == UpToRow(n - 1)
    IN  /\ \A j \in 1 .. Len(row) : row[j] \in Chars /\ row[j] = heard[from + j]
        /\ \/ Len(row) = Cols /\ ends[n] = from + Cols
           \/ /\ Len(row) < Cols /\ ends[n] = from + Len(row) + 1
              /\ heard[ends[n]] = Newline

\* The rows are those of the text, and of all of it: nothing that was read is lost,
\* added or put out of order, and where read() cuts the stream shows as a line end
\* if the cut is within a row and not at all if it is between two (lab2.c:252-302).
\* The text leaves no choice of the rows: one ends where it is full or at the first
\* line end, and the next begins there.
RowsOfText ==
    phase = "read" =>
        /\ Len(ends) = Len(log) /\ UpToRow(Len(log)) = Len(heard)
        /\ \A n \in 1 .. Len(log) : RowOfText(n)
=============================================================================
