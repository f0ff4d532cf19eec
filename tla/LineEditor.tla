----------------------------- MODULE LineEditor -----------------------------
(***************************************************************************)
(* What the chat client of lab 2 promises its user: a one-line editor.     *)
(* The line holds at most MaxLen characters, the cursor stands between two *)
(* of them, and Submit hands over the whole line and starts an empty one.  *)
(* There are no threads, no buffer and no screen here: ChatClient has them,*)
(* and ChatClientRefinement shows that it implements this module: it has   *)
(* the steps of Next until the server speaks, and SharedSpec whatever the  *)
(* server does.                                                            *)
(***************************************************************************)
EXTENDS Integers, SequencesExt

CONSTANTS Chars,     \* the characters a key can produce
          MaxLen,    \* INPUT_MAX_LEN
          Newline    \* what ends a submitted line

VARIABLES line,      \* the characters typed so far
          cursor,    \* how many of them stand before the cursor; -1 see Slip
          outgoing   \* the line being sent, with its newline; <<>> when none is

vars == <<line, cursor, outgoing>>

Init == line = <<>> /\ cursor = 0 /\ outgoing = <<>>

\* Keys are taken between two sends.
Ready == outgoing = <<>> /\ UNCHANGED outgoing

\* A printable key inserts its character at the cursor, if there is room.
Insert(c) ==
    /\ Ready
    /\ Len(line) < MaxLen /\ cursor >= 0
    /\ line' = InsertAt(line, cursor + 1, c)
    /\ cursor' = cursor + 1

\* Backspace deletes the character before the cursor.
Backspace ==
    /\ Ready
    /\ cursor > 0
    /\ line' = RemoveAt(line, cursor)
    /\ cursor' = cursor - 1

\* The arrow keys move the cursor inside the line.
Left  == Ready /\ cursor > 0 /\ cursor' = cursor - 1 /\ UNCHANGED line
Right == Ready /\ cursor < Len(line) /\ cursor' = cursor + 1 /\ UNCHANGED line

\* Enter hands over a line that is not empty and starts the next one.
Submit ==
    /\ outgoing = <<>> /\ line # <<>>
    /\ outgoing' = Append(line, Newline)
    /\ line' = <<>>
    /\ cursor' = 0

\* The line has been sent.
Sent == outgoing # <<>> /\ outgoing' = <<>> /\ UNCHANGED <<line, cursor>>

Next ==
    (\E c \in Chars : Insert(c)) \/ Backspace \/ Left \/ Right \/ Submit \/ Sent

\* What others may do to the user's cursor: at the end of a line it may slip back by
\* one place, before an empty line even, and is then brought back.
Slip    == Ready /\ cursor = Len(line) /\ cursor' = cursor - 1 /\ UNCHANGED line
Recover == Ready /\ cursor < 0 /\ cursor' = 0 /\ UNCHANGED line

SharedSpec == Init /\ [][Next \/ Slip \/ Recover]_vars
=============================================================================
