------------------------ MODULE ChatClientRefinement ------------------------
(***************************************************************************)
(* ChatClient implements LineEditor: the loads and stores of main, between *)
(* which blink draws, net clamps the cursor and the threads compete for the*)
(* lock, look like single edits of a line.                                 *)
(***************************************************************************)
EXTENDS ChatClient, SequencesExt

\* The first k bytes of the line.
Bytes1To(k) == [i \in 1 .. k |-> input_buf[i - 1]]

\* An insertion takes place when main stores the cursor: until then the new
\* character, which Move has made room for, is left out.
Inserting == op = "ins" /\ pc["main"] \in {"put", "len", "load", "store"}

\* A deletion takes place in Move, which overwrites the character.
Deleting == op = "bs" /\ pc["main"] \in {"len", "load", "store"}

\* Enter takes place when send_input_line copies the line.
Sending == op = "send"

\* How many bytes of input_buf the line has now.
Length ==
    IF pc["main"] \in {"put", "len"}
    THEN input_len + (IF Inserting THEN 1 ELSE IF Deleting THEN -1 ELSE 0)
    ELSE input_len

absLine ==
    IF Sending THEN <<>>
    ELSE IF Inserting THEN RemoveAt(Bytes1To(Length), cursor_pos + 1)
    ELSE Bytes1To(Length)

\* The place main is about to store after a deletion, from the cursor it has
\* loaded once it has loaded one.
absCursor ==
    IF Sending THEN 0
    ELSE IF ~Deleting THEN cursor_pos
    ELSE IF pc["main"] = "store" THEN tmp - 1 ELSE cursor_pos - 1

Editor == INSTANCE LineEditor WITH
              Chars <- Printable, MaxLen <- MaxLen, Newline <- Newline,
              line <- absLine, cursor <- absCursor, outgoing <- sendBuf

\* Until the server says something the three threads together edit a line as LineEditor
\* says: no edit is lost, applied twice or applied elsewhere, and what is sent is the
\* line (lab2.c:192-227, 461-489).
ImplementsLineEditor == Editor!Init /\ [][spoken' \/ Editor!Next]_(Editor!vars)

\* A chat line may move the cursor at the end of the line by a place, and an edit
\* of the user's may be under way then; it takes no character from the line, adds
\* none, and changes nothing of what is sent (lab2.c:192-211 against 247-248).
EditsUnderChat == Editor!SharedSpec
=============================================================================
