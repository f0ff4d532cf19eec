---------------------------- MODULE ChatLogProofs ----------------------------
(* The chat area shows the latest rows, for every size of screen and chunk. *)
EXTENDS ChatLog, TLAPS

\* The window at every moment, between two bytes too.
Window == chat_lines = LastOf(log, MaxChat)

WindowInv == TypeOK /\ Window /\ ShowsLatest

LEMMA LastOfIsSeq ==
  ASSUME NEW S, NEW rows \in Seq(S), NEW n \in Nat
  PROVE  /\ LastOf(rows, n) \in Seq(S)
         /\ Len(LastOf(rows, n)) = IF Len(rows) > n THEN n ELSE Len(rows)
         /\ \A i \in 1 .. Len(LastOf(rows, n)) :
               LastOf(rows, n)[i] = IF Len(rows) > n THEN rows[Len(rows) - n + i]
                                                     ELSE rows[i]
  BY DEF LastOf

\* One more row pushes out the oldest when there are n.
LEMMA LastOfAppend ==
  ASSUME NEW S, NEW rows \in Seq(S), NEW row \in S, NEW n \in Nat \ {0}
  PROVE  LastOf(Append(rows, row), n) =
            IF Len(LastOf(rows, n)) < n THEN Append(LastOf(rows, n), row)
                                        ELSE Append(Tail(LastOf(rows, n)), row)
<1> DEFINE new  == LastOf(Append(rows, row), n)
           old  == LastOf(rows, n)
           next == IF Len(old) < n THEN Append(old, row) ELSE Append(Tail(old), row)
<1>1. Append(rows, row) \in Seq(S) /\ Len(Append(rows, row)) = Len(rows) + 1
  OBVIOUS
<1>2. /\ new \in Seq(S)
      /\ Len(new) = IF Len(rows) + 1 > n THEN n ELSE Len(rows) + 1
      /\ \A i \in 1 .. Len(new) :
            new[i] = IF Len(rows) + 1 > n THEN Append(rows, row)[Len(rows) + 1 - n + i]
                                          ELSE Append(rows, row)[i]
  <2> DEFINE more == Append(rows, row)
  <2>1. more \in Seq(S) /\ Len(more) = Len(rows) + 1
    BY <1>1
  <2> HIDE DEF more
  <2>2. /\ LastOf(more, n) \in Seq(S)
        /\ Len(LastOf(more, n)) = IF Len(rows) + 1 > n THEN n ELSE Len(rows) + 1
        /\ \A i \in 1 .. Len(LastOf(more, n)) :
              LastOf(more, n)[i] = IF Len(rows) + 1 > n THEN more[Len(rows) + 1 - n + i]
                                                        ELSE more[i]
    <3>1. /\ LastOf(more, n) \in Seq(S)
          /\ Len(LastOf(more, n)) = IF Len(more) > n THEN n ELSE Len(more)
          /\ \A i \in 1 .. Len(LastOf(more, n)) :
                LastOf(more, n)[i] = IF Len(more) > n THEN more[Len(more) - n + i]
                                                      ELSE more[i]
      BY <2>1, LastOfIsSeq
    <3> QED
      BY <2>1, <3>1
  <2> QED
    BY <2>2 DEF more
<1>3. /\ old \in Seq(S)
      /\ Len(old) = IF Len(rows) > n THEN n ELSE Len(rows)
      /\ \A i \in 1 .. Len(old) :
            old[i] = IF Len(rows) > n THEN rows[Len(rows) - n + i] ELSE rows[i]
  BY LastOfIsSeq
<1> HIDE DEF new, old
<1>4. next \in Seq(S) /\ Len(next) = Len(new)
  BY <1>2, <1>3
<1>5. ASSUME NEW i \in 1 .. Len(new) PROVE new[i] = next[i]
  <2>1. CASE Len(old) < n
    BY <1>2, <1>3, <1>5, <2>1
  <2>2. CASE ~(Len(old) < n)
    <3>1. Len(rows) >= n /\ Len(old) = n /\ Len(new) = n /\ i \in 1 .. n
      BY <1>2, <1>3, <1>5, <2>2
    <3>2. new[i] = Append(rows, row)[Len(rows) + 1 - n + i]
      <4>1. Len(rows) + 1 > n /\ i \in 1 .. Len(new)
        BY <1>5, <3>1
      <4> QED
        BY <1>2, <4>1
    <3>3. next = Append(Tail(old), row) /\ Len(Tail(old)) = n - 1 /\ Tail(old) \in Seq(S)
      BY <1>3, <2>2, <3>1
    <3>4. CASE i = n
      BY <3>1, <3>2, <3>3, <3>4
    <3>5. CASE i # n
      <4>1. next[i] = old[i + 1]
        BY <1>3, <3>1, <3>3, <3>5
      <4>2. old[i + 1] = rows[Len(rows) - n + (i + 1)]
        <5>1. CASE Len(rows) > n
          BY <1>3, <3>1, <3>5, <5>1
        <5>2. CASE Len(rows) = n
          BY <1>3, <3>1, <3>5, <5>2
        <5> QED
          BY <3>1, <5>1, <5>2
      <4>3. new[i] = rows[Len(rows) + 1 - n + i]
        BY <3>1, <3>2, <3>5
      <4> QED
        BY <3>1, <4>1, <4>2, <4>3
    <3> QED
      BY <3>4, <3>5
  <2> QED
    BY <2>1, <2>2
<1>6. new = next
  BY <1>2, <1>4, <1>5
<1> QED
  BY <1>6 DEF new, old

LEMMA WindowInit == Init => WindowInv
  BY SizeAssumption DEF Init, WindowInv, TypeOK, Window, ShowsLatest, LastOf, Rows,
     Redrawn

\* A flush keeps the window on the end of the log.
LEMMA FlushStep ==
  ASSUME TypeOK, Window, NEW row \in Rows, Flush(row), Len(heard') \in Nat
  PROVE  /\ chat_lines' \in Seq(Rows) /\ Len(chat_lines') <= MaxChat
         /\ log' \in Seq(Rows) /\ ends' \in Seq(Nat)
         /\ Window'
<1>1. log' = Append(log, row) /\ chat_lines' = Pushed(row) /\ ends' = Append(ends, Len(heard'))
  BY DEF Flush
<1>2. LastOf(log', MaxChat) = Pushed(row)
  BY <1>1, LastOfAppend, SizeAssumption DEF TypeOK, Window, Pushed
<1>3. Pushed(row) \in Seq(Rows) /\ Len(Pushed(row)) <= MaxChat
  BY SizeAssumption DEF TypeOK, Pushed
<1> QED
  BY <1>1, <1>2, <1>3 DEF TypeOK, Window

LEMMA WindowNext == WindowInv /\ [Next]_vars => WindowInv'
<1> SUFFICES ASSUME WindowInv, [Next]_vars PROVE WindowInv'
  OBVIOUS
<1> USE SizeAssumption
<1>1. ASSUME NEW bytes \in Reads, Read(bytes) PROVE WindowInv'
  <2>1. bytes \in Seq(Bytes)
    BY ReadsAssumption
  <2> QED
    BY <1>1, <2>1 DEF Read, WindowInv, TypeOK, Window, ShowsLatest
<1>2. ASSUME NEW byte \in Bytes \ {Nul}, Take(byte)
      PROVE  /\ chunk' \in Seq(Bytes) /\ heard' \in Seq(Chars \cup {Newline}) /\ Len(heard') \in Nat
             /\ phase' = "print" /\ shown' \in [1 .. MaxChat -> Rows]
  BY <1>2 DEF Take, WindowInv, TypeOK, Bytes
<1>3. CASE TakeReturn
  <2>1. Return \in Bytes \ {Nul}
    BY DEF Bytes, Return, Nul
  <2> QED
    BY <1>2, <1>3, <2>1
       DEF TakeReturn, WindowInv, TypeOK, Window, ShowsLatest
<1>4. CASE TakeNewline
  <2>1. Newline \in Bytes \ {Nul}
    BY DEF Bytes, Newline, Nul
  <2>2. cur \in Rows
    BY DEF WindowInv, TypeOK, Rows
  <2> QED
    BY <1>2, <1>4, <2>1, <2>2, FlushStep
       DEF TakeNewline, WindowInv, TypeOK, ShowsLatest
<1>5. ASSUME NEW c \in Chars, TakeChar(c) PROVE WindowInv'
  <2>1. c \in Bytes \ {Nul}
    BY CharsAssumption DEF Bytes
  <2>2. Append(cur, c) \in Rows
    BY DEF WindowInv, TypeOK, Rows
  <2>3. CASE IsFull(Append(cur, c))
    BY <1>2, <1>5, <2>1, <2>2, <2>3, FlushStep
       DEF TakeChar, WindowInv, TypeOK, ShowsLatest
  <2>4. CASE ~IsFull(Append(cur, c))
    <3>1. cur' \in Seq(Chars) /\ Len(cur') < Cols
      <4>1. cur' = Append(cur, c)
        BY <1>5, <2>4 DEF TakeChar
      <4>2. cur \in Seq(Chars) /\ Append(cur, c) \in Seq(Chars)
        BY DEF WindowInv, TypeOK
      <4>3. Len(Append(cur, c)) < Cols
        BY <2>4, <4>2 DEF IsFull
      <4> QED
        BY <4>1, <4>2, <4>3
    <3> QED
      BY <1>2, <1>5, <2>1, <2>4, <3>1
         DEF TakeChar, WindowInv, TypeOK, Window, ShowsLatest
  <2> QED
    BY <2>3, <2>4
<1>6. CASE Finish
  <2>1. cur \in Rows
    BY DEF WindowInv, TypeOK, Rows
  <2>4. /\ heard' \in Seq(Chars \cup {Newline}) /\ Len(heard') \in Nat
        /\ phase' = "read" /\ chunk' = <<>> /\ cur' = <<>>
    BY <1>6 DEF Finish, WindowInv, TypeOK
  <2>2. /\ chat_lines' \in Seq(Rows) /\ Len(chat_lines') <= MaxChat
        /\ log' \in Seq(Rows) /\ ends' \in Seq(Nat)
        /\ Window'
    <3>1. CASE cur = <<>>
      BY <1>6, <3>1 DEF Finish, Rest, WindowInv, TypeOK, Window
    <3>2. CASE cur # <<>>
      BY <1>6, <2>1, <2>4, <3>2, FlushStep DEF Finish, Rest, WindowInv
    <3> QED
      BY <3>1, <3>2
  <2>3. shown' = Redrawn(chat_lines') /\ shown' \in [1 .. MaxChat -> Rows]
    BY <1>6, <2>2 DEF Finish, Redrawn, Rows
  <2> QED
    BY <2>2, <2>3, <2>4 DEF WindowInv, TypeOK, Window, ShowsLatest
<1>7. CASE End \/ Ended \/ UNCHANGED vars
  BY <1>7 DEF End, Ended, vars, WindowInv, TypeOK, Window, ShowsLatest
<1> QED
  BY <1>1, <1>3, <1>4, <1>5, <1>6, <1>7 DEF Next

\* Types, and with them the bounds of every array the code writes: no row is wider
\* than the screen, and the window has no more rows than the chat area.
THEOREM LogTyped == Spec => []TypeOK
<1>1. WindowInv => TypeOK
  BY DEF WindowInv
<1> QED
  BY <1>1, WindowInit, WindowNext, PTL DEF Spec

\* Between two chunks the chat area shows the latest rows in order.
THEOREM LogShown == Spec => []ShowsLatest
<1>1. WindowInv => ShowsLatest
  BY DEF WindowInv
<1> QED
  BY <1>1, WindowInit, WindowNext, PTL DEF Spec

-----------------------------------------------------------------------------
(* The rows are those of the text. *)

\* Between two bytes what is behind the last row is in the row being built.
RowsInv ==
    /\ Len(ends) = Len(log)
    /\ \A n \in 1 .. Len(log) : RowOfText(n) /\ ends[n] \in 0 .. Len(heard)
    /\ UpToRow(Len(log)) + Len(cur) = Len(heard)
    /\ \A j \in 1 .. Len(cur) : cur[j] = heard[UpToRow(Len(log)) + j]
    /\ phase # "print" => cur = <<>>

LEMMA UpToRowType ==
  ASSUME TypeOK, RowsInv, NEW n \in 0 .. Len(log)
  PROVE  UpToRow(n) \in 0 .. Len(heard)
<1>1. Len(heard) \in Nat
  BY DEF TypeOK
<1> QED
  BY <1>1 DEF UpToRow, RowsInv

\* What was heard goes on, and the rows that were pushed stay those of the text.
LEMMA RowsKept ==
  ASSUME TypeOK, TypeOK', RowsInv,
         Len(heard) <= Len(heard'), \A j \in 1 .. Len(heard) : heard'[j] = heard[j],
         \A n \in 1 .. Len(log) : log'[n] = log[n] /\ ends'[n] = ends[n]
  PROVE  /\ \A n \in 1 .. Len(log) : RowOfText(n)' /\ ends'[n] \in 0 .. Len(heard')
         /\ \A n \in 0 .. Len(log) : UpToRow(n)' = UpToRow(n)
<1>1. Len(heard) \in Nat /\ Len(heard') \in Nat /\ Len(log) \in Nat
  BY DEF TypeOK
<1>2. ASSUME NEW n \in 0 .. Len(log) PROVE UpToRow(n)' = UpToRow(n)
  BY <1>1 DEF UpToRow
<1>3. ASSUME NEW n \in 1 .. Len(log)
      PROVE  RowOfText(n)' /\ ends'[n] \in 0 .. Len(heard')
  <2> DEFINE row  == log[n]
             from == UpToRow(n - 1)
  <2>1. from \in Nat /\ UpToRow(n - 1)' = from
    BY <1>1, <1>2, UpToRowType
  <2>2. /\ ends'[n] = ends[n] /\ log'[n] = row
        /\ ends[n] \in 0 .. Len(heard) /\ ends'[n] \in 0 .. Len(heard')
    BY <1>1 DEF RowsInv
  <2>3. Len(row) \in Nat
    BY DEF TypeOK, Rows
  <2>4. /\ \A j \in 1 .. Len(row) : row[j] \in Chars /\ row[j] = heard[from + j]
        /\ \/ Len(row) = Cols /\ ends[n] = from + Cols
           \/ /\ Len(row) < Cols /\ ends[n] = from + Len(row) + 1
              /\ heard[ends[n]] = Newline
    BY DEF RowsInv, RowOfText
  <2> HIDE DEF row, from
  <2>5. \A j \in 1 .. Len(row) : from + j \in 1 .. Len(heard)
    BY <1>1, <2>1, <2>2, <2>3, <2>4, SizeAssumption
  <2>6. \A j \in 1 .. Len(row) : row[j] \in Chars /\ row[j] = heard'[from + j]
    BY <2>4, <2>5
  <2>7. \/ Len(row) = Cols /\ ends'[n] = from + Cols
        \/ /\ Len(row) < Cols /\ ends'[n] = from + Len(row) + 1
           /\ heard'[ends'[n]] = Newline
    <3>1. Len(row) < Cols /\ ends[n] = from + Len(row) + 1 => ends[n] \in 1 .. Len(heard)
      BY <1>1, <2>1, <2>2, <2>3
    <3> QED
      BY <2>2, <2>4, <3>1
  <2>8. RowOfText(n)'
    BY <2>1, <2>2, <2>6, <2>7 DEF RowOfText
  <2> QED
    BY <2>2, <2>8
<1> QED
  BY <1>2, <1>3

\* A flush pushes a row that is the text behind the rows before it.
LEMMA FlushRow ==
  ASSUME TypeOK, TypeOK', RowsInv, NEW row \in Rows, Flush(row),
         Len(heard) <= Len(heard'), \A j \in 1 .. Len(heard) : heard'[j] = heard[j],
         \A j \in 1 .. Len(row) : row[j] = heard'[UpToRow(Len(log)) + j],
         \/ Len(row) = Cols /\ Len(heard') = UpToRow(Len(log)) + Cols
         \/ /\ Len(row) < Cols /\ Len(heard') = UpToRow(Len(log)) + Len(row) + 1
            /\ heard'[Len(heard')] = Newline,
         cur' = <<>>
  PROVE  RowsInv'
<1> DEFINE last == Len(log) + 1
<1>1. /\ Len(heard) \in Nat /\ Len(heard') \in Nat /\ Len(log) \in Nat /\ Len(ends) = Len(log)
      /\ log \in Seq(Rows) /\ ends \in Seq(Nat)
  BY DEF TypeOK, RowsInv
<1>2. log' = Append(log, row) /\ ends' = Append(ends, Len(heard'))
  BY DEF Flush
<1>3. /\ Len(log') = last /\ Len(ends') = last /\ log'[last] = row /\ ends'[last] = Len(heard')
      /\ \A n \in 1 .. Len(log) : log'[n] = log[n] /\ ends'[n] = ends[n]
  BY <1>1, <1>2
<1>4. /\ \A n \in 1 .. Len(log) : RowOfText(n)' /\ ends'[n] \in 0 .. Len(heard')
      /\ \A n \in 0 .. Len(log) : UpToRow(n)' = UpToRow(n)
  BY <1>1, <1>3, RowsKept
<1>5. ASSUME NEW n, n = last PROVE RowOfText(n)'
  <2>1. /\ n - 1 = Len(log) /\ n - 1 \in 0 .. Len(log) /\ log'[n] = row /\ ends'[n] = Len(heard')
    BY <1>1, <1>3, <1>5
  <2>2. UpToRow(n - 1)' = UpToRow(Len(log))
    BY <1>4, <2>1
  <2>3. \A j \in 1 .. Len(row) : row[j] \in Chars
    BY DEF Rows
  <2> QED
    BY <2>1, <2>2, <2>3 DEF RowOfText
<1>6. ASSUME NEW n \in 1 .. Len(log') PROVE RowOfText(n)' /\ ends'[n] \in 0 .. Len(heard')
  <2>1. n \in 1 .. Len(log) \/ n = last
    BY <1>1, <1>3
  <2>2. Len(heard') \in 0 .. Len(heard')
    BY <1>1
  <2> QED
    BY <1>3, <1>4, <1>5, <2>1, <2>2
<1>7. UpToRow(Len(log))' = Len(heard') /\ Len(cur') = 0
  <2>1. Len(log') # 0
    BY <1>1, <1>3
  <2> QED
    BY <1>3, <2>1 DEF UpToRow
<1> QED
  BY <1>1, <1>3, <1>6, <1>7 DEF RowsInv

LEMMA RowsInit == Init => RowsInv
BY DEF Init, RowsInv, UpToRow

LEMMA RowsNext == WindowInv /\ WindowInv' /\ RowsInv /\ [Next]_vars => RowsInv'
<1> SUFFICES ASSUME TypeOK, TypeOK', RowsInv, [Next]_vars PROVE RowsInv'
  BY DEF WindowInv
<1> DEFINE from == UpToRow(Len(log))
<1>h. /\ heard \in Seq(Chars \cup {Newline}) /\ Len(heard) \in Nat
      /\ cur \in Seq(Chars) /\ Len(cur) \in Nat /\ Len(cur) < Cols /\ cur \in Rows
      /\ Cols \in Nat \ {0} /\ Len(log) \in Nat
  BY SizeAssumption DEF TypeOK, Rows
<1>r. /\ from \in Nat /\ from + Len(cur) = Len(heard)
      /\ \A j \in 1 .. Len(cur) : cur[j] = heard[from + j]
      /\ phase # "print" => cur = <<>>
  BY <1>h, UpToRowType DEF RowsInv
<1> HIDE DEF from
<1>u. ASSUME UNCHANGED <<log, heard, ends, cur>>, phase' # "print" => cur' = <<>>
      PROVE  RowsInv'
  BY <1>u DEF RowsInv, RowOfText, UpToRow
<1>1. ASSUME NEW bytes \in Reads, Read(bytes) PROVE RowsInv'
  BY <1>1, <1>r, <1>u DEF Read
<1>2. CASE TakeReturn
  BY <1>2, <1>u DEF TakeReturn, Take
<1>3. CASE TakeNewline
  <2>1. heard' = Append(heard, Newline) /\ Flush(cur) /\ cur' = <<>>
    BY <1>3 DEF TakeNewline, Take, Newline, Return
  <2>2. /\ Len(heard') = Len(heard) + 1 /\ heard'[Len(heard) + 1] = Newline
        /\ \A j \in 1 .. Len(heard) : heard'[j] = heard[j]
    BY <1>h, <2>1
  <2>3. \A j \in 1 .. Len(cur) : cur[j] = heard'[from + j]
    BY <1>h, <1>r, <2>2
  <2>4. Len(heard') = from + Len(cur) + 1 /\ heard'[Len(heard')] = Newline /\ Len(heard) <= Len(heard')
    BY <1>h, <1>r, <2>2
  <2> QED
    BY <1>h, <2>1, <2>2, <2>3, <2>4, FlushRow DEF from
<1>4. ASSUME NEW c \in Chars, TakeChar(c) PROVE RowsInv'
  <2> DEFINE row == Append(cur, c)
  <2>1. heard' = Append(heard, c) /\ phase' = "print"
    <3>1. c # Return
      BY CharsAssumption
    <3> QED
      BY <1>4, <3>1 DEF TakeChar, Take
  <2>2. /\ Len(heard') = Len(heard) + 1 /\ heard'[Len(heard) + 1] = c
        /\ \A j \in 1 .. Len(heard) : heard'[j] = heard[j]
    BY <1>h, <2>1
  <2>3. /\ row \in Rows /\ Len(row) = Len(cur) + 1 /\ row[Len(cur) + 1] = c
        /\ \A j \in 1 .. Len(cur) : row[j] = cur[j]
    BY <1>h DEF Rows
  <2> HIDE DEF row
  <2>4. ASSUME NEW j \in 1 .. Len(row) PROVE row[j] = heard'[from + j]
    <3>1. CASE j = Len(cur) + 1
      <4>1. from + j = Len(heard) + 1
        BY <1>h, <1>r, <3>1
      <4> QED
        BY <2>2, <2>3, <3>1, <4>1
    <3>2. CASE j # Len(cur) + 1
      <4>1. j \in 1 .. Len(cur) /\ from + j \in 1 .. Len(heard)
        BY <1>h, <1>r, <2>3, <3>2
      <4> QED
        BY <1>r, <2>2, <2>3, <4>1
    <3> QED
      BY <3>1, <3>2
  <2>5. Len(heard') = from + Len(row) /\ Len(heard) <= Len(heard')
    BY <1>h, <1>r, <2>2, <2>3
  <2>6. CASE IsFull(row)
    <3>1. Flush(row) /\ cur' = <<>>
      BY <1>4, <2>6 DEF TakeChar, row
    <3>2. Len(row) = Cols
      BY <1>h, <2>3, <2>6 DEF IsFull
    <3> QED
      BY <2>2, <2>3, <2>4, <2>5, <3>1, <3>2, FlushRow DEF from
  <2>7. CASE ~IsFull(row)
    <3>1. cur' = row /\ UNCHANGED <<log, ends>>
      BY <1>4, <2>7 DEF TakeChar, row
    <3>2. /\ \A n \in 1 .. Len(log) : RowOfText(n)' /\ ends'[n] \in 0 .. Len(heard')
          /\ \A n \in 0 .. Len(log) : UpToRow(n)' = UpToRow(n)
      BY <2>2, <2>5, <3>1, RowsKept
    <3>3. UpToRow(Len(log))' = from /\ Len(ends') = Len(log')
      BY <1>h, <3>1 DEF from, UpToRow, RowsInv
    <3> QED
      BY <2>1, <2>4, <2>5, <3>1, <3>2, <3>3 DEF RowsInv
  <2> QED
    BY <2>6, <2>7
<1>5. CASE Finish
  <2>1. CASE cur = <<>>
    BY <1>5, <1>u, <2>1 DEF Finish, Rest
  <2>2. CASE cur # <<>>
    <3>1. heard' = Append(heard, Newline) /\ Flush(cur) /\ cur' = <<>>
      BY <1>5, <2>2 DEF Finish, Rest
    <3>2. /\ Len(heard') = Len(heard) + 1 /\ heard'[Len(heard) + 1] = Newline
          /\ \A j \in 1 .. Len(heard) : heard'[j] = heard[j]
      BY <1>h, <3>1
    <3>3. \A j \in 1 .. Len(cur) : cur[j] = heard'[from + j]
      BY <1>h, <1>r, <3>2
    <3>4. Len(heard') = from + Len(cur) + 1 /\ heard'[Len(heard')] = Newline /\ Len(heard) <= Len(heard')
      BY <1>h, <1>r, <3>2
    <3> QED
      BY <1>h, <3>1, <3>2, <3>3, <3>4, FlushRow DEF from
  <2> QED
    BY <2>1, <2>2
<1>6. CASE End \/ Ended \/ UNCHANGED vars
  BY <1>6, <1>r, <1>u DEF End, Ended, vars
<1> QED
  BY <1>1, <1>2, <1>3, <1>4, <1>5, <1>6 DEF Next

\* However long the rows and the chunks are, the rows that are printed are those of
\* the bytes received, in order and complete (lab2.c:252-302).
THEOREM LogComplete == Spec => []RowsOfText
<1>1. RowsInv /\ WindowInv => RowsOfText
  <2> SUFFICES ASSUME RowsInv, TypeOK, phase = "read" PROVE UpToRow(Len(log)) = Len(heard)
    BY DEF RowsOfText, RowsInv, WindowInv
  <2>1. Len(cur) = 0 /\ Len(heard) \in Nat /\ Len(log) \in Nat
    BY DEF RowsInv, TypeOK
  <2>2. UpToRow(Len(log)) \in Nat
    BY <2>1, UpToRowType
  <2> QED
    BY <2>1, <2>2 DEF RowsInv
<1> QED
  BY <1>1, WindowInit, WindowNext, RowsInit, RowsNext, PTL DEF Spec
=============================================================================
