------------------------------ MODULE MCChatLog ------------------------------
(***************************************************************************)
(* Rows of two characters, a window of three rows, and every chunk of up   *)
(* to four bytes: a row is filled exactly, overrun and left open within a  *)
(* chunk and across two, and the window scrolls.                           *)
(***************************************************************************)
EXTENDS ChatLog

CONSTANT MaxRead   \* BUFFER_SIZE - 1

AllReads == UNION {[1 .. n -> Bytes] : n \in 1 .. MaxRead}
=============================================================================
