------------------------------- MODULE Hex7Seg -------------------------------
(* The decoder of src/lab1/hex7seg.sv, and numbers of three digits. *)
EXTENDS Integers, Sequences

\* The segments g to a of a digit; 0 is on.
hex7seg ==
    <<"1000000", "1111001", "0100100", "0110000", "0011001", "0010010", "0000010", "1111000",
      "0000000", "0010000", "0001000", "0000011", "1000110", "0100001", "0000110", "0001110">>

Off == "1111111"

\* A number of twelve bits, the digit on the right first.
Digit(d)  == hex7seg[d + 1]
Digits(v) == <<Digit(v % 16), Digit((v \div 16) % 16), Digit(v \div 256)>>
=============================================================================
