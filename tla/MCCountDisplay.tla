--------------------------- MODULE MCCountDisplay ---------------------------
(***************************************************************************)
(* CountDisplay with words of Modulus values.  The reference for the       *)
(* number of terms follows a sequence for as many steps as there are       *)
(* words: one that has not ended by then never does.                       *)
(***************************************************************************)
EXTENDS CountDisplay

RECURSIVE TermsFrom(_, _)
TermsFrom(x, steps) ==
    IF x \in {0, 1} THEN 1
    ELSE IF steps = 0 THEN CountMod
    ELSE 1 + TermsFrom(NextTerm(x), steps - 1)

HaltingWords == {x \in Words : TermsFrom(x, Modulus) < CountMod}
HaltingTerms == [x \in HaltingWords |-> TermsFrom(x, Modulus)]
=============================================================================
