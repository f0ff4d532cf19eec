---------------------------- MODULE MCChatClient ----------------------------
(* ChatClient for TLC. *)
EXTENDS ChatClientRefinement

\* Every key there is.
AllKeys == Keys

\* A key to type with, one to send and one to quit.
FewKeys == Letters \cup Symbols \cup {"enter", "esc"}

\* One read() brings one chat line ...
OneLine == {<<"x">>}

\* ... or one of two.
TwoLines == {<<"x">>, <<"y">>}
=============================================================================
