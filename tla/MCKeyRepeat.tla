---------------------------- MODULE MCKeyRepeat -----------------------------
(* KeyRepeat with timers that are at rest when power comes. *)
EXTENDS KeyRepeat

AtRest == {Rest}
=============================================================================
