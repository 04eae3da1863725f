------------------------------ MODULE MCLogRing ------------------------------
(* Instances of LogRing for TLC. *)
EXTENDS LogRing

\* A character from a guest, two, and a line end among characters.
MCLines == {<<"a">>, <<"b", "nl">>, <<"nl", "a">>}
MCDirect == {<<"d", "nl">>}
=============================================================================
