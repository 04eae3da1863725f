--------------------------- MODULE MCConsoleInput ---------------------------
(* Instances of ConsoleInput for TLC.                                       *)
EXTENDS ConsoleInput

RootAndOne == {0, 1}
NoVm == {}
GuestOne == {1}

\* Only digits of the range are typed after an escape: 2 is not configured.
Digits == {"1", "2"}
Numbers == [c \in Digits |-> IF c = "1" THEN 1 ELSE 2]

Letters == {"1", "x"}
AnyNumbers == [c \in Letters |-> IF c = "1" THEN 1 ELSE 72]

=============================================================================
