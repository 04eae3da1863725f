------------------------------ MODULE Transcript ------------------------------
(***************************************************************************)
(* What the system log promises: the text that is logged comes out of the   *)
(* UART in its order, each line feed with a carriage return; only a log     *)
(* that outgrows its memory loses text, the oldest first.  Lines written    *)
(* directly go ahead of the log, behind what the UART has already.          *)
(***************************************************************************)
EXTENDS Integers, Sequences, SequencesExt

CONSTANTS
  Lines,      \* what is logged
  Direct,     \* what is written directly
  LineFeed, Return,
  Room,       \* characters the log has memory for
  NoChar

VARIABLES
  text,       \* logged, not given to the UART
  ahead,      \* given to the UART, not on the wire
  wire,       \* the last character on the wire
  sent,       \* history: the parity of the number of characters on the wire
  given,      \* history: the last line that was logged or written
  turn        \* history: the parity of the number of lines

vars == <<text, ahead, wire, sent, given, turn>>

Init ==
  /\ text = <<>> /\ ahead = <<>>
  /\ wire = NoChar /\ sent = 0
  /\ given = <<>> /\ turn = 0

Out(c) == IF c = LineFeed THEN <<c, Return>> ELSE <<c>>

Written(l) == FlattenSeq([i \in DOMAIN l |-> Out(l[i])])

LastOf(s, n) == SubSeq(s, Len(s) - n + 1, Len(s))

Log(l) ==
  /\ IF Len(text) + Len(l) <= Room
     THEN text' = text \o l
     ELSE \E n \in 0 .. Room : text' = LastOf(text \o l, n)
  /\ given' = l /\ turn' = 1 - turn
  /\ UNCHANGED <<ahead, wire, sent>>

Write(l) ==
  /\ ahead' = ahead \o Written(l)
  /\ given' = l /\ turn' = 1 - turn
  /\ UNCHANGED <<text, wire, sent>>

Hand ==
  /\ text # <<>>
  /\ ahead' = ahead \o Out(Head(text))
  /\ text' = Tail(text)
  /\ UNCHANGED <<wire, sent, given, turn>>

Emit ==
  /\ ahead # <<>>
  /\ wire' = Head(ahead) /\ sent' = 1 - sent
  /\ ahead' = Tail(ahead)
  /\ UNCHANGED <<text, given, turn>>

Next ==
  \/ \E l \in Lines : Log(l)
  \/ \E l \in Direct : Write(l)
  \/ Hand \/ Emit

Spec == Init /\ [][Next]_vars

===============================================================================
