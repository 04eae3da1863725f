---------------------------- MODULE MCTimerQueue ----------------------------
(* Instances of TimerQueue for TLC.                                         *)
EXTENDS TimerQueue

ASSUME WrapIsLong /\ RequestsApart

TwoGuests == {"g1", "g2"}

=============================================================================
