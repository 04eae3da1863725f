---------------------------- MODULE MCInterrupts ----------------------------
(* Instances of VirtualInterrupts for TLC. *)
EXTENDS VirtualInterrupts

\* The levels guests program: the timer above the devices, sw0 below them.
MCIpl == [i \in Irqs |-> IF i = Timer THEN 4 ELSE IF i \in Soft THEN 2 ELSE 3]

\* d1 and d2 belong to guest 1 and guest 2.
MCOwner == [i \in PassThrough |-> IF i = "d1" THEN 1 ELSE 2]
MCOwner1 == [i \in PassThrough |-> 1]

\* A guest's own software IRQ goes before that of its device.
MCIplSoft == [i \in Irqs |-> IF i \in Soft THEN 4 ELSE 3]

\* Two devices of guest 2, d2 the more urgent one.
MCOwner2 == [i \in PassThrough |-> 2]
MCIpl2 == [i \in Irqs |-> IF i = Timer THEN 4 ELSE IF i = "d2" THEN 3 ELSE 2]

=============================================================================
