---------------------------- MODULE InputQueues ----------------------------
(***************************************************************************)
(* What the console promises: one bounded first-in first-out queue of typed *)
(* characters per VM, and one VM at a time that typed characters go to.     *)
(***************************************************************************)
EXTENDS Integers, Sequences

CONSTANTS
  Vms,        \* 0 for the root, and the guests
  Chars,
  Capacity,
  NoChar

VARIABLES
  queue,      \* per VM, characters typed and not yet read
  target,     \* the VM that gets typed characters
  got,        \* per VM, the last character it read
  bell,       \* the last character typed was refused with a bell
  typed       \* history: the parity of the number of characters typed

vars == <<queue, target, got, bell, typed>>

Init ==
  /\ queue = [v \in Vms |-> <<>>]
  /\ target = 0
  /\ got = [v \in Vms |-> NoChar]
  /\ bell = FALSE /\ typed = 0

\* A typed character is queued for the target ...
Put(c) ==
  /\ Len(queue[target]) < Capacity
  /\ queue' = [queue EXCEPT ![target] = Append(@, c)]
  /\ bell' = FALSE /\ typed' = 1 - typed
  /\ UNCHANGED <<target, got>>

\* ... or refused with a bell when there is no room.
Refuse ==
  /\ Len(queue[target]) = Capacity
  /\ bell' = TRUE /\ typed' = 1 - typed
  /\ UNCHANGED <<queue, target, got>>

Get(v) ==
  /\ queue[v] # <<>>
  /\ got' = [got EXCEPT ![v] = Head(queue[v])]
  /\ queue' = [queue EXCEPT ![v] = Tail(@)]
  /\ UNCHANGED <<target, bell, typed>>

Direct(v) == target' = v /\ UNCHANGED <<queue, got, bell, typed>>

Next ==
  \/ \E c \in Chars : Put(c)
  \/ Refuse
  \/ \E v \in Vms : Get(v) \/ Direct(v)

Spec == Init /\ [][Next]_vars

=============================================================================
