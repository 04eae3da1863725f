-------------------------- MODULE RootThread_proofs --------------------------
(***************************************************************************)
(* Frames stay with their threads, for any number of guests and any input,  *)
(* when no guest raises its own IPL above that of its IRQs, or only before   *)
(* thread 0 ever leaves wait().                                              *)
(***************************************************************************)
EXTENDS RootThread, TLAPS

\* While a guest hides its IRQs, nothing has made thread 0 leave wait().
RaisedEarly == Raising = {} \/ Early

InWait == pc \in {"top", "asleep"}

\* Guests have the CPU only while thread 0 is in wait(), which it leaves only
\* for input; the FIFO holds no more than was typed.
WaitInv ==
  /\ exec \in Guests => InWait
  /\ high # {} => typed = 0 /\ InWait
  /\ typed = 0 => ~reschedule_flag
  /\ fifo <= typed

Inv == TypeOK /\ FramesAreOwn /\ WaitInv

-----------------------------------------------------------------------------
\* A handler on a frame saves a thread's registers into its own frame.
LEMMA SavedOwn == ASSUME Inv PROVE Saved = frame
<1>1. CASE FrameEntry
  <2>1. [frame EXCEPT ![current] = exec] = frame
    BY DEF Inv, TypeOK, FramesAreOwn
  <2>2. QED
    BY <1>1, <2>1 DEF Saved
<1>2. CASE ~FrameEntry
  BY <1>2 DEF Saved
<1>3. QED
  BY <1>1, <1>2

\* The frame is used for guests and for thread 0 in wait().
LEMMA FrameEntryIs ==
  ASSUME Inv
  PROVE  /\ Root \in Threads /\ Root \notin Guests /\ Guests \subseteq Threads
         /\ FrameEntry <=> InWait
<1>1. Root \in Threads /\ Root \notin Guests /\ Guests \subseteq Threads
  BY RootThreadAssumption DEF Threads
<1>2. exec \in Threads /\ (exec \in Guests => InWait)
  BY DEF Inv, TypeOK, WaitInv
<1>3. FrameEntry <=> InWait
  BY <1>2 DEF FrameEntry, Waiting, InWait, Threads
<1>4. QED
  BY <1>1, <1>3

\* Going to another thread is right from a frame; staying is, from anywhere.
LEMMA ReturnOwn ==
  ASSUME Inv, NEW t \in Threads, FrameEntry \/ t = current, ReturnTo(t)
  PROVE  frame' = frame /\ current' = t /\ exec' = t
<1>1. frame' = frame /\ current' = t
  BY SavedOwn DEF ReturnTo
<1>2. CASE FrameEntry
  BY <1>1, <1>2, SavedOwn DEF ReturnTo, Inv, FramesAreOwn
<1>3. CASE ~FrameEntry
  BY <1>1, <1>3 DEF ReturnTo, Inv, FramesAreOwn
<1>4. QED
  BY <1>1, <1>2, <1>3

\* Outside its frame thread 0 runs code that reschedule() leaves alone.
LEMMA ChosenAllowed ==
  ASSUME Inv, NEW r \in SUBSET Threads, NEW t \in Chosen(r)
  PROVE  t \in Threads /\ (FrameEntry \/ t = current)
<1>1. Root \in Threads /\ Guests \subseteq Threads /\ exec = current /\ current \in Threads
  BY DEF Threads, Inv, TypeOK, FramesAreOwn
<1>2. ~FrameEntry => current = Root /\ ~Waiting
  BY <1>1 DEF FrameEntry, Threads
<1>3. ~FrameEntry => ~Reschedulable
  BY <1>2 DEF Reschedulable
<1>4. QED
  BY <1>1, <1>3 DEF Chosen

LEMMA RescheduleOwn ==
  ASSUME Inv, NEW r \in SUBSET Threads, RescheduleWith(r)
  PROVE  /\ frame' = frame /\ current' \in Threads /\ exec' = current'
         /\ running' \subseteq Threads
         /\ exec' \in Guests => InWait
<1>1. PICK t \in Chosen(r) : ReturnTo(t) /\ running' = SwitchedFlags(r, t)
  BY DEF RescheduleWith
<1>2. t \in Threads /\ (FrameEntry \/ t = current)
  BY ChosenAllowed
<1>3. frame' = frame /\ current' = t /\ exec' = t
  BY <1>1, <1>2, ReturnOwn
<1>4. t \in Guests => InWait
  BY <1>2, FrameEntryIs DEF Inv, FramesAreOwn, WaitInv
<1>5. running' \subseteq Threads
  BY <1>1, <1>2 DEF SwitchedFlags
<1>6. QED
  BY <1>2, <1>3, <1>4, <1>5

LEMMA InvInit == Init => Inv
<1>. SUFFICES ASSUME Init PROVE Inv
  OBVIOUS
<1>1. 0 \in 0 .. RingSize /\ 0 \in 0 .. MaxTyped /\ Root = 0 /\ Root \in Threads
  BY RootThreadAssumption DEF Root, Threads
<1>2. FramesAreOwn
  BY <1>1 DEF Init, FramesAreOwn
<1>3. TypeOK
  BY <1>1 DEF Init, TypeOK
<1>4. WaitInv
  BY <1>1, RootThreadAssumption DEF Init, WaitInv
<1>5. QED
  BY <1>2, <1>3, <1>4 DEF Inv

LEMMA InvNext == ASSUME RaisedEarly, Inv, [Next]_vars PROVE Inv'
<1>. USE DEF Inv, FramesAreOwn
<1>0. typed \in Nat /\ fifo \in Nat /\ Root \in Threads /\ Root \notin Guests
  BY RootThreadAssumption, FrameEntryIs DEF TypeOK
<1>1. CASE TickIRQ
  <2>1. RescheduleWith(running) /\ running \in SUBSET Threads
    BY <1>1 DEF TickIRQ, TypeOK
  <2>2. QED
    BY <1>1, <2>1, RescheduleOwn DEF TickIRQ, TypeOK, WaitInv, InWait, input
<1>2. CASE ConsoleIRQ
  <2>1. Root \in Threads /\ Root \notin stopped
    BY RootThreadAssumption DEF Threads, TypeOK
  <2>2. Target(Root) = Root
    BY <2>1 DEF Target
  <2>3. FrameEntry \/ Root = current
    BY DEF FrameEntry, TypeOK, Threads
  <2>4. frame' = frame /\ current' = Root /\ exec' = Root
    BY <1>2, <2>1, <2>2, <2>3, ReturnOwn DEF ConsoleIRQ
  <2>5. ring' \in 0 .. RingSize
    BY <1>2, RootThreadAssumption DEF ConsoleIRQ, RingWith, TypeOK
  <2>6. fifo' \in 0 .. MaxTyped /\ fifo' <= typed'
    BY <1>2, RootThreadAssumption DEF ConsoleIRQ, TypeOK
  <2>7. TypeOK'
    BY <1>2, <2>1, <2>4, <2>5, <2>6 DEF ConsoleIRQ, TypeOK
  <2>8. typed' # 0 /\ high' = {}
    BY <1>0, <1>2 DEF ConsoleIRQ, WaitInv
  <2>9. WaitInv'
    BY <1>0, <2>4, <2>6, <2>8 DEF WaitInv
  <2>10. QED
    BY <2>1, <2>4, <2>7, <2>9
<1>3. ASSUME NEW g \in Guests, GuestIRQ(g) PROVE Inv'
  <2>0. current \in Threads /\ g \in Threads
    BY DEF TypeOK, Threads
  <2>1. PICK t \in Threads : /\ ReturnTo(t)
                             /\ running' = SwitchedFlags(running, t) \cup {g}
                             /\ FrameEntry \/ t = current
    <3>1. CASE g # current /\ g \in high
      BY <1>3, <2>0, <3>1, FrameEntryIs DEF GuestIRQ, Target, WaitInv
    <3>2. CASE ~(g # current /\ g \in high)
      BY <1>3, <2>0, <3>2 DEF GuestIRQ
    <3>3. QED
      BY <3>1, <3>2
  <2>2. frame' = frame /\ current' = t /\ exec' = t
    BY <2>1, ReturnOwn
  <2>3. t \in Guests => InWait
    BY <2>1, FrameEntryIs DEF WaitInv
  <2>4. running' \subseteq Threads
    BY <2>0, <2>1 DEF SwitchedFlags, TypeOK
  <2>5. TypeOK'
    BY <1>3, <2>1, <2>2, <2>4 DEF GuestIRQ, TypeOK, input
  <2>6. WaitInv'
    BY <1>3, <2>2, <2>3 DEF GuestIRQ, WaitInv, InWait, input
  <2>7. QED
    BY <2>2, <2>5, <2>6
<1>4. CASE WaitTop
  <2>1. CASE reschedule_flag
    BY <1>0, <1>4, <2>1 DEF WaitTop, Runs, TypeOK, WaitInv, InWait, env
  <2>2. CASE ~reschedule_flag
    <3>1. RescheduleWith(running \ {current}) /\ running \ {current} \in SUBSET Threads
      BY <1>4, <2>2 DEF WaitTop, TypeOK
    <3>2. QED
      BY <1>4, <2>2, <3>1, RescheduleOwn DEF WaitTop, TypeOK, WaitInv, InWait, env
  <2>3. QED
    BY <2>1, <2>2
<1>5. CASE Wake
  BY <1>5 DEF Wake, TypeOK, WaitInv, InWait, input, env
<1>6. CASE CallWait
  BY <1>6 DEF CallWait, TypeOK, WaitInv, InWait, input, env
<1>7. ASSUME NEW c \in Commands, NEW g \in Threads, Command(c, g) PROVE Inv'
  <2>0. high = {} /\ exec = Root
    BY <1>7 DEF Command, Runs, WaitInv, InWait
  <2>1. frame' = frame /\ running' \subseteq Threads /\ high' = {}
    <3>1. [frame EXCEPT ![g] = g] = frame
      BY <1>7 DEF TypeOK
    <3>2. QED
      BY <1>7, <2>0, <3>1 DEF Command, TypeOK
  <2>2. stopped' \subseteq Guests
    BY <1>7 DEF Command, TypeOK, Threads
  <2>3. ring' \in 0 .. RingSize
    BY <1>7, RootThreadAssumption DEF Command, TypeOK
  <2>4. QED
    BY <1>0, <1>7, <2>0, <2>1, <2>2, <2>3 DEF Command, TypeOK, WaitInv
<1>8. CASE GuestWait
  <2>1. RescheduleWith(running \ {current}) /\ running \ {current} \in SUBSET Threads
    BY <1>8 DEF GuestWait, TypeOK
  <2>2. QED
    BY <1>8, <2>1, RescheduleOwn DEF GuestWait, TypeOK, WaitInv, InWait, input, env
<1>9. CASE GuestSetIpl
  <2>1. Early /\ typed = 0 /\ exec \in Guests
    BY <1>9, RootThreadAssumption DEF GuestSetIpl, RaisedEarly
  <2>2. QED
    BY <1>9, <2>1 DEF GuestSetIpl, TypeOK, WaitInv, InWait, input
<1>10. CASE RaiseTick
  BY <1>10 DEF RaiseTick, TypeOK, WaitInv, InWait, input
<1>11. CASE Type
  <2>0. typed < MaxTyped /\ typed' = typed + 1 /\ fifo' = fifo + 1
    BY <1>11, Zenon DEF Type
  <2>1. fifo' \in 0 .. MaxTyped /\ typed' \in 0 .. MaxTyped /\ fifo' <= typed'
    BY <2>0, RootThreadAssumption DEF TypeOK, WaitInv
  <2>2. typed' # 0
    BY <1>0, <2>0
  <2>3. high = {}
    <3>1. high \subseteq Raising /\ (Early => high = {})
      BY <1>11, Zenon DEF Type, TypeOK
    <3>2. QED
      BY <3>1 DEF RaisedEarly
  <2>4. QED
    BY <1>11, <2>1, <2>2, <2>3 DEF Type, TypeOK, WaitInv, InWait, input
<1>12. ASSUME NEW g \in Guests, RaiseIRQ(g) PROVE Inv'
  BY <1>12 DEF RaiseIRQ, TypeOK, WaitInv, InWait, input
<1>13. CASE UNCHANGED vars
  BY <1>13 DEF vars, TypeOK, WaitInv, InWait, input, env
<1>14. QED
  BY <1>1, <1>2, <1>3, <1>4, <1>5, <1>6, <1>7, <1>8, <1>9, <1>10, <1>11, <1>12, <1>13 DEF Next

(* The CPU runs the thread fp points to and every frame holds its own        *)
(* thread's registers, through every entry, switch and exit of start.S and   *)
(* scheduler.c, when guests raise their IPL only while thread 0 is still in   *)
(* its first wait(), if at all: reschedule()'s own guard (scheduler.c:215-219) *)
(* is then what keeps a handler that interrupted thread 0 outside wait() from *)
(* leaving with another thread's frame.                                      *)
THEOREM FramesStayOwn == ASSUME RaisedEarly PROVE Spec => []FramesAreOwn
<1>1. Spec => []Inv
  BY InvInit, InvNext, PTL DEF Spec
<1>2. Inv => FramesAreOwn
  BY DEF Inv
<1>3. QED
  BY <1>1, <1>2, PTL

(* Under the same discipline every variable of the CPU, the threads and the   *)
(* input keeps its type; the UART's FIFO and the ring stay within what was    *)
(* typed and what the ring holds.                                             *)
THEOREM TypeCorrect == ASSUME RaisedEarly PROVE Spec => []TypeOK
<1>1. Spec => []Inv
  BY InvInit, InvNext, PTL DEF Spec
<1>2. Inv => TypeOK
  BY DEF Inv
<1>3. QED
  BY <1>1, <1>2, PTL

=============================================================================
