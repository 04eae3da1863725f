----------------------------- MODULE RootThread -----------------------------
(***************************************************************************)
(* Thread 0 of tinyVP, the guests and the one CPU they share: whose code    *)
(* the CPU runs, in whose frame its registers are saved, the wait() loop of *)
(* thread 0 and the console commands it executes.                           *)
(*                                                                          *)
(* start.S has two ways into a root handler.  From a guest, or from thread  *)
(* 0 inside wait() (CP0 Context not zero), the registers go to the frame    *)
(* fp points to, and the exit loads the frame fp points to by then.  From   *)
(* any other code of thread 0 they go to the stack and come back from       *)
(* there, whatever fp is.  Handlers run with interrupts disabled.           *)
(***************************************************************************)
EXTENDS Integers

CONSTANTS
  Guests,       \* the guest threads
  Raising,      \* guests that raise their own IPL above that of their IRQs
  Commands,     \* root console commands typed, of "s", "c" and "r"
  MaxTyped,     \* bound: characters typed in a run
  Early,        \* bound: when TRUE, guests raise their IPL before anything is typed
  RingSize      \* characters the root's input ring holds (7 in the code)

Root == 0
Threads == {Root} \cup Guests

ASSUME RootThreadAssumption ==
  /\ Guests \subseteq Nat \ {Root}
  /\ Raising \subseteq Guests
  /\ Commands \subseteq {"s", "c", "r"}
  /\ MaxTyped \in Nat /\ Early \in BOOLEAN
  /\ RingSize \in Nat \ {0}

VARIABLES
  current,          \* fp: the thread structure root works with
  exec,             \* the thread whose code the CPU executes outside handlers
  frame,            \* per thread, whose registers its exception frame holds
  pc,               \* where thread 0 is in its loop
  running, stopped, \* thread_flags
  reschedule_flag,
  ring,             \* characters in the root's console buffer
  fifo,             \* characters in the UART receive FIFO
  tick,             \* the scheduler tick is pending
  pending,          \* guests with an IRQ pending
  high,             \* guests whose IPL hides their IRQs
  typed             \* characters typed so far

input == <<reschedule_flag, ring>>
env   == <<fifo, tick, pending, high, typed>>
vars  == <<current, exec, frame, pc, running, stopped, input, env>>

Init ==
  /\ current = Root /\ exec = Root /\ pc = "main"
  /\ frame = [t \in Threads |-> t]
  /\ running = Threads /\ stopped = {}
  /\ reschedule_flag = FALSE /\ ring = 0
  /\ fifo = 0 /\ tick = FALSE /\ pending = {} /\ high = {} /\ typed = 0

-----------------------------------------------------------------------------
(* Entry and exit.  wait() sets Context.waitflag: thread 0 is at the top of   *)
(* its loop (label 1) or behind its system call, at the WAIT instruction.    *)

Waiting == exec = Root /\ pc \in {"top", "asleep"}

\* Context # 0: the frame of fp is used, not the stack.
FrameEntry == exec \in Guests \/ Waiting

Saved == IF FrameEntry THEN [frame EXCEPT ![current] = exec] ELSE frame

\* The handler left fp = t: frames, and the code that goes on.
ReturnTo(t) ==
  /\ current' = t
  /\ frame' = Saved
  /\ exec' = IF FrameEntry THEN Saved[t] ELSE exec

InterruptPending == fifo > 0 \/ tick \/ pending # {}

\* Thread 0 runs these parts of its loop with interrupts enabled; guests
\* always do, as root interrupts are not theirs to mask.
Interruptible == exec \in Guests \/ pc \in {"main", "back", "top"}

\* Code with interrupts enabled goes on only while none is pending.
Runs(t) == exec = t /\ ~InterruptPending

-----------------------------------------------------------------------------
(* scheduler.c *)

\* The thread switch_to_thread(t) leaves in fp: it refuses a stopped one.
Target(t) == IF t \in stopped THEN current ELSE t

\* Faults: thread 0 is rescheduled wherever it is, or not even in wait().
ReschedulableAlways == TRUE
ReschedulableGuests == current # Root

\* reschedule() leaves thread 0 alone outside wait().
Reschedulable == current # Root \/ Waiting

\* The threads reschedule() may choose with the RUNNING set r: some guest that
\* can run (which one depends on its weight), else thread 0.
Chosen(r) ==
  IF ~Reschedulable THEN {current}
  ELSE IF (r \ stopped) \cap Guests # {} THEN (r \ stopped) \cap Guests
  ELSE {Root}

\* Every switch sets the RUNNING flag of the thread it goes to.
SwitchedFlags(r, t) == IF t # current THEN r \cup {t} ELSE r

RescheduleWith(r) ==
  \E t \in Chosen(r) : ReturnTo(t) /\ running' = SwitchedFlags(r, t)

-----------------------------------------------------------------------------
(* Interrupts *)

TickIRQ ==
  /\ Interruptible /\ tick
  /\ tick' = FALSE
  /\ RescheduleWith(running)
  /\ UNCHANGED <<pc, stopped, input, fifo, pending, high, typed>>

\* insert_IRQ for guest g: a switch only when the guest's own IPL hides it.
GuestIRQ(g) ==
  /\ Interruptible /\ g \in pending
  /\ pending' = pending \ {g}
  /\ LET t == IF g # current /\ g \in high THEN Target(g) ELSE current IN
     ReturnTo(t) /\ running' = SwitchedFlags(running, t) \cup {g}
  /\ UNCHANGED <<pc, stopped, input, fifo, tick, high, typed>>

\* Fault: console_input_char does not look for the ring's start.
RingWithAll(n) == ring + n

\* console_input_char, n times: what does not fit is dropped.
RingWith(n) == IF ring + n > RingSize THEN RingSize ELSE ring + n

\* uart_rx_irq reads the whole FIFO, console_rx keeps what fits in the ring
\* and switches to thread 0.
ConsoleIRQ ==
  /\ Interruptible /\ fifo > 0
  /\ fifo' = 0
  /\ ring' = RingWith(fifo)
  /\ reschedule_flag' = TRUE
  /\ ReturnTo(Target(Root))
  /\ running' = running \cup {Root}
  /\ UNCHANGED <<pc, stopped, tick, pending, high, typed>>

-----------------------------------------------------------------------------
(* Thread 0: __main and wait() *)

\* The top of wait()'s loop, interrupts disabled: with the flag set wait() is
\* left, otherwise the system call gives the CPU to a guest and thread 0 goes
\* on at the WAIT instruction whenever it gets the CPU back.
WaitTop ==
  /\ Runs(Root) /\ pc = "top"
  /\ \/ /\ reschedule_flag
        /\ reschedule_flag' = FALSE
        /\ pc' = "main"
        /\ UNCHANGED <<current, exec, frame, running>>
     \/ /\ ~reschedule_flag
        /\ pc' = "asleep"
        /\ RescheduleWith(running \ {current})
        /\ UNCHANGED reschedule_flag
  /\ UNCHANGED <<stopped, ring, env>>

\* WAIT with interrupts disabled ends when one is pending; ei follows.
Wake ==
  /\ exec = Root /\ pc = "asleep" /\ InterruptPending
  /\ pc' = "top"
  /\ UNCHANGED <<current, exec, frame, running, stopped, input, env>>

\* __main calls wait() again: after a command, or when there was no input.
CallWait ==
  /\ Runs(Root)
  /\ (pc = "back" \/ (pc = "main" /\ ring = 0))
  /\ pc' = "top"
  /\ UNCHANGED <<current, exec, frame, running, stopped, input, env>>

\* One character is taken, and its command executed with interrupts disabled, for
\* the guest g selected by an earlier digit; with none selected, or for any other
\* character, nothing changes here.  Interrupts are still on while the character
\* is taken (main.c:162-167): a handler there may as well come behind the command.
Command(c, g) ==
  /\ Runs(Root) /\ pc = "main" /\ ring > 0
  /\ ring' = ring - 1
  /\ pc' = "back"
  /\ \/ /\ g = Root
        /\ UNCHANGED <<running, stopped, frame, high>>
     \/ /\ g # Root /\ c = "s"
        /\ running' = running \ {g} /\ stopped' = stopped \cup {g}
        /\ UNCHANGED <<frame, high>>
     \/ /\ g # Root /\ c = "c"
        /\ running' = running \cup {g} /\ stopped' = stopped \ {g}
        /\ UNCHANGED <<frame, high>>
     \/ /\ g # Root /\ c = "r"   \* init_thread
        /\ running' = running \cup {g} /\ stopped' = stopped \ {g}
        /\ frame' = [frame EXCEPT ![g] = g]
        /\ high' = high \ {g}
  /\ UNCHANGED <<current, exec, reschedule_flag, fifo, tick, pending, typed>>

-----------------------------------------------------------------------------
(* Guests, and what comes from outside *)

\* WAIT of a guest with nothing injected.
GuestWait ==
  /\ exec \in Guests /\ Runs(exec)
  /\ RescheduleWith(running \ {current})
  /\ UNCHANGED <<pc, stopped, input, env>>

GuestSetIpl ==
  /\ exec \in Raising /\ Runs(exec)
  /\ Early => typed = 0
  /\ high' = IF exec \in high THEN high \ {exec} ELSE high \cup {exec}
  /\ UNCHANGED <<current, exec, frame, pc, running, stopped, input, fifo, tick, pending, typed>>

RaiseTick ==
  /\ ~tick
  /\ tick' = TRUE
  /\ UNCHANGED <<current, exec, frame, pc, running, stopped, input, fifo, pending, high, typed>>

RaiseIRQ(g) ==
  /\ g \notin pending
  /\ pending' = pending \cup {g}
  /\ UNCHANGED <<current, exec, frame, pc, running, stopped, input, fifo, tick, high, typed>>

Type ==
  /\ typed < MaxTyped /\ (Early => high = {})
  /\ typed' = typed + 1 /\ fifo' = fifo + 1
  /\ UNCHANGED <<current, exec, frame, pc, running, stopped, input, tick, pending, high>>

Next ==
  \/ TickIRQ \/ ConsoleIRQ
  \/ \E g \in Guests : GuestIRQ(g)
  \/ WaitTop \/ Wake \/ CallWait
  \/ \E c \in Commands, g \in Threads : Command(c, g)
  \/ GuestWait \/ GuestSetIpl
  \/ RaiseTick \/ Type
  \/ \E g \in Guests : RaiseIRQ(g)

Spec == Init /\ [][Next]_vars

\* The tick keeps coming, interrupts that are enabled are served and leave time
\* for code to run, and thread 0 then executes its own.
FairSpec ==
  /\ Spec
  /\ WF_vars(RaiseTick) /\ SF_vars(TickIRQ) /\ SF_vars(ConsoleIRQ)
  /\ \A g \in Guests : SF_vars(GuestIRQ(g))
  /\ []<>~InterruptPending
  /\ WF_vars(Wake) /\ SF_vars(WaitTop) /\ SF_vars(CallWait)
  /\ SF_vars(\E c \in Commands, g \in Threads : Command(c, g))

-----------------------------------------------------------------------------
TypeOK ==
  /\ current \in Threads /\ exec \in Threads
  /\ frame \in [Threads -> Threads]
  /\ pc \in {"main", "back", "top", "asleep"}
  /\ running \subseteq Threads /\ stopped \subseteq Guests
  /\ reschedule_flag \in BOOLEAN
  /\ ring \in 0 .. RingSize /\ fifo \in 0 .. MaxTyped /\ typed \in 0 .. MaxTyped
  /\ tick \in BOOLEAN /\ pending \subseteq Guests /\ high \subseteq Raising

(* The CPU runs the thread fp points to, and the frame of every thread holds *)
(* that thread's own registers: no thread ever resumes, or overwrites, the   *)
(* context of another one (start.S entries and exits, switch_to_thread).     *)
FramesAreOwn == exec = current /\ \A t \in Threads : frame[t] = t

(* Thread 0 does not keep the CPU: while a guest is ready to run, the CPU    *)
(* gets to a guest (the system call in wait(), the scheduler tick).          *)
GuestsGetCpu ==
  current = Root /\ (running \ stopped) \cap Guests # {}
    ~> current \in Guests \/ (running \ stopped) \cap Guests = {}

(* Input for the root makes thread 0 leave wait() (console_rx: "a force      *)
(* reschedule is done").                                                     *)
InputWakesRoot == reschedule_flag ~> ~reschedule_flag

(* Every character typed at the root is executed: none stays in the ring     *)
(* until another one happens to be typed.                                    *)
InputServed == ring > 0 ~> ring = 0

=============================================================================
