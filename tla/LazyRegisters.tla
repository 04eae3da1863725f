--------------------------- MODULE LazyRegisters ---------------------------
(***************************************************************************)
(* The FPU and the DSP extension: one set of registers each, which a guest   *)
(* owns from the exception at its first use until another guest's.          *)
(***************************************************************************)
EXTENDS Integers

CONSTANTS
  Guests,   \* threads with a guest; thread 0 is root
  Units,    \* the FPU and the DSP extension
  Fpu,
  Values    \* of all registers of a unit together, 0 among them

ASSUME LazyAssumption ==
  /\ Guests \subseteq Nat \ {0}
  /\ Guests # {}
  /\ Fpu \in Units /\ {} \notin Units
  /\ 0 \in Values

Threads == Guests \cup {0}

\* An instruction of a unit, by what it leaves in the registers; or none.
Insns == [unit : Units, value : Values]
NoInsn == [unit |-> {}, value |-> {}]

VARIABLES
  current,
  owner,    \* fpu_owner, dsp_owner
  enabled,  \* the threads whose frame has CU1 or MX in cp0_status
  live,     \* the registers of the hardware
  saved,    \* fpr and fcr31, dspr and dspcontrol in struct thread
  stopped,  \* threads with THREAD_FLAGS_STOPPED
  wants,    \* the instruction a guest has come to
  seen      \* whose instruction was just executed, and what it found; or {}

vars == <<current, owner, enabled, live, saved, stopped, wants, seen>>

Init ==
  /\ current = 0
  /\ owner = [u \in Units |-> 0]
  /\ enabled = [u \in Units |-> {}]
  /\ live \in [Units -> Values]
  /\ saved = [u \in Units |-> [t \in Threads |-> 0]]
  /\ stopped = {}
  /\ wants = [g \in Guests |-> NoInsn]
  /\ seen = {}

-----------------------------------------------------------------------------
(* Exceptions *)

\* Fault: the registers are saved in the new owner's thread.
SavedByTaker(u) == [saved EXCEPT ![u][current] = live[u]]

\* The owner's registers go to its thread; thread 0 owns at the start, and
\* the test for an owner, of an unsigned, is always true.
Saved(u) == [saved EXCEPT ![u][owner[u]] = live[u]]

\* do_cu, do_dsp.
Acquire(u) ==
  /\ enabled' = [enabled EXCEPT ![u] = @ \cup {current}]
  /\ IF owner[u] = current
     THEN UNCHANGED <<owner, live, saved>>
     ELSE /\ saved' = Saved(u)
          /\ owner' = [owner EXCEPT ![u] = current]
          /\ live' = [live EXCEPT ![u] = saved'[u][current]]

\* CAUSE_CU, CAUSE_DSP: compute_return_epc goes on behind the instruction.
Unusable(u) ==
  /\ current \in Guests
  /\ wants[current].unit = u /\ current \notin enabled[u]
  /\ Acquire(u)
  /\ wants' = [wants EXCEPT ![current] = NoInsn]
  /\ seen' = {}
  /\ UNCHANGED <<current, stopped>>

-----------------------------------------------------------------------------
(* The scheduler and the commands of thread 0 *)

\* Fault: the bits stay as they were.
Kept(t) == enabled

\* Fault: the bits come with the other control bits of Status.
Inherited(t) ==
  [u \in Units |-> IF current \in enabled[u] THEN enabled[u] \cup {t} ELSE enabled[u] \ {t}]

\* The bits of the thread that is switched to are cleared.
Cleared(t) == [u \in Units |-> enabled[u] \ {t}]

\* switch_to_thread.
Switch(t) ==
  /\ t # current /\ t \notin stopped
  /\ current' = t
  /\ enabled' = Cleared(t)
  /\ seen' = {}
  /\ UNCHANGED <<owner, live, saved, stopped, wants>>

Stop(g) ==
  /\ current = 0
  /\ stopped' = stopped \cup {g}
  /\ seen' = {}
  /\ UNCHANGED <<current, owner, enabled, live, saved, wants>>

Continue(g) ==
  /\ current = 0
  /\ stopped' = stopped \ {g}
  /\ seen' = {}
  /\ UNCHANGED <<current, owner, enabled, live, saved, wants>>

\* init_thread zeroes struct thread; the owners stay.
Restart(g) ==
  /\ current = 0
  /\ stopped' = stopped \ {g}
  /\ enabled' = Cleared(g)
  /\ saved' = [u \in Units |-> [saved[u] EXCEPT ![g] = 0]]
  /\ wants' = [wants EXCEPT ![g] = NoInsn]
  /\ seen' = {}
  /\ UNCHANGED <<current, owner, live>>

-----------------------------------------------------------------------------
(* Guests *)

Come(i) ==
  /\ current \in Guests
  /\ wants[current] = NoInsn
  /\ wants' = [wants EXCEPT ![current] = i]
  /\ seen' = {}
  /\ UNCHANGED <<current, owner, enabled, live, saved, stopped>>

\* With the bit in Status the hardware executes the instruction.
Use(u) ==
  /\ current \in Guests
  /\ wants[current].unit = u /\ current \in enabled[u]
  /\ seen' = {<<current, u, live[u]>>}
  /\ live' = [live EXCEPT ![u] = wants[current].value]
  /\ wants' = [wants EXCEPT ![current] = NoInsn]
  /\ UNCHANGED <<current, owner, enabled, saved, stopped>>

\* is_fpu_owner.
ConditionBits == IF owner[Fpu] = current THEN live[Fpu] ELSE saved[Fpu][current]

\* A branch on the FP condition that the CPU has executed, with a slot that
\* root emulates.
Decide ==
  /\ current \in Guests
  /\ current \in enabled[Fpu]
  /\ seen' = {<<current, Fpu, ConditionBits>>}
  /\ UNCHANGED <<current, owner, enabled, live, saved, stopped, wants>>

Next ==
  \/ \E u \in Units : Unusable(u) \/ Use(u)
  \/ \E t \in Threads : Switch(t)
  \/ \E g \in Guests : Stop(g) \/ Continue(g) \/ Restart(g)
  \/ \E i \in Insns : Come(i)
  \/ Decide

Spec == Init /\ [][Next]_vars

-----------------------------------------------------------------------------
TypeOK ==
  /\ current \in Threads
  /\ owner \in [Units -> Threads]
  /\ enabled \in [Units -> SUBSET Guests]
  /\ live \in [Units -> Values]
  /\ saved \in [Units -> [Threads -> Values]]
  /\ stopped \subseteq Guests
  /\ wants \in [Guests -> Insns \cup {NoInsn}]
  /\ seen \in SUBSET (Guests \X Units \X Values)

(* A guest that runs with CU1 or MX finds its own registers in the unit: no   *)
(* order of exceptions, switches and restarts leaves the bit in a frame that *)
(* is entered while another guest owns the unit (scheduler.c clears it at    *)
(* every switch, do_cu sets it with the owner).                             *)
BitIsOwners ==
  \A u \in Units : current \in enabled[u] => owner[u] = current

\* The registers of a guest, wherever they are.
Regs ==
  [u \in Units |-> [g \in Guests |-> IF owner[u] = g THEN live[u] ELSE saved[u][g]]]

Private == INSTANCE PrivateRegisters WITH regs <- Regs

(* Each guest has FPU and DSP registers of its own (do_cu, do_dsp and the     *)
(* switch keep them through any sequence of other guests' use).              *)
AsPrivate == Private!Spec

(* "maintain FPU registers access with lazy (delayed) save/restore logic"     *)
(* (exception.c:277-279): the instruction that a running guest came to is     *)
(* executed, on that guest's registers, before the guest goes on.           *)
InstructionsAreExecuted ==
  [][\A g \in Guests, u \in Units, v \in Values :
       /\ current = g
       /\ wants[g] = [unit |-> u, value |-> v]
       /\ wants'[g] = NoInsn
       => seen' = {<<g, u, Regs[u][g]>>} /\ Regs'[u][g] = v]_vars

=============================================================================
