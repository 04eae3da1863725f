------------------------- MODULE VirtualInterrupts -------------------------
(***************************************************************************)
(* Interrupt virtualisation of tinyVP: the virtual interrupt controller    *)
(* each guest thread owns (ic.c), the injection of one virtual IRQ at a    *)
(* time through GuestCtl2 (eic.c), the real controller underneath, and the *)
(* thread switches that save and restore the injection registers           *)
(* (scheduler.c).                                                          *)
(*                                                                         *)
(* Root handlers run to completion with Status.IE = 0 (start.S clears IE   *)
(* on entry and no handler sets it), so one action is one whole handler.   *)
(* What interleaves is: devices, guest instructions, root interrupts and   *)
(* the hardware's own delivery of an injected IRQ.                         *)
(***************************************************************************)
EXTENDS Integers, FiniteSets

CONSTANTS
  Guests,       \* guest threads, the numbers 1..MAX_NUM_THREAD in vm_list
  PassThrough,  \* IRQs of the devices given to one guest each
  Soft,         \* IRQs of the pure virtual device "interrupt" (sw0, sw1)
  Timer,        \* IC_TIMER_IRQ, the guest's CP0 COMPARE interrupt
  ConRx, ConTx, \* console_irq_rx and console_irq_tx, emulated for every guest
  Owner,        \* irq2vm: the guest a pass-through IRQ belongs to
  Ipl,          \* IPC: the level the guests program for each IRQ at start-up
  Words,        \* the IFS/IEC words in use, each a set of IRQs
  Polling,      \* guests configured with irqpolling (VM_OPTION_POLLING)
  Levels,       \* the values guests give their Status.IPL
  WriteOps,     \* the IC register addresses guests use, of the four below
  SelfRaised,   \* IRQs whose IFS flag guests set by a store
  Commands,     \* the root console commands in use
  Debugged,     \* guests whose debug flag is on at the root console
  TxUsed,       \* TRUE when guests may enable the console transmitter
  NoIrq         \* the -1 of injected_irq, the zero of GuestCtl2

Root == 0       \* thread 0, the hypervisor's own main loop
Threads == {Root} \cup Guests
Emulated == Soft \cup {Timer, ConRx, ConTx}
Irqs == PassThrough \cup Emulated
InUse == UNION Words   \* an IRQ outside it never fires in the instance

ASSUME GuestsAssumption == Guests \subseteq Nat \ {Root}
ASSUME IrqsAssumption ==
  /\ PassThrough \cap Emulated = {}
  /\ NoIrq \notin Irqs
  /\ Timer \notin Soft \cup {ConRx, ConTx}
  /\ ConRx # ConTx
  /\ Owner \in [PassThrough -> Guests]
  /\ Ipl \in [Irqs -> 1 .. 7]
ASSUME UseAssumption ==
  /\ Words \subseteq SUBSET Irqs
  /\ Polling \subseteq Guests
  /\ Levels \subseteq 0 .. 7
  /\ WriteOps \subseteq {"WR", "CLR", "SET", "INV"}
  /\ SelfRaised \subseteq Irqs
  /\ Commands \subseteq {"s", "c", "r"}
  /\ Debugged \subseteq Guests
  /\ TxUsed \in BOOLEAN

VARIABLES
  current,          \* the running thread
  running,          \* guests with THREAD_FLAGS_RUNNING
  stopped,          \* guests with THREAD_FLAGS_STOPPED
  vIFS, vIEC,       \* vmdev.vmic of each guest: IRQs flagged, IRQs enabled
  rIFS, rIEC,       \* the same two registers of the real controller
  injected_irq,     \* per guest, the IRQ it was last given and may not have taken
  interrupted_irq,  \* per guest, what its INTSTAT register reads
  live,             \* GuestCtl2.GRIPL and not GuestCtl0Ext.FCD, in the CPU
  saved,            \* the same two fields in each guest's thread structure
  g_ipl,            \* per guest, Guest.Status.IPL
  g_open,           \* per guest, IE set with EXL and ERL clear
  g_ti,             \* per guest, Guest.Cause.TI
  timer_active,     \* guests whose timer_array entry is queued
  tx_on,            \* guests whose emulated UART can transmit (UxSTA, UxMODE)
  taken             \* history: the IRQ each guest's CPU last vectored to

vmic      == <<vIFS, vIEC>>
real      == <<rIFS, rIEC>>
flags     == <<running, stopped>>
injection == <<injected_irq, interrupted_irq, live, saved>>
gcpu      == <<g_ipl, g_open, taken>>
gtimer    == <<g_ti, timer_active>>
vars == <<current, flags, vmic, real, injection, gcpu, gtimer, tx_on>>

Quiet == [gripl |-> NoIrq, nofcd |-> FALSE]

Init ==
  /\ current = Root
  /\ running = Guests
  /\ stopped = {}
  /\ vIFS = [g \in Guests |-> {}]
  /\ vIEC = [g \in Guests |-> {}]
  /\ rIFS = {}
  /\ rIEC = {}
  /\ injected_irq = [g \in Guests |-> NoIrq]
  /\ interrupted_irq = [g \in Guests |-> NoIrq]
  /\ live = Quiet
  /\ saved = [g \in Guests |-> Quiet]
  /\ g_ipl = [g \in Guests |-> 0]
  /\ g_open = [g \in Guests |-> FALSE]
  /\ g_ti = [g \in Guests |-> FALSE]
  /\ timer_active = {}
  /\ tx_on = {}
  /\ taken = [g \in Guests |-> NoIrq]

-----------------------------------------------------------------------------
(* The injection state of one guest, as a record, and what eic.c does to it *)

GuestCtl(g) == IF g = current THEN live ELSE saved[g]

Injection(g) == [inj   |-> injected_irq[g],
                 intr  |-> interrupted_irq[g],
                 gripl |-> GuestCtl(g).gripl,
                 nofcd |-> GuestCtl(g).nofcd]

\* The guest took the injected IRQ: the CPU cleared GRIPL, root does not know yet.
Unnoticed(s) == s.inj # NoIrq /\ s.gripl = NoIrq

\* Fault: INTSTAT is not told.
NoticedForgetting(s) == IF Unnoticed(s) THEN [s EXCEPT !.inj = NoIrq] ELSE s

Noticed(s) ==
  IF Unnoticed(s) THEN [s EXCEPT !.inj = NoIrq, !.intr = s.inj] ELSE s

\* The IRQs of the highest level in a set (ties: any of them).
Highest(pending) == {i \in pending : \A j \in pending : Ipl[j] <= Ipl[i]}

\* Fault: nothing is picked up after a cancel.
CancelledOnly(s, pending) ==
  {[s EXCEPT !.inj = NoIrq, !.gripl = NoIrq, !.nofcd = FALSE]}

\* pickup_irq followed by the rest of cancel_inject_IRQ.
Cancelled(s, pending) ==
  IF pending = {}
  THEN {[s EXCEPT !.inj = NoIrq, !.gripl = NoIrq, !.nofcd = FALSE]}
  ELSE {[s EXCEPT !.inj = i, !.gripl = i] : i \in Highest(pending)}

Outranked(s, i) == s.inj # NoIrq /\ Ipl[s.inj] >= Ipl[i]

\* Fault: GHFC tracking is not switched on.
InsertedUntracked(g, s, i) ==
  LET n == Noticed(s) IN
  IF Outranked(n, i) THEN n ELSE [n EXCEPT !.inj = i, !.gripl = i]

\* insert_IRQ up to the point where it chooses which registers to write.
Inserted(g, s, i) ==
  LET n == Noticed(s) IN
  IF Outranked(n, i) THEN n
  ELSE [inj |-> i, intr |-> n.intr, gripl |-> i,
        nofcd |-> n.nofcd \/ g \notin Polling]

\* A guest's own handler changed its injection state to s: the CPU holds it.
SetCurrent(s) ==
  /\ injected_irq' = [injected_irq EXCEPT ![current] = s.inj]
  /\ interrupted_irq' = [interrupted_irq EXCEPT ![current] = s.intr]
  /\ live' = [gripl |-> s.gripl, nofcd |-> s.nofcd]
  /\ UNCHANGED saved

-----------------------------------------------------------------------------
(* Thread switches *)

\* Fault: the registers of the guest left are not saved.
ParkedNever == saved

\* The registers switch_to_thread parks for the guest it leaves.
Parked == IF current \in Guests THEN [saved EXCEPT ![current] = live] ELSE saved

\* switch_to_thread(t) for t other than the current thread.
SwitchTo(t) ==
  /\ t \notin stopped
  /\ current' = t
  /\ saved' = Parked
  /\ live' = IF t \in Guests THEN saved[t]
             ELSE IF current \in Guests THEN [live EXCEPT !.nofcd = FALSE]
             ELSE live

Runnable(r) == r \ stopped

\* Fault: the thread that gave up the CPU stays RUNNING, whichever it is.
RescheduleKeeping(r) ==
  /\ running' = r \cup {current}
  /\ \E t \in IF Runnable(r) = {} THEN {Root} ELSE Runnable(r) :
       IF t = current THEN UNCHANGED <<current, live, saved>> ELSE SwitchTo(t)

\* reschedule() with the RUNNING set r: which of the runnable guests wins is
\* left open here; thread 0 only when there is none.
RescheduleWith(r) ==
  /\ running' = r
  /\ \E t \in IF Runnable(r) = {} THEN {Root} ELSE Runnable(r) :
       IF t = current THEN UNCHANGED <<current, live, saved>> ELSE SwitchTo(t)

-----------------------------------------------------------------------------
(* insert_IRQ and the handlers that end in it *)

\* Fault: a waiting guest is not made RUNNING by its IRQ.
WokenNever(g, queued) == running

Woken(g, queued) == IF queued THEN running ELSE running \cup {g}

\* insert_IRQ(g, i).  A guest that is not current gets the IRQ in its saved
\* registers, unless its own IPL hides the IRQ: then root switches to it first.
\* The switch reports success even when the guest is stopped and nothing moved.
InsertIRQ(g, i) ==
  LET s == Inserted(g, Injection(g), i)
      queued == Outranked(Noticed(Injection(g)), i)
      ctl == [gripl |-> s.gripl, nofcd |-> s.nofcd]
      here == g = current
      park == ~here /\ g_ipl[g] < Ipl[i]
  IN
  /\ injected_irq' = [injected_irq EXCEPT ![g] = s.inj]
  /\ interrupted_irq' = [interrupted_irq EXCEPT ![g] = s.intr]
  /\ running' = Woken(g, queued)
  /\ UNCHANGED stopped
  /\ \/ /\ queued
        /\ UNCHANGED <<current, live, saved>>
     \/ /\ ~queued /\ park
        /\ saved' = [saved EXCEPT ![g] = ctl]
        /\ UNCHANGED <<current, live>>
     \/ /\ ~queued /\ here
        /\ live' = ctl
        /\ UNCHANGED <<current, saved>>
     \/ /\ ~queued /\ ~here /\ ~park /\ g \notin stopped
        /\ current' = g
        /\ saved' = Parked
        /\ live' = [gripl |-> i, nofcd |-> saved[g].nofcd \/ g \notin Polling]
     \/ /\ ~queued /\ ~here /\ ~park /\ g \in stopped
        /\ live' = [gripl |-> i, nofcd |-> live.nofcd \/ g \notin Polling]
        /\ UNCHANGED <<current, saved>>

\* insert_sw_irq, then enforce_irq.
RaiseVirtual(g, i) ==
  /\ vIFS' = [vIFS EXCEPT ![g] = @ \cup {i}]
  /\ UNCHANGED vIEC
  /\ IF i \in vIEC[g]
     THEN InsertIRQ(g, i)
     ELSE UNCHANGED <<current, flags, injection>>

\* A device flags its IRQ in the real controller.
DeviceRaise(i) ==
  /\ i \in InUse
  /\ i \notin rIFS
  /\ rIFS' = rIFS \cup {i}
  /\ UNCHANGED <<current, flags, vmic, rIEC, injection, gcpu, gtimer, tx_on>>

\* do_IRQ, execute_IRQ: the real IRQ is masked and handed to its owner.
ExecuteIRQ(i) ==
  /\ i \in rIFS \cap rIEC
  /\ rIEC' = rIEC \ {i}
  /\ RaiseVirtual(Owner[i], i)
  /\ UNCHANGED <<rIFS, gcpu, gtimer, tx_on>>

\* console_rx for a character typed at guest g.
ConsoleRx(g) ==
  /\ ConRx \in InUse
  /\ RaiseVirtual(g, ConRx)
  /\ UNCHANGED <<real, gcpu, gtimer, tx_on>>

\* time_irq, handle_event and execute_timer_IRQ: the timer of guest g is due.
TimeIrq(g) ==
  /\ g \in timer_active
  /\ timer_active' = timer_active \ {g}
  /\ g_ti' = [g_ti EXCEPT ![g] = TRUE]
  /\ RaiseVirtual(g, Timer)
  /\ UNCHANGED <<real, gcpu, tx_on>>

\* The scheduler tick, and the wait system call of thread 0.
Reschedule ==
  /\ RescheduleWith(running)
  /\ UNCHANGED <<stopped, vmic, real, injected_irq, interrupted_irq, gcpu, gtimer, tx_on>>

\* console_rx for a character typed at root: thread 0 runs at once.
RootInput ==
  /\ current # Root
  /\ SwitchTo(Root)
  /\ UNCHANGED <<flags, vmic, real, injected_irq, interrupted_irq, gcpu, gtimer, tx_on>>

-----------------------------------------------------------------------------
(* Root console commands of main.c, run by thread 0 *)

Stop(g) ==
  /\ current = Root /\ "s" \in Commands
  /\ running' = running \ {g}
  /\ stopped' = stopped \cup {g}
  /\ UNCHANGED <<current, vmic, real, injection, gcpu, gtimer, tx_on>>

Continue(g) ==
  /\ current = Root /\ "c" \in Commands
  /\ running' = running \cup {g}
  /\ stopped' = stopped \ {g}
  /\ UNCHANGED <<current, vmic, real, injection, gcpu, gtimer, tx_on>>

\* init_thread clears the thread structure, or in debug mode all of it but the
\* flags: then a guest that was not RUNNING is not made so.  The real
\* controller, the timer queue and the emulated UART registers are outside it.
Restart(g) ==
  /\ current = Root /\ "r" \in Commands
  /\ running' = IF g \in Debugged THEN running ELSE running \cup {g}
  /\ stopped' = stopped \ {g}
  /\ vIFS' = [vIFS EXCEPT ![g] = {}]
  /\ vIEC' = [vIEC EXCEPT ![g] = {}]
  /\ injected_irq' = [injected_irq EXCEPT ![g] = NoIrq]
  /\ interrupted_irq' = [interrupted_irq EXCEPT ![g] = NoIrq]
  /\ saved' = [saved EXCEPT ![g] = Quiet]
  /\ g_ipl' = [g_ipl EXCEPT ![g] = 0]
  /\ g_open' = [g_open EXCEPT ![g] = FALSE]
  /\ g_ti' = [g_ti EXCEPT ![g] = FALSE]
  /\ taken' = [taken EXCEPT ![g] = NoIrq]
  /\ UNCHANGED <<current, real, live, timer_active, tx_on>>

-----------------------------------------------------------------------------
(* What the running guest does.  A pending GHFC exception comes first. *)

GhfcPending == current \in Guests /\ live.nofcd /\ Unnoticed(Injection(current))

GuestRuns == current \in Guests /\ ~GhfcPending

\* pickup_irq looks at Cause.TI before it looks at the vIFS words.
Flagged(g, ifs) == ifs \cup (IF g_ti[g] THEN {Timer} ELSE {})

Applied(op, reg, v, own) ==
  CASE op = "WR"  -> (reg \ own) \cup v
    [] op = "CLR" -> reg \ v
    [] op = "SET" -> reg \cup v
    [] op = "INV" -> (reg \ v) \cup (v \ reg)

\* The bits ic_end_irq takes as cleared; new is the virtual register after
\* the write, old the real one before it.
EndedIrqs(op, v, own, new, old) ==
  CASE op = "WR"  -> own \ v
    [] op = "CLR" -> v
    [] op = "SET" -> {}
    [] op = "INV" -> {i \in own : (i \in v) <=> (i \in new \cup (old \cap PassThrough))}

\* Fault: a device stays masked after the guest acknowledged its IRQ.
UnmaskNever(ended, iec) == rIEC

\* ic_end_irq after an IFS store: the real IEC is the virtual one again for
\* the acknowledged IRQs.
Unmasked(ended, iec) ==
  (rIEC \ (ended \cap PassThrough)) \cup (iec \cap ended \cap PassThrough)

\* The IRQs the emulators' IC write hooks offer for injection after a store to
\* word w.  Faults: one of the hooks is missing.
SoftOfferedNever(w, ifs, iec) == {}
SoftOffered(w, ifs, iec) == {i \in w \cap Soft : i \in ifs \cap iec}

TimerOfferedNever(g, w, iec) == {}
TimerOffered(g, w, iec) == {i \in w \cap {Timer} : g_ti[g] /\ i \in iec}

ConsoleOfferedNever(g, w, ifs, iec) == {}
ConsoleOffered(g, w, ifs, iec) ==
  IF g \in tx_on THEN IF w \cap {ConRx, ConTx} # {} THEN iec \cap {ConTx} ELSE {}
  ELSE w \cap {ConRx} \cap ifs \cap iec

Offered(g, w, ifs, iec) ==
  SoftOffered(w, ifs, iec) \cup TimerOffered(g, w, iec) \cup ConsoleOffered(g, w, ifs, iec)

\* The hooks, in any order of equal levels.
AfterHooks(g, s, offered) ==
  IF offered = {} THEN {s} ELSE {Inserted(g, s, i) : i \in Highest(offered)}

\* A store to an IFS (reg = "IFS") or IEC register: ic_emulator,
\* emulate_write_ic, ic_end_irq and the hooks.  v is the stored value, of
\* which only the bits of the guest's own IRQs count.  A store to the register
\* itself reads the real word (ic.c:708) and writes it back (ic.c:728): a flag the
\* hardware sets in between is lost, as if that device had not asked.
GuestWrite(reg, op, w, v) ==
  LET g     == current
      own   == {i \in w : i \in Emulated \/ Owner[i] = g}
      vold  == IF reg = "IFS" THEN vIFS[g] ELSE vIEC[g]
      vnew  == Applied(op, vold, v, own)
      ended == EndedIrqs(op, v, own, vnew, IF reg = "IFS" THEN rIFS ELSE rIEC)
      ifs0  == IF reg = "IFS" THEN vnew ELSE vIFS[g]
      iec   == IF reg = "IEC" THEN vnew ELSE vIEC[g]
      ends  == injected_irq[g] \in ended
      ifs1  == IF ends THEN Flagged(g, ifs0) ELSE ifs0
      ifs2  == IF g \in tx_on /\ w \cap {ConRx, ConTx} # {} THEN ifs1 \cup {ConTx} ELSE ifs1
      pt    == own \cap PassThrough
  IN
  /\ GuestRuns
  /\ v \subseteq own
  /\ reg = "IFS" => vnew \ vold \subseteq SelfRaised
  /\ vIFS' = [vIFS EXCEPT ![g] = ifs2]
  /\ vIEC' = [vIEC EXCEPT ![g] = iec]
  /\ \E s1 \in IF ends THEN Cancelled(Injection(g), ifs1 \cap iec) ELSE {Injection(g)} :
     \E s2 \in AfterHooks(g, s1, Offered(g, w, ifs2, iec)) : SetCurrent(s2)
  /\ \/ /\ reg = "IFS"
        /\ rIFS' = Applied(op, rIFS, v \cap PassThrough, pt)
        /\ rIEC' = Unmasked(ended, iec)
     \/ /\ reg = "IEC"
        /\ rIEC' = Applied(op, rIEC, v \cap PassThrough, pt)
        /\ UNCHANGED rIFS
  /\ UNCHANGED <<current, flags, gcpu, gtimer, tx_on>>

\* WAIT: do_gpsi gives the CPU away unless something is injected.
GuestWait ==
  /\ GuestRuns
  /\ injected_irq[current] = NoIrq
  /\ RescheduleWith(running \ {current})
  /\ UNCHANGED <<stopped, vmic, real, injected_irq, interrupted_irq, gcpu, gtimer, tx_on>>

\* The CPU delivers the injected IRQ: Guest.Status.EXL set, GRIPL cleared.
GuestTake ==
  /\ GuestRuns
  /\ live.gripl # NoIrq /\ Ipl[live.gripl] > g_ipl[current] /\ g_open[current]
  /\ live' = [live EXCEPT !.gripl = NoIrq]
  /\ g_open' = [g_open EXCEPT ![current] = FALSE]
  /\ taken' = [taken EXCEPT ![current] = live.gripl]
  /\ UNCHANGED <<current, flags, vmic, real, injected_irq, interrupted_irq, saved,
                 g_ipl, gtimer, tx_on>>

\* ERET, EI and DI, and stores to Guest.Status.
GuestOpen(on) ==
  /\ GuestRuns
  /\ g_open[current] # on
  /\ g_open' = [g_open EXCEPT ![current] = on]
  /\ UNCHANGED <<current, flags, vmic, real, injection, g_ipl, taken, gtimer, tx_on>>

GuestSetIpl(l) ==
  /\ GuestRuns
  /\ g_ipl[current] # l
  /\ g_ipl' = [g_ipl EXCEPT ![current] = l]
  /\ UNCHANGED <<current, flags, vmic, real, injection, g_open, taken, gtimer, tx_on>>

\* The end of the COUNT, COMPARE and GHFC emulation, with the guest's injection
\* state s, virtual IFS ifs and Cause.TI ti so far: a timer that is late already
\* (recalculate_late_timer) is raised now, another one is queued.
StartTimer(late, s, ifs, ti) ==
  /\ vIFS' = [vIFS EXCEPT ![current] = ifs \cup (IF late THEN {Timer} ELSE {})]
  /\ g_ti' = [g_ti EXCEPT ![current] = ti \/ late]
  /\ timer_active' = IF late THEN timer_active ELSE timer_active \cup {current}
  /\ SetCurrent(IF late /\ Timer \in vIEC[current] THEN Inserted(current, s, Timer) ELSE s)
  /\ UNCHANGED <<current, flags, vIEC, real, gcpu, tx_on>>

\* do_EXC, case GHFC: the injected IRQ was taken; record it for INTSTAT, put
\* the next one in its place and restart the timer after a timer IRQ.
GuestGHFC(late) ==
  LET irq == injected_irq[current]
      s0  == [Injection(current) EXCEPT !.intr = irq]
      ifs == Flagged(current, vIFS[current])
  IN
  /\ GhfcPending
  /\ \E s1 \in Cancelled(s0, ifs \cap vIEC[current]) :
       \/ /\ irq = Timer
          /\ StartTimer(late, s1, ifs, g_ti[current])
       \/ /\ irq # Timer
          /\ SetCurrent(s1)
          /\ vIFS' = [vIFS EXCEPT ![current] = ifs]
          /\ UNCHANGED <<current, flags, vIEC, real, gcpu, gtimer, tx_on>>

\* Fault: COMPARE is moved while its IRQ stays injected.
WriteCompareKeeping(late) ==
  /\ GuestRuns /\ Timer \in InUse
  /\ StartTimer(late, Injection(current), vIFS[current] \ {Timer}, FALSE)

\* MTC0 COMPARE: the pending timer IRQ goes away, the new one is started.
WriteCompare(late) ==
  LET ifs == vIFS[current] \ {Timer}
      s0  == Injection(current)
  IN
  /\ GuestRuns /\ Timer \in InUse
  /\ \E s1 \in IF s0.inj = Timer THEN Cancelled(s0, ifs \cap vIEC[current]) ELSE {s0} :
       StartTimer(late, s1, ifs, FALSE)

\* MTC0 COUNT queues the timer; MFC0 COUNT raises it when it is late.
AccessCount(late) ==
  /\ GuestRuns /\ Timer \in InUse
  /\ StartTimer(late, Injection(current), vIFS[current], g_ti[current])

\* The CPU sets Guest.Cause.TI when the running guest's COUNT meets COMPARE,
\* about the time root's own timer event for that guest is due.
CountMeetsCompare ==
  /\ current \in timer_active
  /\ ~g_ti[current]
  /\ g_ti' = [g_ti EXCEPT ![current] = TRUE]
  /\ UNCHANGED <<current, flags, vmic, real, injection, gcpu, timer_active, tx_on>>

\* A store to the emulated UART, which always has room to transmit.
ConsoleWrite(on) ==
  /\ GuestRuns
  /\ on => TxUsed
  /\ ConTx \in InUse
  /\ IF on
     THEN tx_on' = tx_on \cup {current} /\ RaiseVirtual(current, ConTx)
     ELSE tx_on' = tx_on \ {current} /\ UNCHANGED <<current, flags, vmic, injection>>
  /\ UNCHANGED <<real, gcpu, gtimer>>

-----------------------------------------------------------------------------
RootStep ==
  \/ \E i \in PassThrough : ExecuteIRQ(i)
  \/ \E g \in Guests : ConsoleRx(g) \/ TimeIrq(g)
  \/ Reschedule
  \/ RootInput
  \/ \E g \in Guests : Stop(g) \/ Continue(g) \/ Restart(g)

GuestStep ==
  \/ \E w \in Words, op \in WriteOps : \E v \in SUBSET w :
       GuestWrite("IFS", op, w, v) \/ GuestWrite("IEC", op, w, v)
  \/ GuestWait
  \/ GuestTake
  \/ \E on \in BOOLEAN : GuestOpen(on) \/ ConsoleWrite(on)
  \/ \E l \in Levels : GuestSetIpl(l)
  \/ \E late \in BOOLEAN : GuestGHFC(late) \/ WriteCompare(late) \/ AccessCount(late)
  \/ CountMeetsCompare

Next ==
  \/ \E i \in PassThrough : DeviceRaise(i)
  \/ RootStep
  \/ GuestStep

Spec == Init /\ [][Next]_vars

-----------------------------------------------------------------------------
TypeOK ==
  /\ current \in Threads
  /\ running \subseteq Guests /\ stopped \subseteq Guests
  /\ vIFS \in [Guests -> SUBSET Irqs] /\ vIEC \in [Guests -> SUBSET Irqs]
  /\ rIFS \subseteq PassThrough /\ rIEC \subseteq PassThrough
  /\ injected_irq \in [Guests -> Irqs \cup {NoIrq}]
  /\ interrupted_irq \in [Guests -> Irqs \cup {NoIrq}]
  /\ live \in [gripl : Irqs \cup {NoIrq}, nofcd : BOOLEAN]
  /\ saved \in [Guests -> [gripl : Irqs \cup {NoIrq}, nofcd : BOOLEAN]]
  /\ g_ipl \in [Guests -> 0 .. 7] /\ g_open \in [Guests -> BOOLEAN]
  /\ g_ti \in [Guests -> BOOLEAN]
  /\ timer_active \subseteq Guests /\ tx_on \subseteq Guests
  /\ taken \in [Guests -> Irqs \cup {NoIrq}]

(* GuestCtl2 of the running guest, and the copy saved for every other one,  *)
(* asks for no other IRQ than the one eic.c last injected into that guest:  *)
(* no guest is interrupted on behalf of another one.                        *)
RequestIsOwn ==
  \A g \in Guests : GuestCtl(g).gripl \in {NoIrq, injected_irq[g]}

(* An IRQ the guest has acknowledged (IFS), disabled (IEC) or, for the      *)
(* timer, moved (COMPARE) is no longer injected (ic_end_irq, MTC0 COMPARE). *)
InjectedIsPending ==
  \A g \in Guests : injected_irq[g] # NoIrq =>
    /\ injected_irq[g] \in vIEC[g]
    /\ injected_irq[g] \in Flagged(g, vIFS[g])

(* execute_IRQ masks a device's IRQ in the real controller; while the owner *)
(* keeps it enabled, it stays masked no longer than the owner leaves its    *)
(* flag set.  A stuck mask would silence the device for ever.               *)
NoStuckMask ==
  \A i \in PassThrough :
    i \in vIEC[Owner[i]] \ rIEC => i \in vIFS[Owner[i]]

\* Root is about to get the real interrupt of some pending IRQ of guest g.
RealPending(g) ==
  \E i \in PassThrough \cap rIFS \cap rIEC : Owner[i] = g

(* Whatever the order of devices, masks, acknowledgements and switches, a   *)
(* guest with an IRQ flagged and enabled has one injected, or root is about *)
(* to inject one: cancel_inject_IRQ and the hooks never drop the last one.  *)
NoLostInterrupt ==
  \A g \in Guests : vIFS[g] \cap vIEC[g] # {} =>
    injected_irq[g] # NoIrq \/ RealPending(g)

(* The same for a timer that has expired in the CPU.                        *)
NoLostTimer ==
  \A g \in Guests : g_ti[g] /\ Timer \in vIEC[g] =>
    injected_irq[g] # NoIrq \/ g \in timer_active

(* The emulated transmitter always has room: while a guest keeps it on and   *)
(* its IRQ enabled, the guest is being asked for characters (console_ic).    *)
TransmitterAsks ==
  \A g \in tx_on : ConTx \in vIEC[g] =>
    ConTx \in vIFS[g] /\ injected_irq[g] # NoIrq

(* A guest that gave up the CPU by WAIT sleeps only while nothing is        *)
(* injected into it: every injection made it RUNNING again.                 *)
SleeperHasNothing ==
  \A g \in Guests : g \notin running \cup stopped \cup {current} =>
    injected_irq[g] = NoIrq

(* Until root hears that a guest with interrupt handlers took its IRQ, GHFC *)
(* tracking stays on, so root will hear of it.                              *)
TakenIsTracked ==
  \A g \in Guests \ Polling : injected_irq[g] # NoIrq => GuestCtl(g).nofcd

(* A guest's interrupt handler that reads INTSTAT finds the IRQ its CPU     *)
(* vectored to, whatever was injected since.                                *)
IntStatIsTaken ==
  \A g \in Guests \ Polling :
    interrupted_irq[g] = taken[g] \/ Unnoticed(Injection(g))

-----------------------------------------------------------------------------
(* Fairness for liveness.  Root: an interrupt the real controller asks for   *)
(* is served.  A guest that owns a device: each time it has the CPU anew, it  *)
(* may enable interrupts, lower its IPL to 0 while they are enabled, take     *)
(* what is injected and exit by GHFC; of what it may do again and again,      *)
(* something is done.  Other guests, and the scheduler, owe nothing here.     *)
DeviceOwners == {Owner[i] : i \in PassThrough}

FairSpec ==
  /\ Spec
  /\ \A i \in PassThrough : WF_vars(ExecuteIRQ(i))
  /\ \A g \in DeviceOwners :
       /\ SF_vars(current = g /\ GuestOpen(TRUE))
       /\ SF_vars(current = g /\ g_open[g] /\ GuestSetIpl(0))
       /\ SF_vars(current = g /\ GuestTake)
       /\ SF_vars(current = g /\ GuestGHFC(FALSE))

\* The root console does not leave g stopped, and a guest that is ready again
\* and again gets the CPU again and again.  reschedule does not promise the
\* second: its weights (scheduler.c:221-241) may pass over a guest for ever.
Scheduled(g) ==
  /\ []<>(g \notin stopped)
  /\ []<>(g \in running \ stopped) => []<>(current = g)

\* g has just taken an IRQ that is at least as urgent as i.
TakesAtLeast(g, i) ==
  Unnoticed(Injection(g)) /\ Ipl[injected_irq[g]] >= Ipl[i]

(* A guest whose device IRQ is flagged and enabled takes it, or others at     *)
(* least as urgent, unless it acknowledges or disables it first (by polling). *)
(* Masks, injections into a guest that is away, waits or is stopped, cancels  *)
(* and switches never hold up or forget the IRQ of a guest that gets the CPU  *)
(* whenever it is ready; that it is made ready is part of the claim.          *)
DeviceServed ==
  \A i \in PassThrough :
    Scheduled(Owner[i]) =>
      (i \in rIFS \cap vIEC[Owner[i]] ~>
         i \notin rIFS \cap vIEC[Owner[i]] \/ TakesAtLeast(Owner[i], i))

=============================================================================
