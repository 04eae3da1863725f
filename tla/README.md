# A TLA+ model of tinyVP

tinyVP is a small hypervisor for the MIPS VZ cores of the PIC32MZ family: guests
run in their own virtual CPUs, devices are handed to guests whole (pass-through)
or emulated, and the hypervisor — *root* — owns the exceptions, the interrupt
controller, the timer, one UART and the TLB.  This directory holds TLA+ modules
that model its control logic, TLC configurations that check them on small
instances, and proofs that TLAPS checks.  Paths below are those of the
repository.

## 1. Inventory

| Component | Code | State it keeps | Operations |
|---|---|---|---|
| Virtual interrupt controller | `ic.c`, `eic.c` | per guest: virtual IFS/IEC/IPC/OFF, `injected_irq`, `interrupted_irq`, saved `GuestCtl2`; shared: real IFS/IEC | store to IFS/IEC through the four addresses WR/CLR/SET/INV, read, `do_IRQ`, `insert_IRQ`, `_eic_*`, timer and console hooks |
| Exception handler | `exception.c` | frame, guest CP0 context, guest time (`lcompare`, `last_used_lcount`, `lcount2read`), `fpu_owner`, `dsp_owner` | WAIT, GHFC, GPSI and GSFC (MFC0/MTC0), hypercalls, FPU and DSP enable, TLB refill/modify |
| Scheduler | `scheduler.c` | `current`, `thread_flags`, `reschedule_count`, saved CP0 context | `switch_to_thread`, `request_switch_to_thread`, `reschedule`, `wait_thread`, `init_thread` |
| Entry, exit, `wait()` | `start.S` | frames, stack, CP0 Context | two kinds of entry and exit, `wait`, TLB refill, FPU/DSP save and restore |
| Root thread | `main.c` | `current_vm`, `reschedule_flag`, debug flags | input loop and the commands stop, continue, restart, debug, print |
| Console emulation | `console.c` | input ring per VM, emulated UART registers, `console_rx_vmid` | typed character, escape, receive/transmit registers, their IRQs |
| Root UART, log | `uart.c`, `log.c`, `printf.c` | UART FIFO, log ring | receive IRQ, transmit IRQ, write to the log |
| Timers | `time.c`, `time.h` | sorted queue, 64-bit count and wall time, COMPARE | `timer_request`, `timer_g_irq_reschedule`, `time_irq`, `time_set_timer` |
| TLB and access emulation | `tlb.c`, `start.S` | two caches of table entries | `do_TLB`, bitmask test, device emulators |
| Configurator | `build-scripts/vz-conf.py` | region lists, page lists, tables | split to pages, join pairs, bitmasks, tree |
| Instruction emulation | `exception.c`, `tlb.c`, `branch.c` | the frame | load, store, CP0 moves; where the guest goes on, also from a delay slot |
| The rest | `vzparser.py`, `vz-map.py`, `platforms/*`, `sba.c`, `boot.S`, `boards/*`, guests | none, or constants written once | parsing, generated tables, start-up |


**How they interact.** Every entry to root comes from an exception of the
running guest, from a root interrupt, or from thread 0's system call in
`wait()`; the handler runs with `Status.IE = 0` to its end.  A device's interrupt
goes `do_IRQ` → `insert_IRQ`, which sets the guest's virtual IFS bit and masks the real
one, and either writes GuestCtl2 of the running guest, or the saved one of a
guest that is not running.  A switch exchanges the live and the saved registers.
Stores of a guest to its controller trap, and `ic_end_irq`/`ic_start_irq` decide
which injections to cancel and which to begin.  The UART's receive interrupt
puts characters in the ring of the selected VM and requests that VM's virtual receive
IRQ, or wakes thread 0.  `time_irq` calls `reschedule` for the tick and
`execute_timer_IRQ` for a guest's COMPARE.  The Configurator runs at build time;
its page tables are what `TLB_refill` and `do_TLB` walk.  A guest's COUNT and
COMPARE are trapped and become requests to the root's timer queue.  The FPU and the DSP
extension belong to the guest that used them last, until another guest's use traps.

**What is hard here.** Root learns only at the next exit that a guest took its
IRQ.  Three places record one fact (virtual IFS, `injected_irq`, GuestCtl2), in two copies
each across switches.  Thread 0 can be interrupted in its own code, when a thread switch
would resume the wrong context, and inside `wait()`, when it must switch.  The
timer queue changes under its own loop while COUNT goes on.  The configurator
pairs, splits and extends pages in several sizes.  A guest's 32-bit COUNT and COMPARE stand for 64-bit
moments that are guessed from what it has seen, also when it was away for longer than they can tell.
An emulated instruction in a delay slot must not disturb the branch it belongs to.
The log is written under, and by, the transmitter that empties it.  `PROJECT.json` lists each
hazard at its line with the property that guards it.

**What makes each part correct.**
A flagged and enabled IRQ of a guest reaches that guest, once, and nobody else;
no device stays masked; each thread resumes its own context; input reaches the
VM it is meant for, in order, and its reader is told; timers fire neither early nor late, and so does a guest's own; an
emulated instruction does what the CPU's would, on FPU and DSP registers that are the guest's own; a guest
reaches exactly the words its configuration names, with the device it names.

## 2. Modules

| Module | Models | Kind |
|---|---|---|
| `VirtualInterrupts` | `ic.c`, `eic.c`, the WAIT/GHFC/CP0 exits of `exception.c`, switches, restart, console and timer IRQ hooks | the core: one action per handler |
| `RootThread` | `start.S` entry/exit/`wait()`, `main.c` loop, `reschedule`, root interrupts | thread 0 step by step |
| `InputQueues` | what the console's input promises: a bounded queue per VM | abstract specification |
| `ConsoleInput` | `console.c` rings, escape, receive register and IRQ | refines `InputQueues` |
| `TimerQueue` | `time.c` | queue at the level of its links, COMPARE, COUNT running under handlers |
| `PageTables` | `vz-conf.py` (as operators) and the walk of `TLB_refill`/`do_TLB` | pure: recursive functions over the places of a list, the levels of a tree, the steps of a walk |
| `Configurator` | the script as a state machine: accept or refuse, then tables; and what the region lists say of them | over many configurations |
| `PageFaults` | `do_TLB` with its two caches | guests that run on the tables `Configurator` made |
| `GuestClock` | what a guest is promised about its COUNT and COMPARE | abstract specification |
| `GuestTime` | MFC0/MTC0 of COUNT and COMPARE, late timers, the timer's GHFC | refines `GuestClock` |
| `Processor` | what the CPU does with an instruction and the branch before it | abstract specification |
| `Emulation` | the emulating exits of `exception.c` and `tlb.c`, `branch.c` | refines `Processor` |
| `PrivateRegisters` | FPU and DSP registers for each guest | abstract specification |
| `LazyRegisters` | `do_cu`, `do_dsp`, the switch and restart as they concern the units | refines `PrivateRegisters` |
| `Transcript` | what the log promises: text in order, the oldest lost first | abstract specification |
| `LogRing` | `log.c` and the transmit side of `uart.c` | refines `Transcript` |
| `*_proofs` | theorems of `VirtualInterrupts`, `RootThread`, `ConsoleInput`, `TimerQueue`, `GuestTime`, `LazyRegisters`, `LogRing` | TLAPS |
| `MemoryAccess_proofs` | theorems of `Configurator` and `PageFaults`, and of `Emulation` | TLAPS |
| `MC*` | constants for TLC | |

`Configurator` extends `PageTables` and `PageFaults` extends `Configurator`: its guests run
on the tables that the script's steps left.  Four modules instantiate their abstract specification
with a refinement mapping: `ConsoleInput` and `LogRing` from ring indices to
sequences, `GuestTime` from the root's time to the guest's, `LazyRegisters` from live and saved copies to one.  `Emulation` has
the variables of `Processor` and must take the same steps.  The
remaining components meet at named operators rather than in one product:
`VirtualInterrupts` treats thread 0 as being at WAIT when an IRQ comes,
`RootThread` covers every other moment of thread 0 and reduces guests to "has an IRQ
pending"; `TimerQueue` is the environment action "the guest's timer expires" of
`VirtualInterrupts` and the tick of `RootThread`.  `GuestTime` takes the queue as
a single timer that fires within `Latency` counts of its time, which is what `TimerQueue` shows, and a
guest's timer IRQ as raised or taken, which is what `VirtualInterrupts` shows.

### VirtualInterrupts

State: `vIFS`/`vIEC` are `vmdev.vmic`; `rIFS`/`rIEC` the real registers;
`injected_irq`, `interrupted_irq` the thread fields; `live` the GRIPL and FCD
bits in the CPU and `saved[g]` those in the thread structure; `g_ipl`, `g_open`,
`g_ti` guest CP0; `taken` a history variable.  The injection decisions of
`eic.c` are operators on a record of one guest's injection, in the order of the C code, so that
an action applies `Noticed`, `Ended`, `Offered`, ... as the handler calls them.

Abstractions and why they keep the properties:

* A root handler is one action: `IE` is zero throughout and no handler sets it.
* IFS/IEC words are sets of IRQs; `Words` says which share a word, because a
  store acts on a whole word.
* Vector and offset of an injected IRQ are not told apart from its number.
* IPC levels are constants of at least 1 (stores to IPC are not modelled yet).
* Which ready guest runs next is left open; so is which of two IRQs of one level
  is chosen.  Both over-approximate the code.
* A GHFC exit stays pending while a root interrupt is served first.
* The transmitter of the emulated UART always has room.
* `SelfRaised` bounds which IFS flags guests set by a store; the address INV is
  used in the run `inverted` only, because of the finding there.
* The commands `s`, `c`, `r` are those of the root console; in debug mode (`Debugged`) a
  restart leaves the thread flags alone.

### RootThread

`exec` is the thread whose registers the CPU holds outside handlers, `current`
is `fp`, `frame[t]` whose registers t's frame holds.  `ReturnTo` is entry and
exit: the frame entry when Context is not zero, the stack otherwise.
`in_exc_stack()` tests a bit no entry sets, so the deferral in
`request_switch_to_thread` never happens and is not a branch of the model.
`Raising` are guests that put their IPL above their IRQs: only for them does
`insert_IRQ` switch threads.

### ConsoleInput and InputQueues

The rings are the code's: start, end and `Size` places, one always free.  The
state after an escape, `console_rx_vmid` and the receive flag follow
`console_rx`.  `Careless` are guests that read the receive register without the
status; `Number` gives what follows an escape its `ch - '0'`.  What lies behind
the end of `vm_list` may be anything.  The abstract queue refuses a character only
when it is full, and then the bell rings.

### TimerQueue

`next` and `prev` are the code's pointers.  `time_irq` handles one timer per
step, and `Count` may come between any two steps; reading COUNT and writing COMPARE
are two steps, and writing clears the match.  `Extend` is `time_extend_count`, `Wrap` stands for 2^32.
The `Func` timer is `main.c`'s printing timer, first for `FirstTime`, then for `FuncTime`: the one client that re-inserts
itself from inside the loop and that uses a wall time that may be stale.

### PageTables, Configurator, PageFaults

The unit is the 32-bit word; there are three page sizes (the code has more,
each four times the one below, as here), the middle one being the base page.
`PageTables` follows the script function by function — `small_pte_blocks`, `split_pte`, `join_pairs`, `join_bitmask`,
`split_page`, `create_pte_tree`, `output_ptetree` — and then the two readers of its result.
A loop over a list is a function of the place in it.  The recursion of `split_pte` comes to the largest page that fits at each
address (`NextPiece`); for a region that is no whole number of the smallest pages it never ends, and the script dies (`Split` is `None`).
A level of `create_pte_tree` is a list of `Item`s: where a node was put, and the node, which `simplify_tree` may have narrowed or replaced.
The search is a walk of as many steps as there are page sizes (`SearchStep`).
Write-ignore flags, RI/XI and cache attributes are left out, and accesses are
loads.  `PageFaults!RunSpec` first takes the script's steps, for every configuration, and then, on those in
`Running`, the guests' accesses.  The branch of `create_pte_tree` that widens a node is unreachable for
the sizes it is given and left out.  The hardware ignores frame address bits
below the page size.  Hashes of the caches are constants.

### GuestTime and GuestClock

All moments are 64-bit numbers of the root's COUNT (`current_lcount`, `timer`) or of the
guest's (`last_used_lcount`, `lcompare`, `lcount2read`), which differ by `cp0_gtoffset`.  `W` stands for
2^32 and is even; `Extend` is `time_extend_count`, `Late` is `recalculate_late_timer`.  `irq` is the
guest's timer IRQ: raised when `execute_timer_IRQ` is called, taken when the guest vectors to it, "unnoted" when `insert_IRQ`
comes before the GHFC exit.  `moved` is a history variable: COUNT was set behind COMPARE.
`GuestClock` says what COUNT and COMPARE are for: COMPARE stands for the first moment, behind what the guest knows
of the time, whose low half it is; its IRQ is not raised before that moment, and is raised after.
What the guest is shown as COUNT never goes back and never passes the real time.
`LateWrites`, `Noted` and `KeptFlags` select the cases in which the code does not keep this (section 6): `KeepsTime` excludes all
three, `ArmedForCompare` none, `ArtificialCount` the last, `TypeOK` and `WithinWrap` the first.  With `Spend` COUNT goes on between the two reads
in MTC0 COUNT (`exception.c:411-416`): a value between them puts the guest's time a whole wrap ahead of what it is said to have seen,
so that it is late at once; the properties hold of this too.

### Emulation and Processor

A guest comes to a *unit*: an instruction that traps, alone or in the delay slot of a branch.
`Processor` executes the unit: slot and branch, decided on the registers before the slot.  `Emulation` takes
the frame as the hardware leaves it, `gpr_read` and `gpr_write` on the frame or the shadow set, and goes through
`compute_return_epc` and the register write in the order of each handler; loads write before they look at the branch, CP0 moves
after.  The place of `$0` in a frame is a place like the others, which the exit does not load.
Registers and addresses are words of `Word` values that wrap; `Byte`, `Half` and `Region` are 2^8, 2^16 and 2^28.
What a device or CP0 register reads as is part of the unit, what is written to it is `out`.
Forms the architecture calls unpredictable, jalx and the branches of MIPSR6 and Octeon, which the build leaves out, do not occur.

### LazyRegisters and PrivateRegisters

`owner`, `live`, `saved` and `enabled` are `fpu_owner`/`dsp_owner`, the hardware's registers, the ones in
`struct thread`, and the bits CU1 and MX of each frame.  The registers of one unit are one value.  `seen` is what
the last instruction of a unit found there: `PrivateRegisters` fixes it for every guest.  `Decide` is the reader in `branch.c`,
which takes the FP condition from the hardware or from `struct thread`.

### LogRing and Transcript

The ring, its two indices, the UART's FIFO, and the code in between as far as it waits or can be overtaken by the UART:
`uart_sendlog` character by character, with the busy wait for the return behind a line feed, and
`uart_writeline`.  The whole runs with interrupts off, so one caller at a time (`code`).  The transmit IRQ is flagged by
the UART as its FIFO becomes empty.  `Transcript` has the text that is logged and what the UART was given, and
allows nothing to be lost but the oldest text when a line does not fit.  The history variables
`given`, `turn`, `wire`, `sent` make every line and every character visible.

## 3. Runs

`tlc -config <cfg> <module>.tla` in this directory; all finish within a few
minutes.

| Run | Configuration | Checks | What it shows |
|---|---|---|---|
| `two` | `MCInterrupts_two.cfg` | `TypeOK RequestIsOwn NoStuckMask NoLostInterrupt TakenIsTracked IntStatIsTaken` | two guests, one polling and one with handlers, with a device each in one word |
| `emulated` | `MCInterrupts_emulated.cfg` | `InjectedIsPending NoLostTimer TransmitterAsks SleeperHasNothing` | CP0 timer, receive and transmit IRQ of one guest in one word; it is stopped, continued, and restarted in debug mode |
| `served` | `MCInterrupts_served.cfg` | `DeviceServed NoLostInterrupt` | liveness: a device IRQ behind a more urgent software IRQ in one word, its owner and another guest switched, stopped, continued and restarted |
| `root` | `MCRootThread_root.cfg` | `TypeOK FramesAreOwn GuestsGetCpu` | every step of thread 0 against ticks, device IRQs, input |
| `queue` | `MCConsoleInput_queue.cfg` | `TypeOK IsQueue` | the rings refine bounded queues |
| `tables` | `MCPageFaults_tables.cfg` | `RegionsReached DirectIsConfigured GuestsApart CachesAreTransparent` | about 32,000 configurations through script and table walks; on one of them a guest runs, and the caches change nothing for it |
| `timers` | `MCTimerQueue_timers.cfg` | `TypeOK QueueIsSorted HeadIsArmed FiresInTime NeverEarly` | tick, function timer and two guests' timers over a wrap of COUNT |
| `time` | `MCGuestTime_time.cfg` | `TypeOK ArtificialCount ArmedForCompare WithinWrap KeepsTime` | a guest's COUNT and COMPARE over three wraps refine its clock, liveness included |
| `slots` | `MCEmulation_slots.cfg` | `TypeOK AsExecuted` | every trapping instruction, alone and in the slot of every branch |
| `lazy` | `MCLazyRegisters_lazy.cfg` | `TypeOK BitIsOwners AsPrivate` | two guests share FPU and DSP and cannot tell |
| `log` | `MCLogRing_log.cfg` | `TypeOK IsTranscript TextGoesOut` | the log over overruns and a small FIFO; text does not stay behind |
| `shared_cache` | `MCPageFaults_shared_cache.cfg` | `CachesAreTransparent` is violated | section 6 |

Three more instances pass.  `MCInterrupts_levels.cfg`: `DeviceServed` with two devices of different levels in one word, whose owner hides IRQs by its IPL;
guests are switched, continued and restarted.  `MCGuestTime_any.cfg`: `ArmedForCompare` and `ArtificialCount` of a guest that sets COUNT at any
time and whose IRQs are noted by GHFC or by `insert_IRQ`.  `MCGuestTime_spent.cfg`: `TypeOK` and `WithinWrap` with COUNT set at boot only, IRQs noted
either way, and debug restarts that keep the flags.

### Bounds, and why they are enough

*Interrupts.* Two guests are needed for a saved and a live copy of the injection
registers and a third thread, root, is always there.  One device per guest in a
shared word makes a store of one guest touch the other's bits.  Three IRQs of
two levels in `emulated` give an IRQ behind a higher one, behind an equal one, and a
replaced one.  Levels 0 and 5 are "hides nothing" and "hides everything"; guests set them
at any time.  In `served` the owner's software IRQ replaces that of its device, and the device has to be found again when it is
acknowledged; guests do not hide IRQs there, and are not stopped in `MCInterrupts_levels.cfg`: where both meet, the refused switch of section 6
(`scheduler.c:191`) puts one guest's IRQ into another.
There are no counters: these state spaces are complete.

*RootThread.* Three characters cover a digit, a command and one more; the ring holds
two so that it overflows.  In `root` guests raise their IPL only before anything
is typed (the bound `Early`), when thread 0 is always inside `wait()`; without the bound the run is `raised`.

*ConsoleInput.* A ring of three places (two characters) wraps in three steps; one guest beside root,
and two characters, one of which names a VM that does not exist.
Deadlock is checked and there is no bound on what is typed.

*Configurator.* Three page sizes around the base page exercise each of `split_ptes`'
directions, pairing, quartering of emulated pages, and compression.  Two regions are no whole
number of the smallest pages, where the script gives up.  Region sizes
of 1, 2, 4, 5 and 7 base pages at each page offset make every split; congruent and shifted
physical addresses make both answers of the alignment test.  Register blocks are taken where the
script handles them correctly (a first page of a pair, or both pages), and section 6 says what happens elsewhere.
The script ends, so deadlock is not checked.

*PageFaults.* The guest runs on one configuration with register blocks, a device page, a large emulated region and plain memory.
Two-way caches and a selection of addresses at both ends of each region
fill, hit, and evict each way.

*TimerQueue.* `Wrap` 16 and `Mult` 2 leave room for two ticks before a wrap; the handlers may take `Latency`,
and reading COUNT to writing COMPARE at most `Spend` counts.  `Delays` are "at once" and one that lands between other timers.
`Horizon` bounds the run (so deadlock is not checked) at 28 counts, past the wrap.
`MaxLate` is what the code gives: an IRQ may be put off by the margin (`Margin`), is served within `Latency` and by a pass that
takes up to `Latency`, and the loop of `time_irq`, which goes on from a timer it has just put back, may pass over a due timer twice,
once behind the tick and once behind the function timer.  `MCTimerQueue` has TLC check that these
numbers satisfy the assumptions of the theorems (section 5).

*GuestTime.* `W` 6 (half a wrap is 2) and three values to write, at both ends and inside a wrap; `Horizon` 18 is three wraps, so that a
guest can be away for more than half a wrap, catch up, and be late again.  `Latency` 1 lets the guest act between
a timer's time and its IRQ.  The horizon ends the run: deadlock is not checked, and the one liveness property
does not need COUNT to advance.  `Noted` {TRUE}, `LateWrites` and `KeptFlags` FALSE in `time` are restrictions
that section 6 explains; `MCGuestTime_any.cfg` and `MCGuestTime_spent.cfg` lift the ones their properties do not need, over two wraps.  Once COUNT may be set back behind COMPARE,
COMPARE's moment can run ahead without end, so that `Take` stops a wrap past the horizon; without such writes that guard is always true.

*Emulation.* Words of 16 values, bytes of 2, halves of 4 and regions of 8 are the smallest in which these differ and an address
wraps within a jump; `$0`, one register, and the link register.  All values and addresses are reached.  A guest may jump to an
unaligned address, where it stops: deadlock is not checked.

*LazyRegisters.* Two guests and two units, each with two contents: a third guest adds no new relation between an owner and a taker.  The state space is complete.

*LogRing.* A ring of four (three characters) with lines of one and two, one with a line feed; a FIFO of two, so that a
line feed may take its last place; one urgent line.  Complete, deadlock checked.

### Mutants

For every property of a passing run `PROJECT.json` names a changed definition
(the ones with a comment `Fault:` in the modules) under which TLC finds the
property violated: a lost unmask, an injection cancelled without a successor, a hook left out,
a ring that forgets to wrap, a queue that does not take a timer out before it puts it in, and the like.

## 4. Fairness

Safety properties need none.  `VirtualInterrupts!FairSpec`: a real interrupt that the
controller asks for is served (weak fairness: hardware, with root handlers that end).  Of each guest that owns a device, while it is on the CPU: it re-enables
its interrupts over and over, does not leave its IPL raised while they are enabled, takes an IRQ it may take over and over, and GHFC follows the take (strong fairness: each
can be interrupted, by a switch too, in between).  That is about guests that keep their side of the
interface; a guest that never enables its interrupts is owed nothing.  Nothing is assumed of the other guests, of ticks or of root's commands.
That root does not leave the owner stopped, and that the scheduler comes back to it, is no fairness of the code (section 7): it is `Scheduled`, the premise
of `DeviceServed`.

`GuestTime!Fairness`: `time_irq` comes when a timer is due (a real interrupt that nothing masks; `TimerQueue` bounds its delay).
The guest owes nothing: an IRQ that is raised for it is all that is claimed.

`LogRing!FairSpec`: the code that runs goes on (it waits for nothing but the FIFO), the UART sends, and a transmit IRQ that is
flagged and enabled is served; weak fairness each.

`RootThread!Fairness`: ticks keep coming, interrupts are served, there is time between them
(`[]<>~InterruptPending`: the processor is not saturated), and thread 0 executes its next step.
Guests owe nothing here.

## 5. Proofs

`tlapm <module>_proofs.tla`.

| Theorem | Assumption | Argument |
|---|---|---|
| `TypeCorrect` of `VirtualInterrupts`, `Emulation`, `LazyRegisters` | none | `TypeOK` is inductive |
| `RequestsAreOwn`, `TakesAreTracked`, `IntStatIsRight` | `SwitchNeverRefused`: no guest is stopped, or no guest hides IRQs by its IPL | `SoundInjection`, with `TypeOK` and `ReachableLevels` |
| `TimerIsNeverLost`, `TransmitterAlwaysAsks`, `SleepersHaveNothing` | none | `Wakeful`, `TransmitterAsks` with `ReachableLevels` and `CurrentRuns` |
| `InjectedStaysPending`, `NoMaskIsStuck` | `NeverInverts`: guests do not use the INV address of IFS and IEC | each of the two is inductive with `TypeOK` |
| `NoInterruptIsLost` | `HooksSeeAll`: `NeverInverts`, no transmitter, no guest sets the flag of its timer or transmit IRQ itself | `Accounted`: the property with `NoStuckMask`, `FlagsAreReal`, `FlagsAreOffered` |
| `FramesStayOwn`, `TypeCorrect` of `RootThread` | `RaisedEarly`: no guest raises its IPL above its IRQs, or only before anything is typed | `FramesAreOwn` with `WaitInv`: guests have the CPU only while thread 0 is in `wait()`, which it leaves only for input |
| `TypeCorrect` of `ConsoleInput` | none | `TypeOK` is inductive, whatever follows an escape |
| `RingsAreQueues` | `Disciplined`: readers look first, a number of the table follows an escape | invariant `Inv` on top; refinement step by step |
| `TimerIsArmed` | none | `ArmedForCompare` is inductive with `Types` |
| `ArtificialCountIsRight` | `KeptFlags = FALSE`: restarts clear THREAD_FLAGS_CHRONIC | `ArtificialCount` is inductive with `Types` |
| `TypeCorrect` of `GuestTime`, `RequestsAreWithinWrap` | `LateWrites = FALSE`: COUNT is not set after COMPARE | `Timely`: `Past` and `WithinWrap`, with `TimerIsArmed`'s invariant |
| `TimeIsNeverEarly` | `Disciplined`: both, and GHFC notes the timer IRQ (`Noted = {TRUE}`) | the safety part of the refinement, from all of these |
| `QueueStaysSorted`, `NoTimerIsEarly`, `TypeCorrect` of `TimerQueue` | none | `Inv`: the queue is a ring, `Clock`, `Dates`, `Loop` |
| `HeadStaysArmed` | `WrapIsLong` | `Timely` on top of `Inv`: what COMPARE was set to, whatever COUNT did since |
| `TimersFireInTime` | `WrapIsLong`, `RequestsApart` | `InTime` on top of both: how late each timer is, by where the loop may have passed over it |
| `EmulationIsExact` | every unit is `Exact`: no emulated load in a slot into a register of its branch | each action is the processor's, over an arbitrary frame |
| `LogIsTranscript`, `TypeCorrect` of `LogRing` | none | `IInv`: a return that waits belongs to a line feed still in the ring; each action is `Log`, `Write`, `Hand`, `Emit` or a stutter |
| `TablesAreOfTheLists`, `GuestsAreApart` | none | `ScriptInv`, and what `split_ptes`, `join_pairs`, `create_pte_tree` and the search keep of a region |
| `CachesAreTransparentAlways` | on every configuration that runs, `OneGuest` has regions, and `NoneQuartered`: no page of the smallest size is split for pairing | `CachesAreOfTables` on top of `ScriptInv`: addresses of one slot are found alike |
| `DirectAccessIsConfigured` | on every configuration, `BlocksApart`: no two blocks of a VM overlap, and `NoneQuartered` | what hardware maps lies in a piece of the entry's own region, and a search comes only to what was placed for the address |
| `EveryRegionIsReached` | on every configuration, `BlocksApart`, `NoneQuartered` and `RegionsFit`: regions end within the address space (`Space`), a small region lies in one page, at the same place of it as in its physical page (`SmallFit`), and no bitmask is lost in a pair (`MasksKept`); `NoneIsNoRecord`: the value `None` is no function | every word is in a page that maps it as its region does, every page in an entry, and the search comes to that entry |
| `EnabledIsOwner`, `RegistersArePrivate` | none | `BitIsOwners` is inductive; the mapped registers change only where the guest's own instruction does it |

`SoundInjection` says of each guest's injection record, live or saved: GRIPL is
empty or the injected IRQ; tracking is on while something is injected; and the IRQ the CPU vectored to is in `injected_irq` while root does
not know, in `interrupted_irq` afterwards.  None of the three is inductive alone: that INTSTAT is right needs
tracking, so that root does learn of a take, and tracking needs the request in GuestCtl2 to be the guest's own.
The proof first characterises the operators on one record (`CancelledFacts`,
`InsertedFacts`, ...), then what a switch keeps (`SwitchKeeps`: the record of every
guest is unchanged, whichever copy holds it), then each action.

`NoInterruptIsLost` says that a guest with an IRQ flagged and enabled has one injected, or root is about to get a real interrupt of that guest's.
It follows from `RootWillInject`: what a guest with nothing injected has flagged and enabled is flagged and unmasked in the real controller.
That is not inductive alone.  A guest that enables an IRQ whose flag is set relies on the real mask, hence `NoStuckMask`; a flag in a virtual IFS
may be assumed to be in the real one only because `FlagsAreReal`; and the timer's and the transmitter's flags have no real counterpart, so that
the hooks have to offer them, which look at Cause.TI and at the transmitter, not at the flag: `FlagsAreOffered`.  `Accounted` is the conjunction.
The proof characterises the four kinds of store in one lemma each (`StoreInjects`, `StoredWords`) and every raise in one (`RaiseFacts`).
`HooksSeeAll` is the case in which the hooks look at enough: a timer flag that a guest sets itself is not seen by the timer's hook,
and with the transmitter on, the console's offers nothing but the transmit IRQ.
`Wakeful` says that a guest that waits has nothing injected, and that the guest on the CPU is one that does not wait.

`FramesStayOwn` rests on three lemmas: a handler entered through the frame saves
a thread into its own frame, the frame is used exactly while thread 0 is in `wait()`,
and otherwise `reschedule` chooses the current thread.

`RingsAreQueues` maps a ring to the sequence of the characters between start and end.
Its arithmetic, positions modulo the ring size, is in lemmas without state;
a character that is typed appends, one that is read takes the head, and
one that is dropped is the abstract queue's `Refuse`, which needs a full queue and rings the bell
(`typed`, a history variable, makes every typed character visible, so that none can be dropped as a stutter).

`GuestTime`'s proof rests on `ExtendIsNext` and `ExtendIsFirst`: `time_extend_count` gives the one moment in the wrap from its base
on that has a given low half, and every smaller one with that low half is before the base.  From it follow that a COUNT that is read lies between
what was seen and the real time, and that COMPARE's moment is at most a wrap ahead of what was seen, hence of the real time (`Past`).
`Past` needs to know when a timer fires that COMPARE's moment has come, which is `ArmedForCompare`; and of a guest that is late again that
its COMPARE lies behind the COUNT it is shown plus a wrap, which ties `lcount2read` to what was seen.  The history variable `moved` says that COUNT was set behind
COMPARE and the timer not set for COMPARE since: `ArmedForCompare` then promises a timer but not its moment.

`TimerQueue`'s proof reads the links as a ring: a sequence of `1 + n` places, `timerQ` first, in which `next` and `prev` are the two
neighbours.  `UnlinkedRing` and `LinkedRing` build the sequence of the changed queue; `RingIsSorted` leads back to the walk along `next`.
`Place` is a recursive function over the links, which need not end on links that are no ring; that it finds the first later timer is shown
with the sets from which the walk ends (`Basin`), by the least element of a set of numbers (`LeastNat`), which the
library's theorem that `<` is well-founded on the natural numbers gives.  The same gives induction over sets of numbers, `NatInd`.
With that, `Dates` says that a queued timer's count is the first of its wall time, so that the order of the wall times is that of the counts.
`HeadStaysArmed` needs that COUNT does not go round between two updates of the wall time, or `time_extend_count` gives a time
in the past: `WrapIsLong`, a tick and what handlers take in less than 2^32 counts (43 s at 100 MHz; a tick is 1 s).
`KeepsUp` bounds how far COUNT is ahead of `current_lcount` (the tick is always queued), and `Meant` says what the
value that is being written to COMPARE was computed from.
For `TimersFireInTime`, `Slack` is how long a timer may have been passed over: nothing behind a timer that was put back behind it,
one margin and two latencies (`Skip`) for the tick, the same for the function timer, and no third time, since after both are put back
behind it, it is the next one the loop comes to.  `RequestsApart` is the assumption of section 7: requests that follow each other within
the margin put COMPARE off for ever.

`LogIsTranscript` maps the ring to the text between reader and writer, without a line feed whose return still has to be written, and the
FIFO with what `uart_writechar` waits to write to what is ahead of it.  That a line is put behind the text or, where it passes the reader, leaves the
end of text and line (`PutAppends`, `PutOverruns`) is shown by counting the places from the reader and from the writer (`FromBoth`).
The expansion of a line with returns is the library's recursive `FlattenSeq`; that it gives a sequence (`FlattenIsSeq`) is induction over sets of
numbers again, and nothing else about it is needed, since `Transcript` expands with the same.

`EmulationIsExact` characterises `compute_return_epc` on an arbitrary frame first (`LinkWrittenValues`, `ConditionAgrees`,
`ReturnEpc`), so that the two orders, register before branch and branch before register, need one argument each.

`GuestsAreApart` follows a word from the region list to the TLB.  `ScriptInv` says that what a VM has as its tables is
`Tree(Join(Split(SmallBlocks(...))))` of its own list, and that the check of `create_pte_lists` was made of the lists of *all* VMs before
the first table was: neither is inductive without the state of the lists in between (`ListsAreKept`).  The rest is about the
operators, for every list: a block keeps its region's flags or is emulated (`BlocksOf`); a piece of it lies inside, at the same distance from its
physical address (`Part`); a half of an entry lies inside such a piece or, quartered below the smallest page, is emulated (`EntryOf`).
The tree is not looked at as a tree: `Closed(T, E)` says that T is a set of nodes whose descendants are in T or among the entries E, each with a slot of
one of the sizes and nothing larger than its slot below it, and every level that `create_pte_tree` adds keeps some T closed (`GroupStepKeeps`).
So a search, which goes down a level at each step, ends with an entry in a slot of its own size (`SearchType`), and
what the hardware adds to the frame's address stays inside the half, because `address_alignment_check` made it aligned (`DirectIs`).
Nothing is said of *which* entry is found for an address: that the guests are apart does not depend on it.

`CachesAreTransparentAlways` needs more of the search: two addresses of one slot take the same way down to it
(`SearchTogether`), since every table on the way has slots that are whole numbers of it (`SlotMultiple`), and compares bits above it
(`StepTogether`).  `CachesAreOfTables` says of each cached entry which address it was loaded for, and that the search still finds it there; a hit means that
the two addresses are of one span (`SpanFinds`, `SmallSlotFinds`).  It does not ask that the tables are right, so it holds of what
section 6 lists too.  With a second guest it is false (`shared_cache`).  When a page of the smallest size is quartered, an entry
narrower than its slot stands alone under a node, whose address is then compared more finely than the slot that is cached.

`DirectAccessIsConfigured` has to say where in the tree an entry stands.  The blocks of a list that is sorted and does not overlap give pages
in address order, and pages give entries in address order (`JoinAscends`); each level that `create_pte_tree` adds keeps the list `Placed`: in order,
each item inside a slot of its own, nodes included (`GroupStands`).  What stands below a node is then in the slot that `output_ptetree` writes it to:
the counter that moves an entry to the next free slot never has to (`SlotHolds`).  Downwards, the golden address that `simplify_tree` leaves tells
whether the address is in the node's range (`GoldenHolds`), so that each step of a search keeps `IsFor`: what is found holds the
address, or is a transit entry or a table on its way there.  That an entry's half
lies inside one region, at the region's distance, is `EntryOf` from above.

`EveryRegionIsReached` is the other direction: nothing is lost on the way from the list to the tables, where `DirectAccessIsConfigured` says that nothing is
added.  Each step needs a statement about what it leaves out.  `small_pte_blocks` leaves for every region the region itself or a block that allows its
words (`StandsFor`): of the blocks of one page the last one takes in all others.  `split_pte` leaves no gap (`Covered`), and a block that is a page stays one
(`PageSizeWhole`), so that its bitmask still counts from its start.  `join_pairs` forgets no page, the one that waits for its second half
included (`JoinPageMaps`, `SavedIn`), and the entry of a page maps it as the page does (`Serves`).  In the tree, a chain of tables leads to every entry, each of them
holding the entry's addresses (`Leads`, `GroupStepLeads`); `output_ptetree` writes each of them to the slot of its addresses, and to no other
(`InSlotIs`: the counter that finds a slot taken never does), and the golden address matches (`GoldenHolds`), so that a search goes on towards the
entry at each step (`StepComesTo`) until it is there (`EntryIsFound`), behind a transit entry for the small ones.
Of the region lists in the run `tables` that get tables, 5,140, every one satisfies the assumptions of both theorems.  Each part of `RegionsFit` is needed, as are
`BlocksApart` and `NoneQuartered`: for each there is a list that breaks only that one and of which a word is not reached.

The assumptions are not for the provers' convenience: for each of them there is a configuration in which the
property fails without it (`stopped_target`, `inverted`, `transmit`, `raised`, `escape`, `empty`, `shared_cache`, and the variants named in section 6).

*Only model-checked:* liveness (that of `KeepsTime` and `TextGoesOut` included).  Every safety invariant and action property of a passing run is a theorem.

## 6. Where the code does something else than it says

One disagreement is a run of the project: `shared_cache` — the caches of `do_TLB` are looked up by address and not by guest (`tlb.c:286`), so that
`tables` lets one guest run.

The other ones have a configuration each, or a changed constant, to be run by hand; TLC reports the violation.  Most of them are
the reason of a restriction elsewhere.

| Configuration | Property | What the code does |
|---|---|---|
| `MCInterrupts_stopped_target.cfg` | `RequestIsOwn` | `request_switch_to_thread` reports a switch that `switch_to_thread` refused for a stopped guest, and `insert_IRQ` writes that guest's IRQ into the registers of the running one (`scheduler.c:191`, `eic.c:126`) |
| `MCRootThread_raised.cfg` | `FramesAreOwn` | an interrupt on top of thread 0's own code, for a guest whose IPL hides it, switches threads there: `in_exc_stack` tests CU0, which no entry sets (`scheduler.c:46-47` excludes it) |
| `MCGuestTime_spent.cfg` with `LateWrites = TRUE`, `Noted = {TRUE}` | `NoMiss` | MTC0 COUNT re-arms the timer for the moment of the write, whatever COMPARE is (`exception.c:425`); `exception.c:28-36` says that playing with COUNT and COMPARE loses no IRQ |
| `MCGuestTime_spent.cfg` with `Noted = {FALSE}` | `NoMiss` | a take that `insert_IRQ` notes first (`eic.c:110`) is not seen by the GHFC branch, which would restart the timer |
| `MCGuestTime_any.cfg` with `KeptFlags = TRUE` | `ArtificialCount` | a debug restart keeps THREAD_FLAGS_CHRONIC but zeroes `lcount2read` (`main.c:212`) |
| `MCEmulation_slots.cfg` with `Units <- AnyUnits` | `AsExecuted` | a load emulated in a delay slot writes its register before the branch is decided on it (`tlb.c:357-359`, `364-366`) |
| `MCLazyRegisters_lazy.cfg` with `PROPERTIES InstructionsAreExecuted` | `InstructionsAreExecuted` | the exit that makes a unit usable goes on behind the instruction that asked for it (`exception.c:591`, `595`); `exception.c:277-279` says lazy save and restore |
| `MCInterrupts_inverted.cfg` | `InjectedIsPending` | a guest that disables its injected IRQ through the INV address keeps it (`ic.c:247` looks at the register after the inversion) |
| `MCInterrupts_transmit.cfg` | `NoLostInterrupt` | with the transmitter on `console_ic` offers only the transmit IRQ (`console.c:263`) |
| `MCRootThread_wakes.cfg` | `InputWakesRoot` | a tick right behind the console IRQ gives the CPU to a guest before `wait()` tests its flag (`start.S:742-747`) |
| `MCRootThread_input.cfg` | `InputServed` | of two characters in one burst the second stays in the ring (`main.c:162`) |
| `MCConsoleInput_escape.cfg` | `InputGoesToVm` | the bound of the number behind an escape is tested with `\|\|` (`console.c:208`), so that any character is looked up in `vm_list`; "Number indicates a new guest VM" (`console.c:194-195`).  In `queue` only small numbers follow an escape |
| `MCConsoleInput_asks.cfg` | `InputAsks` | an acknowledge with characters left is not followed by another request (`console.c:245`) |
| `MCConsoleInput_empty.cfg` | `IsQueue` | reading an empty ring makes it look full (`console.c:85`) |
| `MCConfigurator_outside.cfg` | `OthersRefused` | the empty half of a pair is not refused (`tlb.c:351`) |
| `MCConfigurator_blocks.cfg` with `OddConfigurations` | `RegionsReached` | a register block in a second page alone gets an empty bitmask (`vz-conf.py:305`) |
| `MCConfigurator_blocks.cfg` | `RegionsReached` | a register block across a page end loses its rest (`vz-conf.py:354`) |
| `MCConfigurator_blocks.cfg` with `SplitConfigurations` | `RegionsReached` | quarters of a page keep the whole page's bitmask (`vz-conf.py:465`) |
| `MCPageFaults_tables.cfg` with `NeighbourDevices` (twice) and `Sizes <- TwoSizes` | `DirectIsConfigured` | two devices in one pair of smallest pages are split into pairs below the smallest size, which take the slots of what follows (`vz-conf.py:457-469`, `858-860`); also `CachesAreTransparent`, with `ThreeSizes` too |
| `MCPageFaults_tables.cfg` with `OverlappingRegions` (twice) | `DirectIsConfigured` | overlapping regions of one VM are refused only where one is a small block (`vz-conf.py:358-367`), or by their physical addresses |

## 7. Not modelled

* Which ready guest runs next: the weights of `reschedule` (`scheduler.c:221-248`).  The counts are unbounded and grow only at a
  switch, so that a guest that keeps the smallest weight is chosen at every tick; neither code nor docs promise guests a share, so that there is no property to state.
  `DeviceServed` has the guest's turn as a premise (`Scheduled`).
* A flag that the hardware sets in a shared real IFS word between its read and write-back in `ic.c:708-728` is lost in the code; the store
  of `GuestWrite` is one step, so that this is the case of a device that has not asked.
* Regions of one VM that overlap in guest addresses: there the free slot that `output_ptetree` looks for (`vz-conf.py:855-860`) falls behind
  the entries printed, which `InSlot` does not follow.
* Stores to IPC and OFF; the dirty and write-ignore flags on stores through `do_TLB`; the values of the other CP0 registers; hypercalls.
* Platform tables, parsers, text formatting, bus protection, boot: constants, pure functions, or straight-line code.
* Register layouts (`pic32mz.h` in five copies, `mips.h`): half of the repository's lines are names of addresses and bits, of which
  the modules use what they stand for.
* TimerQueue assumes that two requests are at least `Margin` counts apart (`Pause`): each request puts a due
  COMPARE 100 counts off, and nothing in the code keeps a guest from requesting faster.  A
  wall time that `timer_request` finds out of date is modelled as such.

## 8. Plan

The order is by what matters most: interrupts first, then thread 0, console,
timers, memory, guest time, emulated instructions, the units and the log; all modules of section 2 are there.  Next:

1. `GuestSetIpc` and the priority of an injected IRQ in `VirtualInterrupts`; stores in `PageFaults`.
2. `VirtualInterrupts` with `GuestTime` in place of its environment's choice between late and in time.
