----------------------------- MODULE GuestTime ------------------------------
(***************************************************************************)
(* The CP0 COUNT and COMPARE of one guest, emulated on the root's COUNT and  *)
(* timer queue (exception.c, init_thread of scheduler.c).  Every access of   *)
(* the guest exits to root; a generation is a wrap of the 32-bit COUNT.  A    *)
(* guest that was away too long is "chronically late": it is shown            *)
(* artificial COUNTs half a wrap apart, and its timer IRQs follow at once.    *)
(***************************************************************************)
EXTENDS Integers

CONSTANTS
  W,          \* 2^32
  Starts,     \* the root's COUNT when guests are started
  Values,     \* what a guest writes to COUNT and COMPARE
  Latency,    \* bound: counts from a timer being due to time_irq
  Spend,      \* bound: counts between the two reads of COUNT in MTC0 COUNT
  Horizon,    \* bound: the root's COUNT, and a guest that sets COUNT back takes
              \* no more timer IRQs a wrap past it
  LateWrites, \* the guest also sets COUNT after it has written COMPARE
  Noted,      \* how the taking of a timer IRQ is noted: TRUE by GHFC, FALSE by
              \* insert_IRQ, before GHFC
  KeptFlags   \* restarts keep thread_flags ('r' of a guest in debug mode)

ASSUME GuestTimeAssumption ==
  /\ W \in Nat /\ W > 2 /\ W % 2 = 0
  /\ Starts \subseteq Nat /\ Values \subseteq 0 .. W - 1
  /\ Latency \in Nat /\ Spend \in Nat /\ Horizon \in Nat
  /\ LateWrites \in BOOLEAN /\ Noted \subseteq BOOLEAN /\ KeptFlags \in BOOLEAN

VARIABLES
  current_lcount,    \* the root's COUNT, 64 bits
  cp0_gtoffset,      \* the guest's COUNT less the root's, 32 bits
  last_used_lcount,  \* the moment of the guest's time that it has seen last
  lcompare,          \* the moment its COMPARE stands for
  chronic,           \* THREAD_FLAGS_CHRONIC
  lcount2read,       \* what COUNT reads as then
  queued, timer,     \* its timer in the root's queue, and when that is due
  compared,          \* the guest has written COMPARE since its start
  irq,               \* its timer IRQ: "none", "raised", or "taken" and noted by
                     \* GHFC, or "unnoted" when insert_IRQ noted it first
  moved              \* history: COUNT was set behind COMPARE and the timer not
                     \* set for COMPARE since

vars == <<current_lcount, cp0_gtoffset, last_used_lcount, lcompare, chronic,
          lcount2read, queued, timer, compared, irq, moved>>

Half == W \div 2 - 1   \* 0x7FFFFFFF

\* Fault: the generation of base, also for a moment before it.
ExtendBack(base, c) == (base - (base % W)) + c

\* time_extend_count
Extend(base, c) ==
  LET high == base - (base % W) IN
  IF c >= base % W THEN high + c ELSE high + W + c

GuestCount == current_lcount + cp0_gtoffset

-----------------------------------------------------------------------------
\* Fault: a guest that is late is shown an artificial COUNT from where it is.
LateFromNow(gcount, used) ==
  IF GuestCount - gcount > Half
  THEN chronic' = TRUE /\ lcount2read' = GuestCount + Half
  ELSE chronic' = FALSE /\ UNCHANGED lcount2read

\* recalculate_late_timer, of a thread whose CHRONIC flag is clear.
Late(gcount, used) ==
  IF GuestCount - gcount > Half
  THEN chronic' = TRUE /\ lcount2read' = used + Half
  ELSE chronic' = FALSE /\ UNCHANGED lcount2read

IsLate(gcount) == GuestCount > gcount

\* timer_g_irq_reschedule: one timer per guest, so the one before is replaced.
Reschedule(lcount) == queued' = TRUE /\ timer' = lcount

\* Fault: a moment that has passed is forgotten.
SetTimerLate(gcount, otherwise) ==
  /\ irq' = otherwise
  /\ IF IsLate(gcount) THEN UNCHANGED <<queued, timer>> ELSE Reschedule(gcount - cp0_gtoffset)

\* execute_timer_IRQ at once, or the timer in the queue.
SetTimer(gcount, otherwise) ==
  \/ /\ IsLate(gcount) /\ irq' = "raised"
     /\ UNCHANGED <<queued, timer>>
  \/ /\ ~IsLate(gcount) /\ irq' = otherwise
     /\ Reschedule(gcount - cp0_gtoffset)

-----------------------------------------------------------------------------
(* The guest's instructions *)

\* MFC0 COUNT.
ReadCount ==
  LET gcount == IF chronic THEN lcount2read ELSE Extend(last_used_lcount, GuestCount % W) IN
  /\ last_used_lcount' = gcount
  /\ Late(gcount, gcount)
  /\ irq' = IF IsLate(gcount) THEN "raised" ELSE irq
  /\ UNCHANGED <<current_lcount, cp0_gtoffset, lcompare, queued, timer, compared, moved>>

\* Fault: the root's COUNT less the guest's.
OffsetNegated(v, count) == (count - v) % W

Offset(v, count) == (v - count) % W

\* MTC0 COUNT.  COUNT is read for current_lcount, and again for the difference;
\* the timer is set for the moment of the write, whatever COMPARE is.
SetCount(v) ==
  /\ LateWrites \/ ~compared
  /\ \E spent \in 0 .. Spend :
       /\ current_lcount + spent <= Horizon
       /\ cp0_gtoffset' = Offset(v, current_lcount + spent)
       /\ current_lcount' = current_lcount + spent
  /\ last_used_lcount' = Extend(current_lcount, v)
  /\ chronic' = FALSE /\ moved' = compared
  /\ Reschedule(last_used_lcount' - cp0_gtoffset')
  /\ UNCHANGED <<lcompare, lcount2read, compared, irq>>

\* MTC0 COMPARE: the IRQ of the COMPARE before is withdrawn.
SetCompare(v) ==
  LET gcount == Extend(last_used_lcount, v) IN
  /\ lcompare' = gcount /\ compared' = TRUE /\ moved' = FALSE
  /\ Late(gcount, last_used_lcount)
  /\ SetTimer(gcount, "none")
  /\ UNCHANGED <<current_lcount, cp0_gtoffset, last_used_lcount>>

\* The guest takes its timer IRQ, and the GHFC exit sets up the next match.  A
\* guest enables its timer IRQ after its first COMPARE.
TakeNoted ==
  /\ last_used_lcount' = lcompare
  /\ lcompare' = lcompare + W /\ moved' = FALSE
  /\ Late(lcompare + W, lcompare)
  /\ SetTimer(lcompare + W, "taken")

TakeUnnoted ==
  /\ irq' = "unnoted"
  /\ UNCHANGED <<last_used_lcount, lcompare, chronic, lcount2read, queued, timer, moved>>

Take ==
  /\ irq = "raised" /\ compared
  /\ lcompare < Horizon + W
  /\ \E noted \in Noted : IF noted THEN TakeNoted ELSE TakeUnnoted
  /\ UNCHANGED <<current_lcount, cp0_gtoffset, compared>>

-----------------------------------------------------------------------------
(* The root *)

\* timer is a 64-bit unsigned number.
Due == 0 <= timer /\ timer <= current_lcount

\* time_irq calls execute_timer_IRQ, also for a timer of an earlier instance of
\* the guest.
TimerIrq ==
  /\ queued /\ Due
  /\ queued' = FALSE /\ irq' = "raised"
  /\ UNCHANGED <<current_lcount, cp0_gtoffset, last_used_lcount, lcompare, chronic,
                 lcount2read, timer, compared, moved>>

Count ==
  /\ current_lcount < Horizon
  /\ queued /\ Due => current_lcount < timer + Latency
  /\ current_lcount' = current_lcount + 1
  /\ UNCHANGED <<cp0_gtoffset, last_used_lcount, lcompare, chronic, lcount2read,
                 queued, timer, compared, irq, moved>>

\* init_thread: the frame is cleared, the timer stays in the queue.
Restart ==
  /\ cp0_gtoffset' = 0
  /\ last_used_lcount' = current_lcount /\ lcompare' = current_lcount - 1
  /\ chronic' = (KeptFlags /\ chronic) /\ lcount2read' = 0
  /\ compared' = FALSE /\ irq' = "none" /\ moved' = FALSE
  /\ UNCHANGED <<current_lcount, queued, timer>>

Init ==
  /\ current_lcount \in Starts
  /\ cp0_gtoffset = 0
  /\ last_used_lcount = current_lcount /\ lcompare = current_lcount - 1
  /\ chronic = FALSE /\ lcount2read = 0
  /\ queued = FALSE /\ timer = 0
  /\ compared = FALSE /\ irq = "none" /\ moved = FALSE

Next ==
  \/ ReadCount \/ Take
  \/ \E v \in Values : SetCount(v) \/ SetCompare(v)
  \/ TimerIrq \/ Count \/ Restart

\* time_irq is an interrupt of the highest priority that root unmasks for good.
Fairness == WF_vars(TimerIrq)

Spec == Init /\ [][Next]_vars /\ Fairness

-----------------------------------------------------------------------------
(* Types; and the guest is never shown a time ahead of its own (do_gpsi,      *)
(* do_EXC).  Not once it sets COUNT behind COMPARE (LateWrites): IRQs then     *)
(* come before the moment COMPARE stands for.                                 *)
TypeOK ==
  /\ current_lcount \in Nat /\ cp0_gtoffset \in 0 .. W - 1
  /\ last_used_lcount \in Int /\ lcompare \in Int
  /\ chronic \in BOOLEAN /\ lcount2read \in Int
  /\ queued \in BOOLEAN /\ timer \in Int
  /\ compared \in BOOLEAN /\ moved \in BOOLEAN
  /\ irq \in {"none", "raised", "taken", "unnoted"}
  /\ last_used_lcount <= GuestCount

(* The artificial COUNTs of a late guest (recalculate_late_timer) go on from  *)
(* what it has seen, in steps that a 32-bit difference tells from a step      *)
(* back, and stay behind its real time, also when it sets COUNT late and its  *)
(* IRQs go unnoted.  Not after a debug restart (KeptFlags), which keeps       *)
(* THREAD_FLAGS_CHRONIC and clears lcount2read.                               *)
ArtificialCount ==
  chronic => lcount2read = last_used_lcount + Half /\ lcount2read < GuestCount

\* The guest waits for the moment of COMPARE: it has written COMPARE, and its
\* timer IRQ is neither pending nor taken without the GHFC exit noting it.
Awaits == compared /\ irq \in {"none", "taken"}

(* A guest that awaits COMPARE has its timer in the queue, and for that very   *)
(* moment unless it has set COUNT since: across moves of COMPARE, late ones,  *)
(* IRQs that are taken and noted, timers left over from before, and debug     *)
(* restarts (MTC0 COMPARE and COUNT, the GHFC exit, time_irq).                *)
ArmedForCompare ==
  Awaits => queued /\ (~moved => timer = lcompare - cp0_gtoffset)

(* The root's queue is never asked for a time that COMPARE, which has 32      *)
(* bits, cannot hold, nor by a guest that awaits COMPARE for one before its   *)
(* COUNT began: also when COUNT goes on between the two reads of MTC0 COUNT,  *)
(* an IRQ goes unnoted or a restart keeps the flags.  Not once COUNT is set   *)
(* behind COMPARE (LateWrites).                                               *)
WithinWrap ==
  /\ queued => timer - current_lcount <= W
  /\ queued /\ Awaits => 0 <= timer

(* COUNT passes COMPARE once per wrap, so the next timer IRQ comes within a    *)
(* wrap, whatever the guest does to COUNT and COMPARE ("may cause CP0 COMPARE *)
(* interrupt miss ... To solve this issue", exception.c:30-36).               *)
NoMiss == compared /\ irq # "raised" => queued /\ timer - current_lcount <= W

Clock == INSTANCE GuestClock WITH
  now <- GuestCount, known <- last_used_lcount, deadline <- lcompare,
  asked <- compared, irq <- irq

(* The guest's time keeps the promises of GuestClock: no timer IRQ comes      *)
(* before the moment COMPARE stands for, and each comes (MFC0 and MTC0 of     *)
(* COUNT and COMPARE, recalculate_late_timer, the GHFC exit).                 *)
KeepsTime == Clock!Spec

=============================================================================
