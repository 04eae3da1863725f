----------------------------- MODULE TimerQueue -----------------------------
(***************************************************************************)
(* The root's timers (time.c): a sorted, doubly linked queue of the         *)
(* scheduler tick, a function timer and one timer per guest, in front of    *)
(* the one CP0 COMPARE register.  Handlers run with interrupts disabled, but *)
(* COUNT goes on under them: a pass of time_irq handles one timer per step,  *)
(* and time_set_timer reads COUNT and writes COMPARE in two.                 *)
(***************************************************************************)
EXTENDS Integers, FiniteSets

CONSTANTS
  Guests,       \* guests with a CP0 timer
  Tick, Func,   \* timer_array[0] and tmp_timer
  Q,            \* the queue's head, timerQ
  TickTime,     \* TIMER_TICK
  FirstTime,    \* what __main asks for the function timer
  FuncTime,     \* what the function timer asks for again
  Mult,         \* clock_time_multiplier
  Margin,       \* how close to COUNT a COMPARE may be set (100)
  Start,        \* COUNT at init_time
  Wrap,         \* 2^32
  Delays,       \* how far ahead of COUNT guests set their timers
  Latency,      \* bound: counts from a match to time_irq, of a pass and of a request
  Spend,        \* bound: counts from reading COUNT to writing COMPARE
  Pause,        \* bound: counts from reading COUNT to the next exit that requests
  Horizon       \* bound: counts of a run

Timers == {Tick, Func} \cup Guests
Links == Timers \cup {Q}

ASSUME TimerQueueAssumption ==
  /\ {TickTime, FirstTime, FuncTime, Mult, Margin, Wrap} \subseteq Nat \ {0}
  /\ {Start, Latency, Spend, Pause, Horizon} \subseteq Nat
  /\ Delays \subseteq 0 .. Wrap
  /\ Q \notin Timers /\ Tick # Func /\ {Tick, Func} \cap Guests = {}
  /\ Spend < Margin /\ Spend <= Pause /\ TickTime <= FirstTime

VARIABLES
  next, prev,          \* the links
  active,              \* TIMER_FLAG_ACTIVE
  time, lcount,        \* when a timer is due, as wall time and as COUNT
  current_wall_time, current_lcount,
  count,               \* COUNT, of any width
  compare,             \* COMPARE, of COUNT's width
  irq,                 \* Cause.TI: the two have matched
  pc,                  \* "idle", "request", "pass" of time_irq, or "arm" before
                       \* COMPARE is written
  at,                  \* the loop variable of time_irq
  armed, then,         \* the value to write, and where to go on
  late,                \* counts since the match that is being served
  since                \* counts since COUNT was read for COMPARE, up to Pause

links == <<next, prev, active, time, lcount>>
wall  == <<current_wall_time, current_lcount>>
vars  == <<links, wall, count, compare, irq, pc, at, armed, then, late, since>>

\* time_extend_count
Extend(base, c) ==
  LET high == base - (base % Wrap) IN
  IF c >= base % Wrap THEN high + c ELSE high + Wrap + c

time_get_lcount == Extend(current_lcount, count % Wrap)

InitialWallTime == Start * Mult
TimeOf(c) == c * Mult - InitialWallTime

\* Fault: rounded down.
CountBelow(t) == (t + InitialWallTime) \div Mult

\* The first count at which the wall time is t or more.
CountOf(t) == (t + InitialWallTime + Mult - 1) \div Mult

-----------------------------------------------------------------------------
(* The queue *)

Queue == [next |-> next, prev |-> prev, active |-> active, time |-> time, lcount |-> lcount]

Become(q) ==
  /\ next' = q.next /\ prev' = q.prev /\ active' = q.active
  /\ time' = q.time /\ lcount' = q.lcount

Unlink(q, t) ==
  [q EXCEPT !.next[q.prev[t]] = q.next[t], !.prev[q.next[t]] = q.prev[t],
            !.active = @ \ {t}]

\* Fault: a timer that is queued is queued once more.
OutNever(q, t) == q

\* A queued timer leaves its old place.
Out(q, t) == IF t \in q.active THEN Unlink(q, t) ELSE q

\* Fault: a timer is put at the end.
PlaceLast(q, x) == Q

\* The first timer in the queue that is later than x, or its head.
Place(q, x) ==
  LET from[p \in Links] == IF p = Q \/ q.time[p] > x THEN p ELSE from[q.next[p]]
  IN  from[q.next[Q]]

\* time_insert_timer, for timer t due at time x and count c.
Insert(q, t, x, c) ==
  LET o == Out(q, t)
      p == Place(o, x)
  IN  [o EXCEPT !.next = [@ EXCEPT ![t] = p, ![o.prev[p]] = t],
                !.prev = [@ EXCEPT ![t] = o.prev[p], ![p] = t],
                !.active = @ \cup {t}, !.time[t] = x, !.lcount[t] = c]

\* Fault: COMPARE may be set to what COUNT is, or was.
SoonAny(c, now) == c

\* A COMPARE too close to COUNT, or behind it, is put off.
Soon(c, now) == IF c - now < Margin THEN now + Margin ELSE c

\* time_set_timer(timerQ.next) of queue q, with COUNT read as now.
Arm(q, now, back) ==
  /\ pc' = "arm" /\ then' = back /\ since' = 0
  /\ armed' = Soon(q.lcount[q.next[Q]], now) % Wrap

\* Writing COMPARE clears TI, also when the match it stands for is not served.
WriteCompare ==
  /\ pc = "arm"
  /\ compare' = armed /\ irq' = FALSE
  /\ pc' = then
  /\ late' = IF then = "idle" THEN 0 ELSE late
  /\ UNCHANGED <<links, wall, count, at, armed, then, since>>

-----------------------------------------------------------------------------
(* Requests *)

\* time_update_wall_time
UpdateWallTime ==
  /\ current_wall_time' = current_wall_time + (time_get_lcount - current_lcount) * Mult
  /\ current_lcount' = time_get_lcount

\* A guest exit, or __main: no interrupt was pending then, but COUNT may match
\* before the request is made.
EnterRequest ==
  /\ pc = "idle" /\ ~irq /\ since >= Pause
  /\ pc' = "request" /\ late' = 0
  /\ UNCHANGED <<links, wall, count, compare, irq, at, armed, then, since>>

\* timer_g_irq_reschedule for guest g: MTC0 to COUNT or COMPARE and the end of a
\* timer IRQ, all of which update the wall time first.
GuestTimer(g, d) ==
  /\ pc = "request"
  /\ UpdateWallTime
  /\ LET c == time_get_lcount + d
         q == Insert(Queue, g, TimeOf(c), c)
     IN  Become(q) /\ Arm(q, time_get_lcount, "idle")
  /\ UNCHANGED <<count, compare, irq, at, late>>

\* timer_request from __main, once; the wall time is brought up to date only
\* when need_time_update says so.
FuncRequest ==
  /\ pc = "request" /\ lcount[Func] = 0
  /\ UpdateWallTime \/ UNCHANGED wall
  /\ LET x == current_wall_time' + FirstTime
         q == Insert(Queue, Func, x, CountOf(x))
     IN  Become(q) /\ Arm(q, time_get_lcount, "idle")
  /\ UNCHANGED <<count, compare, irq, at, late>>

-----------------------------------------------------------------------------
(* time_irq *)

\* do_IRQ calls it only when TI is set; TI stays until COMPARE is written.
TimeIrq ==
  /\ pc = "idle" /\ irq
  /\ UpdateWallTime
  /\ at' = next[Q] /\ pc' = "pass" /\ late' = 0
  /\ UNCHANGED <<links, count, compare, irq, armed, then, since>>

\* Fault: time_irq takes whatever is queued.
DueAny(t) == t # Q

Due(t) == t # Q /\ time[t] <= current_wall_time

\* The next tick that is still to come.
NextTick ==
  time[Tick] + TickTime * (1 + (current_wall_time + 1 - time[Tick]) \div TickTime)

\* handle_event of the tick calls reschedule, of a guest's timer execute_timer_IRQ:
\* neither touches the queue.
HandleTick ==
  /\ pc = "pass" /\ at = Tick /\ Due(Tick)
  /\ LET q == Insert(Unlink(Queue, Tick), Tick, NextTick, CountOf(NextTick)) IN
     Become(q) /\ at' = q.next[Tick]
  /\ UNCHANGED <<wall, count, compare, irq, pc, armed, then, late, since>>

HandleGuest ==
  /\ pc = "pass" /\ at \in Guests /\ Due(at)
  /\ Become(Unlink(Queue, at))
  /\ at' = next[at]
  /\ UNCHANGED <<wall, count, compare, irq, pc, armed, then, late, since>>

\* tmp_prt requests its own timer again.
HandleFunc ==
  /\ pc = "pass" /\ at = Func /\ Due(Func)
  /\ LET x == current_wall_time + FuncTime
         q == Insert(Unlink(Queue, Func), Func, x, CountOf(x))
     IN  Become(q) /\ at' = q.next[Func] /\ Arm(q, time_get_lcount, "pass")
  /\ UNCHANGED <<wall, count, compare, irq, late>>

EndPass ==
  /\ pc = "pass" /\ ~Due(at)
  /\ Arm(Queue, time_get_lcount, "idle")
  /\ UNCHANGED <<links, wall, count, compare, irq, at, late>>

\* COUNT goes on.  The match is served in time, and COMPARE written in time.
Count ==
  /\ count < Start + Horizon
  /\ irq \/ pc # "idle" => late < Latency
  /\ pc = "arm" => since < Spend
  /\ count' = count + 1
  /\ irq' = (irq \/ (count + 1) % Wrap = compare)
  /\ late' = IF irq \/ pc # "idle" THEN late + 1 ELSE 0
  /\ since' = IF since < Pause THEN since + 1 ELSE since
  /\ UNCHANGED <<links, wall, compare, pc, at, armed, then>>

Init ==
  /\ LET c == CountOf(TickTime)
         self == [p \in Links |-> p] IN
     /\ next = [self EXCEPT ![Q] = Tick, ![Tick] = Q]
     /\ prev = next
     /\ active = {Tick}
     /\ time = [t \in Timers |-> IF t = Tick THEN TickTime ELSE 0]
     /\ lcount = [t \in Timers |-> IF t = Tick THEN c ELSE 0]
     /\ compare = Soon(c, Start) % Wrap
  /\ current_wall_time = 0 /\ current_lcount = Start
  /\ count = Start /\ irq = FALSE
  /\ pc = "idle" /\ at = Q /\ armed = 0 /\ then = "idle"
  /\ late = 0 /\ since = 0

Next ==
  \/ Count \/ WriteCompare \/ EnterRequest
  \/ \E g \in Guests, d \in Delays : GuestTimer(g, d)
  \/ FuncRequest
  \/ TimeIrq \/ HandleTick \/ HandleGuest \/ HandleFunc \/ EndPass

Spec == Init /\ [][Next]_vars

-----------------------------------------------------------------------------
TypeOK ==
  /\ next \in [Links -> Links] /\ prev \in [Links -> Links]
  /\ active \subseteq Timers
  /\ time \in [Timers -> Nat] /\ lcount \in [Timers -> Nat]
  /\ \A t \in active : TimeOf(lcount[t]) >= time[t] /\ TimeOf(lcount[t] - 1) < time[t]
  /\ current_wall_time \in Nat /\ current_lcount \in Nat /\ count \in Nat
  /\ compare \in 0 .. Wrap - 1 /\ armed \in 0 .. Wrap - 1
  /\ irq \in BOOLEAN
  /\ pc \in {"idle", "request", "pass", "arm"} /\ then \in {"idle", "pass"}
  /\ at \in Links
  /\ late \in 0 .. Latency /\ since \in 0 .. Pause

(* The links are one ring of the active timers and timerQ, the same both      *)
(* ways, in the order of their times (time_insert_timer, the removals of      *)
(* time_irq and the requests made from inside its loop).                      *)
QueueIsSorted ==
  LET n == Cardinality(active)
      from[i \in 0 .. n + 1] == IF i = 0 THEN Q ELSE next[from[i - 1]]
  IN  /\ {from[i] : i \in 1 .. n} = active /\ from[n + 1] = Q
      /\ \A p \in active \cup {Q} : prev[next[p]] = p
      /\ \A i \in 1 .. n - 1 : time[from[i]] <= time[from[i + 1]]

\* Counts from now to the next match.
ToMatch == 1 + ((compare - count - 1) % Wrap)
AtMost(x, y, z) == x <= y \/ x <= z

(* Outside the handlers COMPARE stands for the first timer of the queue: the *)
(* match comes when that timer is due or, when that was too close, within    *)
(* the margin (time_set_timer after every change of the queue).               *)
HeadIsArmed ==
  pc = "idle" /\ ~irq => AtMost(ToMatch, Margin, lcount[next[Q]] - count)

\* How far ahead of current_lcount COMPARE is set by a handler that brings the
\* wall time up to date.
TickCounts == 1 + (TickTime \div Mult)
Ahead == IF TickCounts >= Margin + Latency THEN TickCounts ELSE Margin + Latency

\* COUNT does not go round between two updates of the wall time.
WrapIsLong == Ahead + Margin + 2 * Latency < Wrap

\* A request does not put off the COMPARE that the request before it put off.
RequestsApart == Margin <= Pause

(* A timer that is due is handled at most MaxLate counts later, also when the *)
(* loop of time_irq goes on behind it: from a timer it has just put back.     *)
Skip == Margin + 2 * Latency
MaxLate == 3 * Skip + Latency
FiresInTime == \A t \in active : count - lcount[t] <= MaxLate

(* No timer is handled before its time.                                       *)
NeverEarly ==
  [][\A t \in active : (t \notin active' \/ (pc = "pass" /\ lcount'[t] # lcount[t]))
       => count >= lcount[t]]_vars

=============================================================================
