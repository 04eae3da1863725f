----------------------------- MODULE GuestClock -----------------------------
(***************************************************************************)
(* What tinyVP promises a guest about its CP0 COUNT and COMPARE             *)
(* (exception.c:28-45): its COUNT counts, possibly late; every COMPARE it    *)
(* writes stands for one moment of its own 64-bit time, the first one behind *)
(* what it knows of that time; the timer IRQ of that moment comes, and not   *)
(* before it.                                                                *)
(***************************************************************************)
EXTENDS Integers

CONSTANT W   \* 2^32, what COUNT wraps at

VARIABLES
  now,       \* the guest's time
  known,     \* the last moment the guest has seen, by COUNT or a timer IRQ
  deadline,  \* the moment COMPARE stands for
  asked,     \* the guest has written COMPARE
  irq        \* its timer IRQ: "none", "raised" or "taken"

clock == <<now, known, deadline, asked, irq>>

\* The first moment from base on at which the 32-bit count is c.
Extend(base, c) ==
  LET high == base - (base % W) IN
  IF c >= base % W THEN high + c ELSE high + W + c

\* An IRQ can be raised for a moment that has come.
MayRaise == irq' \in {irq, "raised"} /\ (irq' = irq \/ deadline' <= now)

Advance ==
  /\ now' > now
  /\ UNCHANGED <<known, deadline, asked, irq>>

\* The guest starts over, its time is the root's.
Restart ==
  /\ now' \in Nat /\ known' = now' /\ deadline' = now' - 1
  /\ asked' = FALSE /\ irq' = "none"

\* COUNT is set, before COMPARE is used.
SetCount(v) ==
  /\ ~asked
  /\ now' \in Nat /\ known' \in 0 .. now'
  /\ now' % W = v /\ known' % W = v
  /\ UNCHANGED <<deadline, asked, irq>>

ReadCount ==
  /\ known' \in known .. now
  /\ MayRaise
  /\ UNCHANGED <<now, deadline, asked>>

SetCompare(v) ==
  /\ deadline' = Extend(known, v) /\ asked' = TRUE
  /\ irq' \in {"none", "raised"} /\ (irq' = "raised" => deadline' <= now)
  /\ UNCHANGED <<now, known>>

Raise ==
  /\ irq # "raised" /\ deadline <= now /\ irq' = "raised"
  /\ UNCHANGED <<now, known, deadline, asked>>

\* COMPARE will match again one wrap later.
Take ==
  /\ irq = "raised"
  /\ known' = deadline /\ deadline' = deadline + W
  /\ irq' \in {"taken", "raised"} /\ (irq' = "raised" => deadline' <= now)
  /\ UNCHANGED <<now, asked>>

Init == now \in Nat /\ known = now /\ deadline = now - 1 /\ ~asked /\ irq = "none"

Next ==
  \/ Advance \/ Restart \/ ReadCount \/ Raise \/ Take
  \/ \E v \in 0 .. W - 1 : SetCount(v) \/ SetCompare(v)

\* A deadline that has passed is acted upon.
Demanded == asked /\ Raise

Safe == Init /\ [][Next]_clock
Spec == Safe /\ WF_clock(Demanded)

=============================================================================
