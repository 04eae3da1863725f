-------------------------- MODULE GuestTime_proofs --------------------------
(***************************************************************************)
(* Proofs about GuestTime, for every width of COUNT, every value a guest     *)
(* writes and however long MTC0 COUNT takes.  Each theorem assumes only what  *)
(* it needs of the guest and of how its IRQs are noted.                       *)
(***************************************************************************)
EXTENDS GuestTime, TLAPS

-----------------------------------------------------------------------------
(* Arithmetic *)

LEMMA DivMod ==
  ASSUME NEW x \in Int
  PROVE  x \div W \in Int /\ x % W \in 0 .. W - 1 /\ x = W * (x \div W) + (x % W)
<1>1. W \in Nat /\ W > 2
  BY GuestTimeAssumption
<1> QED
  BY <1>1

LEMMA ModIsRest ==
  ASSUME NEW k \in Int, NEW c \in 0 .. W - 1
  PROVE  (W * k + c) % W = c
<1>1. W \in Nat /\ W > 2
  BY GuestTimeAssumption
<1> QED
  BY <1>1

LEMMA Multiples ==
  ASSUME NEW p \in Int, NEW q \in Int
  PROVE  /\ W * p \in Int /\ W * q \in Int
         /\ p >= q => W * p >= W * q
         /\ p >= q + 1 => W * p >= W * q + W
         /\ W * (q + 1) = W * q + W
  BY GuestTimeAssumption

(* Extend gives the first moment from base on whose low half is c.            *)
LEMMA ExtendIsNext ==
  ASSUME NEW base \in Int, NEW c \in 0 .. W - 1
  PROVE  /\ Extend(base, c) \in Int
         /\ base <= Extend(base, c) /\ Extend(base, c) < base + W
         /\ Extend(base, c) % W = c
<1> DEFINE q == base \div W
<1>1. q \in Int /\ base % W \in 0 .. W - 1 /\ base = W * q + (base % W)
  BY DivMod
<1>2. W * q \in Int /\ W * (q + 1) = W * q + W
  BY <1>1, Multiples
<1>3. (W * q + c) % W = c /\ (W * (q + 1) + c) % W = c
  BY <1>1, ModIsRest
<1> HIDE DEF q
<1>4. Extend(base, c) = IF c >= base % W THEN W * q + c ELSE W * q + W + c
  BY <1>1, <1>2, GuestTimeAssumption DEF Extend
<1>5. W \in Nat
  BY GuestTimeAssumption
<1> QED
  BY <1>1, <1>2, <1>3, <1>4, <1>5

(* No moment from base on with the same low half comes before it.             *)
LEMMA ExtendIsFirst ==
  ASSUME NEW base \in Int, NEW x \in Int, base <= x
  PROVE  /\ Extend(base, x % W) <= x
         /\ x < base + W => Extend(base, x % W) = x
         /\ Extend(base, x % W) # x => Extend(base, x % W) + W <= x
<1> DEFINE e == Extend(base, x % W)
           p == x \div W
           k == e \div W
<1>1. x % W \in 0 .. W - 1 /\ p \in Int /\ x = W * p + (x % W)
  BY DivMod
<1>2. e \in Int /\ base <= e /\ e < base + W /\ e % W = x % W
  BY <1>1, ExtendIsNext
<1> HIDE DEF e
<1>3. k \in Int /\ e = W * k + (e % W)
  BY <1>2, DivMod
<1> HIDE DEF p, k
<1>4. /\ W * p \in Int /\ W * k \in Int
      /\ p >= k => W * p >= W * k
      /\ p >= k + 1 => W * p >= W * k + W
      /\ k >= p + 1 => W * k >= W * p + W
  BY <1>1, <1>3, Multiples
<1>5. W \in Nat
  BY GuestTimeAssumption
<1>6. CASE k >= p + 1
  <2>1. e >= x + W
    BY <1>1, <1>2, <1>3, <1>4, <1>5, <1>6
  <2> QED
    BY <2>1, <1>2, <1>5
<1>7. CASE p >= k + 1
  <2>1. x >= e + W
    BY <1>1, <1>2, <1>3, <1>4, <1>5, <1>7
  <2> QED
    BY <2>1, <1>2, <1>5 DEF e
<1>8. CASE p = k
  <2>1. x = e
    BY <1>1, <1>2, <1>3, <1>8
  <2> QED
    BY <2>1, <1>1, <1>5 DEF e
<1> QED
  BY <1>1, <1>3, <1>6, <1>7, <1>8

(* Setting COUNT makes the guest's COUNT what was written.                    *)
LEMMA CountIsSet ==
  ASSUME NEW L \in Int, NEW v \in 0 .. W - 1
  PROVE  /\ Offset(v, L) \in 0 .. W - 1
         /\ Extend(L, v) = L + Offset(v, L)
         /\ (L + Offset(v, L)) % W = v
<1> DEFINE o == (v - L) % W
           d == (v - L) \div W
<1>1. v \in Int /\ W \in Nat /\ Offset(v, L) = o
  BY GuestTimeAssumption DEF Offset
<1>2. d \in Int /\ o \in 0 .. W - 1 /\ v - L = W * d + o
  BY <1>1, DivMod
<1> HIDE DEF o, d
<1>3. (0 - d) \in Int /\ W * (0 - d) = 0 - W * d /\ W * d \in Int
  BY <1>1, <1>2, GuestTimeAssumption
<1>4. L + o = W * (0 - d) + v
  BY <1>1, <1>2, <1>3
<1>5. (L + o) % W = v
  BY <1>2, <1>4, ModIsRest
<1>6. Extend(L, (L + o) % W) = L + o
  BY <1>1, <1>2, ExtendIsFirst
<1> QED
  BY <1>1, <1>2, <1>5, <1>6

-----------------------------------------------------------------------------
(* Types, for every guest *)

Numbers ==
  /\ current_lcount \in Nat /\ cp0_gtoffset \in 0 .. W - 1
  /\ last_used_lcount \in Int /\ lcompare \in Int
  /\ lcount2read \in Int /\ timer \in Int

Flags ==
  /\ chronic \in BOOLEAN /\ queued \in BOOLEAN
  /\ compared \in BOOLEAN /\ moved \in BOOLEAN
  /\ irq \in {"none", "raised", "taken", "unnoted"}

Types == Numbers /\ Flags

LEMMA Bounds ==
  /\ W \in Nat /\ W > 2 /\ Half \in Nat /\ Half < W
  /\ Values \subseteq 0 .. W - 1 /\ Starts \subseteq Nat /\ Spend \in Nat
<1>1. W \in Nat /\ W > 2 /\ W % 2 = 0
  BY GuestTimeAssumption
<1>2. W \div 2 - 1 \in Nat /\ W \div 2 - 1 < W
  BY <1>1
<1> QED
  BY <1>1, <1>2, GuestTimeAssumption DEF Half

(* An artificial COUNT is chosen only for a guest that is half a wrap late.   *)
LEMMA LateIsBehind ==
  ASSUME Types, NEW gcount \in Int, NEW used \in Int, Late(gcount, used)
  PROVE  /\ chronic' \in BOOLEAN /\ lcount2read' \in Int
         /\ chronic' => lcount2read' = used + Half /\ gcount + Half < GuestCount
<1>1. GuestCount \in Int /\ Half \in Int /\ lcount2read \in Int
  BY Bounds DEF Types, Numbers, Flags, GuestCount
<1>2. CASE GuestCount - gcount > Half
  BY <1>1, <1>2 DEF Late
<1>3. CASE ~(GuestCount - gcount > Half)
  BY <1>1, <1>3 DEF Late
<1> QED
  BY <1>2, <1>3

(* The timer is set for the moment, or that is past and the IRQ raised.       *)
LEMMA TimerIsSet ==
  ASSUME Types, NEW gcount \in Int, NEW otherwise, SetTimer(gcount, otherwise)
  PROVE  \/ GuestCount > gcount /\ irq' = "raised" /\ UNCHANGED <<queued, timer>>
         \/ /\ gcount >= GuestCount /\ irq' = otherwise
            /\ queued' = TRUE /\ timer' = gcount - cp0_gtoffset
<1>1. GuestCount \in Int
  BY Bounds DEF Types, Numbers, Flags, GuestCount
<1> QED
  BY <1>1 DEF SetTimer, IsLate, Reschedule

\* What MFC0 COUNT shows.
Shown == IF chronic THEN lcount2read ELSE Extend(last_used_lcount, GuestCount % W)

LEMMA ShownIsInt ==
  ASSUME Types
  PROVE  Shown \in Int /\ GuestCount \in Int /\ GuestCount % W \in 0 .. W - 1
<1>1. GuestCount \in Int
  BY Bounds DEF Types, Numbers, Flags, GuestCount
<1>2. GuestCount % W \in 0 .. W - 1
  BY <1>1, DivMod
<1>3. last_used_lcount \in Int /\ lcount2read \in Int
  BY DEF Types, Numbers, Flags
<1>4. Extend(last_used_lcount, GuestCount % W) \in Int
  BY <1>2, <1>3, ExtendIsNext
<1> QED
  BY <1>1, <1>2, <1>3, <1>4 DEF Shown

(* The count spent inside MTC0 COUNT, and what the write leaves.              *)
LEMMA CountIsMoved ==
  ASSUME Types, NEW v \in Values, SetCount(v)
  PROVE  /\ current_lcount' \in Nat /\ current_lcount <= current_lcount'
         /\ cp0_gtoffset' \in 0 .. W - 1
         /\ last_used_lcount' \in Nat /\ current_lcount <= last_used_lcount'
         /\ last_used_lcount' <= GuestCount'
         /\ last_used_lcount' % W = v /\ GuestCount' % W = v
         /\ queued' = TRUE /\ timer' = last_used_lcount' - cp0_gtoffset'
         /\ timer' \in Int
         /\ chronic' = FALSE /\ moved' = compared
         /\ UNCHANGED <<lcompare, lcount2read, compared, irq>>
<1>1. v \in 0 .. W - 1 /\ current_lcount \in Nat /\ W \in Nat
  BY Bounds DEF Types, Numbers, Flags
<1>2. PICK spent \in 0 .. Spend :
        /\ cp0_gtoffset' = Offset(v, current_lcount + spent)
        /\ current_lcount' = current_lcount + spent
  BY DEF SetCount
<1>3. last_used_lcount' = Extend(current_lcount, v)
  BY DEF SetCount
<1>4. spent \in Nat
  BY <1>2, Bounds
<1>5. /\ cp0_gtoffset' \in 0 .. W - 1
      /\ (current_lcount' + cp0_gtoffset') % W = v
  BY <1>1, <1>2, <1>4, CountIsSet
<1>6. /\ last_used_lcount' \in Int /\ current_lcount <= last_used_lcount'
      /\ last_used_lcount' % W = v
  BY <1>1, <1>3, ExtendIsNext
<1> DEFINE g == current_lcount' + cp0_gtoffset'
<1>7. g \in Int /\ current_lcount <= g /\ current_lcount <= current_lcount'
      /\ current_lcount' \in Nat
  BY <1>1, <1>2, <1>4, <1>5
<1>8. last_used_lcount' <= g
  <2>1. g % W = v
    BY <1>5
  <2> HIDE DEF g
  <2>2. Extend(current_lcount, g % W) <= g
    BY <1>1, <1>7, ExtendIsFirst
  <2> QED
    BY <2>1, <2>2, <1>3
<1>9. last_used_lcount' \in Nat
  BY <1>1, <1>6
<1>10. queued' = TRUE /\ timer' = last_used_lcount' - cp0_gtoffset'
  BY DEF SetCount, Reschedule
<1>11. timer' \in Int
  BY <1>1, <1>5, <1>6, <1>10
<1> QED
  BY <1>5, <1>6, <1>7, <1>8, <1>9, <1>10, <1>11 DEF SetCount, GuestCount

LEMMA TypesNext == Types /\ [Next]_vars => Types'
<1> SUFFICES ASSUME Types, [Next]_vars PROVE Types'
  OBVIOUS
<1>1. CASE UNCHANGED vars
  BY <1>1 DEF vars, Types, Numbers, Flags
<1>2. CASE ReadCount
  <2>1. Shown \in Int
    BY ShownIsInt
  <2>2. /\ last_used_lcount' = Shown /\ Late(Shown, Shown)
        /\ irq' \in {irq, "raised"}
        /\ UNCHANGED <<current_lcount, cp0_gtoffset, lcompare, queued, timer, compared, moved>>
    BY <1>2 DEF ReadCount, Shown
  <2>3. chronic' \in BOOLEAN /\ lcount2read' \in Int
    BY <2>1, <2>2, LateIsBehind
  <2> QED
    BY <2>1, <2>2, <2>3 DEF Types, Numbers, Flags
<1>3. ASSUME NEW v \in Values, SetCount(v) PROVE Types'
  <2>1. /\ current_lcount' \in Nat /\ cp0_gtoffset' \in 0 .. W - 1
        /\ last_used_lcount' \in Nat /\ queued' = TRUE /\ timer' \in Int
        /\ chronic' = FALSE /\ moved' = compared
        /\ UNCHANGED <<lcompare, lcount2read, compared, irq>>
    BY <1>3, CountIsMoved
  <2>2. Numbers'
    BY <2>1 DEF Types, Numbers
  <2>3. Flags'
    BY <2>1 DEF Types, Flags
  <2> QED
    BY <2>2, <2>3 DEF Types, Numbers, Flags
<1>4. ASSUME NEW v \in Values, SetCompare(v) PROVE Types'
  <2> DEFINE gcount == Extend(last_used_lcount, v)
  <2>1. gcount \in Int /\ last_used_lcount \in Int
    BY Bounds, ExtendIsNext DEF Types, Numbers, Flags
  <2> HIDE DEF gcount
  <2>2. /\ lcompare' = gcount /\ compared' = TRUE /\ moved' = FALSE
        /\ Late(gcount, last_used_lcount) /\ SetTimer(gcount, "none")
        /\ UNCHANGED <<current_lcount, cp0_gtoffset, last_used_lcount>>
    BY <1>4 DEF SetCompare, gcount
  <2>3. chronic' \in BOOLEAN /\ lcount2read' \in Int
    BY <2>1, <2>2, LateIsBehind
  <2>4. \/ irq' = "raised" /\ UNCHANGED <<queued, timer>>
        \/ irq' = "none" /\ queued' = TRUE /\ timer' = gcount - cp0_gtoffset
    BY <2>1, <2>2, TimerIsSet
  <2>5. gcount - cp0_gtoffset \in Int
    BY <2>1, Bounds DEF Types, Numbers, Flags
  <2> QED
    BY <2>1, <2>2, <2>3, <2>4, <2>5 DEF Types, Numbers, Flags
<1>5. CASE Take
  <2>1. CASE TakeNoted
    <3>1. lcompare \in Int /\ lcompare + W \in Int
      BY Bounds DEF Types, Numbers, Flags
    <3>2. chronic' \in BOOLEAN /\ lcount2read' \in Int
      BY <2>1, <3>1, LateIsBehind DEF TakeNoted
    <3>3. SetTimer(lcompare + W, "taken")
      BY <2>1 DEF TakeNoted
    <3>4. queued' \in BOOLEAN /\ timer' \in Int /\ irq' \in {"raised", "taken"}
      <4> DEFINE gcount == lcompare + W
      <4>1. gcount \in Int /\ SetTimer(gcount, "taken")
        BY <3>1, <3>3
      <4> HIDE DEF gcount
      <4>2. \/ irq' = "raised" /\ UNCHANGED <<queued, timer>>
            \/ irq' = "taken" /\ queued' = TRUE /\ timer' = gcount - cp0_gtoffset
        BY <4>1, TimerIsSet
      <4>3. gcount - cp0_gtoffset \in Int
        BY <4>1, Bounds DEF Types, Numbers, Flags
      <4> QED
        BY <4>2, <4>3 DEF Types, Numbers, Flags
    <3> QED
      BY <1>5, <2>1, <3>1, <3>2, <3>4 DEF Take, TakeNoted, Types, Numbers, Flags
  <2>2. CASE TakeUnnoted
    BY <1>5, <2>2 DEF Take, TakeUnnoted, Types, Numbers, Flags
  <2> QED
    BY <1>5, <2>1, <2>2 DEF Take
<1>6. CASE TimerIrq
  BY <1>6 DEF TimerIrq, Types, Numbers, Flags
<1>7. CASE Count
  BY <1>7 DEF Count, Types, Numbers, Flags
<1>8. CASE Restart
  <2>1. current_lcount - 1 \in Int /\ current_lcount \in Int /\ 0 \in 0 .. W - 1
    BY Bounds DEF Types, Numbers, Flags
  <2>2. chronic' \in BOOLEAN
    BY <1>8 DEF Restart
  <2>3. Numbers'
    BY <1>8, <2>1 DEF Restart, Types, Numbers
  <2>4. Flags'
    BY <1>8, <2>2 DEF Restart, Types, Flags
  <2> QED
    BY <2>3, <2>4 DEF Types, Numbers, Flags
<1> QED
  BY <1>1, <1>2, <1>3, <1>4, <1>5, <1>6, <1>7, <1>8 DEF Next

LEMMA InitTypes == Init => Types
<1> SUFFICES ASSUME Init PROVE Types
  OBVIOUS
<1>1. current_lcount \in Nat /\ current_lcount - 1 \in Int /\ 0 \in 0 .. W - 1
  BY Bounds DEF Init
<1>2. Numbers
  BY <1>1 DEF Init, Numbers
<1>3. Flags
  BY DEF Init, Flags
<1> QED
  BY <1>2, <1>3 DEF Types, Numbers, Flags

LEMMA TypesAlways == Spec => []Types
  BY InitTypes, TypesNext, PTL DEF Spec

-----------------------------------------------------------------------------
(* What holds of every guest *)

LEMMA ArmedNext == Types /\ ArmedForCompare /\ [Next]_vars => ArmedForCompare'
<1> SUFFICES ASSUME Types, ArmedForCompare, [Next]_vars PROVE ArmedForCompare'
  OBVIOUS
<1>1. CASE UNCHANGED vars
  BY <1>1 DEF vars, ArmedForCompare, Awaits
<1>2. CASE ReadCount
  BY <1>2 DEF ReadCount, ArmedForCompare, Awaits
<1>3. ASSUME NEW v \in Values, SetCount(v) PROVE ArmedForCompare'
  <2>1. queued' = TRUE /\ moved' = compared /\ UNCHANGED compared
    BY <1>3, CountIsMoved
  <2> QED
    BY <2>1 DEF ArmedForCompare, Awaits, Types, Numbers, Flags
<1>4. ASSUME NEW v \in Values, SetCompare(v) PROVE ArmedForCompare'
  BY <1>4 DEF SetCompare, SetTimer, Reschedule, ArmedForCompare, Awaits
<1>5. CASE Take
  <2>1. CASE TakeNoted
    BY <1>5, <2>1 DEF Take, TakeNoted, SetTimer, Reschedule, ArmedForCompare, Awaits
  <2>2. CASE TakeUnnoted
    BY <2>2 DEF TakeUnnoted, ArmedForCompare, Awaits
  <2> QED
    BY <1>5, <2>1, <2>2 DEF Take
<1>6. CASE TimerIrq
  BY <1>6 DEF TimerIrq, ArmedForCompare, Awaits
<1>7. CASE Count
  BY <1>7 DEF Count, ArmedForCompare, Awaits
<1>8. CASE Restart
  BY <1>8 DEF Restart, ArmedForCompare, Awaits
<1> QED
  BY <1>1, <1>2, <1>3, <1>4, <1>5, <1>6, <1>7, <1>8 DEF Next

(* A guest that awaits COMPARE has its timer in the queue, for the moment of  *)
(* COMPARE unless it has set COUNT since (MTC0 COUNT and COMPARE, the GHFC    *)
(* branch of do_EXC, time_irq).  Nothing is assumed of the guest.             *)
THEOREM TimerIsArmed == Spec => []ArmedForCompare
<1>1. Init => ArmedForCompare
  BY DEF Init, ArmedForCompare, Awaits
<1> QED
  BY <1>1, TypesAlways, ArmedNext, PTL DEF Spec

-----------------------------------------------------------------------------
(* Artificial COUNTs, when restarts clear the flags *)

LEMMA ArtificialNext ==
  ASSUME KeptFlags = FALSE
  PROVE  Types /\ ArtificialCount /\ [Next]_vars => ArtificialCount'
<1> SUFFICES ASSUME Types, ArtificialCount, [Next]_vars PROVE ArtificialCount'
  OBVIOUS
<1>1. CASE UNCHANGED vars
  BY <1>1 DEF vars, ArtificialCount, GuestCount
<1>2. CASE ReadCount
  <2>1. Shown \in Int /\ GuestCount \in Int
    BY ShownIsInt
  <2>2. /\ last_used_lcount' = Shown /\ Late(Shown, Shown) /\ GuestCount' = GuestCount
    BY <1>2 DEF ReadCount, Shown, GuestCount
  <2>3. chronic' => lcount2read' = Shown + Half /\ Shown + Half < GuestCount
    BY <2>1, <2>2, LateIsBehind
  <2> QED
    BY <2>2, <2>3 DEF ArtificialCount
<1>3. ASSUME NEW v \in Values, SetCount(v) PROVE ArtificialCount'
  BY <1>3, CountIsMoved DEF ArtificialCount
<1>4. ASSUME NEW v \in Values, SetCompare(v) PROVE ArtificialCount'
  <2> DEFINE gcount == Extend(last_used_lcount, v)
  <2>1. gcount \in Int /\ last_used_lcount \in Int /\ last_used_lcount <= gcount
    BY Bounds, ExtendIsNext DEF Types, Numbers, Flags
  <2> HIDE DEF gcount
  <2>2. /\ Late(gcount, last_used_lcount) /\ last_used_lcount' = last_used_lcount
        /\ GuestCount' = GuestCount /\ GuestCount \in Int
    BY <1>4, Bounds DEF SetCompare, gcount, GuestCount, Types, Numbers, Flags
  <2>3. chronic' => lcount2read' = last_used_lcount + Half /\ gcount + Half < GuestCount
    BY <2>1, <2>2, LateIsBehind
  <2> QED
    BY <2>1, <2>2, <2>3, Bounds DEF ArtificialCount
<1>5. CASE Take
  <2>1. GuestCount' = GuestCount /\ GuestCount \in Int
    BY <1>5, Bounds DEF Take, GuestCount, Types, Numbers, Flags
  <2>2. CASE TakeNoted
    <3>1. lcompare \in Int /\ lcompare + W \in Int
      BY Bounds DEF Types, Numbers, Flags
    <3>2. chronic' => lcount2read' = lcompare + Half /\ lcompare + W + Half < GuestCount
      BY <2>2, <3>1, LateIsBehind DEF TakeNoted
    <3> QED
      BY <2>1, <2>2, <3>1, <3>2, Bounds DEF ArtificialCount, TakeNoted
  <2>3. CASE TakeUnnoted
    BY <2>1, <2>3 DEF TakeUnnoted, ArtificialCount
  <2> QED
    BY <1>5, <2>2, <2>3 DEF Take
<1>6. CASE TimerIrq
  BY <1>6 DEF TimerIrq, ArtificialCount, GuestCount
<1>7. CASE Count
  BY <1>7, Bounds DEF Count, ArtificialCount, GuestCount, Types, Numbers, Flags
<1>8. CASE Restart
  BY <1>8 DEF Restart, ArtificialCount
<1> QED
  BY <1>1, <1>2, <1>3, <1>4, <1>5, <1>6, <1>7, <1>8 DEF Next

LEMMA ArtificialAlways ==
  ASSUME KeptFlags = FALSE
  PROVE  Spec => []ArtificialCount
<1>1. Init => ArtificialCount
  BY DEF Init, ArtificialCount
<1> QED
  BY <1>1, TypesAlways, ArtificialNext, PTL DEF Spec

(* An artificial COUNT goes on from what the guest has seen and stays behind  *)
(* its time (recalculate_late_timer), whatever the guest does to COUNT, when  *)
(* restarts clear THREAD_FLAGS_CHRONIC.                                       *)
THEOREM ArtificialCountIsRight ==
  ASSUME KeptFlags = FALSE
  PROVE  Spec => []ArtificialCount
  BY ArtificialAlways

-----------------------------------------------------------------------------
(* The guest's moments, when it sets COUNT before COMPARE only *)

(* What the guest has seen, the artificial COUNT it is shown next, and the    *)
(* COMPARE of an IRQ that is raised lie behind its time; COMPARE lies at most *)
(* a wrap from what it has seen.                                              *)
Past ==
  /\ last_used_lcount <= GuestCount
  /\ chronic => lcount2read <= GuestCount /\ (compared => last_used_lcount <= lcount2read)
  /\ compared => lcompare <= last_used_lcount + W
  /\ ~compared => lcompare < current_lcount
  /\ irq \in {"raised", "unnoted"} \/ chronic => lcompare <= GuestCount
  /\ ~moved

Timely == Types /\ Past /\ ArmedForCompare /\ WithinWrap

LEMMA InitTimely == Init => Past /\ WithinWrap
<1> SUFFICES ASSUME Init PROVE Past /\ WithinWrap
  OBVIOUS
<1>1. current_lcount \in Nat /\ cp0_gtoffset = 0 /\ GuestCount = current_lcount
  BY Bounds DEF Init, GuestCount
<1>2. last_used_lcount <= GuestCount /\ lcompare < current_lcount
  BY <1>1 DEF Init
<1>3. Past
  BY <1>2 DEF Init, Past
<1>4. WithinWrap
  BY DEF Init, WithinWrap
<1> QED
  BY <1>3, <1>4

(* What MFC0 COUNT shows lies between what the guest has seen and its time,   *)
(* and is a wrap behind when it is late.                                      *)
LEMMA ShownIsPast ==
  ASSUME Types, Past
  PROVE  /\ Shown \in Int /\ GuestCount \in Int
         /\ Shown <= GuestCount /\ (compared => last_used_lcount <= Shown)
         /\ compared /\ ~chronic /\ GuestCount > Shown => lcompare <= GuestCount
<1>1. Shown \in Int /\ GuestCount \in Int /\ GuestCount % W \in 0 .. W - 1
  BY ShownIsInt
<1>2. CASE chronic
  BY <1>1, <1>2 DEF Shown, Past
<1>3. CASE ~chronic
  <2>1. last_used_lcount \in Int /\ last_used_lcount <= GuestCount /\ lcompare \in Int /\ W \in Int
    BY Bounds DEF Types, Numbers, Flags, Past
  <2>2. Shown = Extend(last_used_lcount, GuestCount % W)
    BY <1>3 DEF Shown
  <2>3. last_used_lcount <= Shown
    BY <1>1, <2>1, <2>2, ExtendIsNext
  <2>4. Shown <= GuestCount /\ (Shown # GuestCount => Shown + W <= GuestCount)
    BY <1>1, <2>1, <2>2, ExtendIsFirst
  <2>5. compared => lcompare <= last_used_lcount + W
    BY DEF Past
  <2>6. compared /\ GuestCount > Shown => lcompare <= GuestCount
    BY <1>1, <2>1, <2>3, <2>4, <2>5
  <2> QED
    BY <1>1, <2>3, <2>4, <2>6
<1> QED
  BY <1>2, <1>3

LEMMA ReadCountIsTimely == Timely /\ ReadCount => Past' /\ WithinWrap'
<1> SUFFICES ASSUME Timely, ReadCount PROVE Past' /\ WithinWrap'
  OBVIOUS
<1>1. Types /\ Past /\ WithinWrap
  BY DEF Timely
<1>2. /\ last_used_lcount' = Shown /\ Late(Shown, Shown)
      /\ irq' = IF GuestCount > Shown THEN "raised" ELSE irq
      /\ UNCHANGED <<current_lcount, cp0_gtoffset, lcompare, queued, timer, compared, moved>>
      /\ GuestCount' = GuestCount
  BY DEF ReadCount, Shown, IsLate, GuestCount
<1>3. /\ Shown \in Int /\ GuestCount \in Int
      /\ Shown <= GuestCount /\ (compared => last_used_lcount <= Shown)
      /\ compared /\ ~chronic /\ GuestCount > Shown => lcompare <= GuestCount
  BY <1>1, ShownIsPast
<1>4. chronic' => lcount2read' = Shown + Half /\ Shown + Half < GuestCount
  BY <1>1, <1>2, <1>3, LateIsBehind
<1>5. lcompare \in Int /\ W \in Nat /\ Half \in Nat /\ last_used_lcount \in Int
  BY <1>1, Bounds DEF Types, Numbers, Flags
<1>6. GuestCount > Shown => lcompare <= GuestCount
  <2>1. CASE chronic
    BY <2>1, <1>1 DEF Past
  <2>2. CASE ~compared
    <3>1. lcompare < current_lcount
      BY <2>2, <1>1 DEF Past
    <3>2. current_lcount <= GuestCount /\ current_lcount \in Int
      BY <1>1, Bounds DEF Types, Numbers, Flags, GuestCount
    <3> QED
      BY <3>1, <3>2, <1>3, <1>5
  <2> QED
    BY <2>1, <2>2, <1>3
<1>7. irq' \in {"raised", "unnoted"} \/ chronic' => lcompare <= GuestCount
  <2>1. chronic' => GuestCount > Shown
    BY <1>3, <1>4, <1>5
  <2>2. irq' = irq \/ GuestCount > Shown
    BY <1>2
  <2>3. irq \in {"raised", "unnoted"} => lcompare <= GuestCount
    BY <1>1 DEF Past
  <2> QED
    BY <2>1, <2>2, <2>3, <1>6
<1>8. Past'
  <2>1. chronic' => lcount2read' <= GuestCount /\ Shown <= lcount2read'
    BY <1>3, <1>4, <1>5
  <2>2. compared => lcompare <= Shown + W
    BY <1>1, <1>3, <1>5 DEF Past
  <2>3. ~compared => lcompare < current_lcount
    BY <1>1 DEF Past
  <2> QED
    BY <2>1, <2>2, <2>3, <1>1, <1>2, <1>3, <1>7 DEF Past
<1>9. WithinWrap'
  <2>1. Awaits' => Awaits
    BY <1>2 DEF Awaits
  <2> QED
    BY <2>1, <1>1, <1>2 DEF WithinWrap
<1> QED
  BY <1>8, <1>9

LEMMA SetCountIsTimely ==
  ASSUME LateWrites = FALSE, NEW v \in Values
  PROVE  Timely /\ SetCount(v) => Past' /\ WithinWrap'
<1> SUFFICES ASSUME Timely, SetCount(v) PROVE Past' /\ WithinWrap'
  OBVIOUS
<1>1. Types /\ Past
  BY DEF Timely
<1>2. ~compared
  BY DEF SetCount
<1>3. /\ current_lcount' \in Nat /\ current_lcount <= current_lcount'
      /\ cp0_gtoffset' \in 0 .. W - 1
      /\ last_used_lcount' \in Nat /\ last_used_lcount' <= GuestCount'
      /\ timer' = last_used_lcount' - cp0_gtoffset' /\ lcompare' = lcompare
  BY <1>1, CountIsMoved
<1>4. /\ chronic' = FALSE /\ moved' = compared
      /\ UNCHANGED <<lcount2read, compared, irq>>
  BY <1>1, CountIsMoved
<1>5. lcompare < current_lcount /\ lcompare \in Int /\ current_lcount \in Int
  BY <1>1, <1>2 DEF Past, Types, Numbers, Flags
<1>6. /\ lcompare' < current_lcount' /\ lcompare' <= GuestCount'
      /\ timer' - current_lcount' <= W
  <2> DEFINE c == current_lcount'
             o == cp0_gtoffset'
             u == last_used_lcount'
             g == GuestCount'
  <2>1. g = c + o
    BY DEF GuestCount
  <2>2. c \in Nat /\ o \in Nat /\ u \in Nat /\ u <= g /\ current_lcount <= c /\ W \in Nat
    BY <1>3, Bounds
  <2>3. timer' = u - o
    BY <1>3
  <2> HIDE DEF c, o, u, g
  <2>4. lcompare < c /\ lcompare <= g /\ (u - o) - c <= W
    BY <2>1, <2>2, <1>5
  <2> QED
    BY <2>3, <2>4, <1>3 DEF c, g
<1>7. Past'
  BY <1>2, <1>3, <1>4, <1>6 DEF Past
<1>9. WithinWrap'
  BY <1>2, <1>3, <1>4, <1>6 DEF WithinWrap, Awaits
<1> QED
  BY <1>7, <1>9

(* A timer that is set for a moment at most a wrap from the guest's time.     *)
LEMMA SetWithinWrap ==
  ASSUME Types, WithinWrap, NEW gcount \in Int, NEW otherwise, otherwise # "raised",
         gcount <= GuestCount + W, SetTimer(gcount, otherwise), UNCHANGED current_lcount
  PROVE  WithinWrap'
<1>1. /\ GuestCount = current_lcount + cp0_gtoffset /\ W \in Nat
      /\ current_lcount \in Nat /\ cp0_gtoffset \in Nat
  BY Bounds DEF Types, Numbers, Flags, GuestCount
<1>2. CASE irq' = "raised" /\ UNCHANGED <<queued, timer>>
  BY <1>2 DEF WithinWrap, Awaits
<1>3. CASE gcount >= GuestCount /\ queued' = TRUE /\ timer' = gcount - cp0_gtoffset
  <2>1. 0 <= timer' /\ timer' - current_lcount <= W
    BY <1>1, <1>3
  <2> QED
    BY <2>1 DEF WithinWrap
<1> QED
  BY <1>2, <1>3, TimerIsSet

LEMMA SetCompareIsTimely ==
  ASSUME NEW v \in Values
  PROVE  Timely /\ SetCompare(v) => Past' /\ WithinWrap'
<1> SUFFICES ASSUME Timely, SetCompare(v) PROVE Past' /\ WithinWrap'
  OBVIOUS
<1> DEFINE gcount == Extend(last_used_lcount, v)
<1>1. Types /\ Past /\ WithinWrap
  BY DEF Timely
<1>2. /\ GuestCount \in Int /\ W \in Nat /\ Half \in Nat
      /\ last_used_lcount \in Int /\ last_used_lcount <= GuestCount
  BY <1>1, Bounds DEF Types, Numbers, Flags, GuestCount, Past
<1>3. /\ gcount \in Int /\ last_used_lcount <= gcount /\ gcount < last_used_lcount + W
  BY <1>2, Bounds, ExtendIsNext
<1> HIDE DEF gcount
<1>4. /\ lcompare' = gcount /\ compared' = TRUE /\ moved' = FALSE
      /\ Late(gcount, last_used_lcount) /\ SetTimer(gcount, "none")
      /\ UNCHANGED <<current_lcount, cp0_gtoffset, last_used_lcount>>
      /\ GuestCount' = GuestCount
  BY DEF SetCompare, gcount, GuestCount
<1>5. chronic' => lcount2read' = last_used_lcount + Half /\ gcount + Half < GuestCount
  BY <1>1, <1>2, <1>3, <1>4, LateIsBehind
<1>6. irq' = "none" \/ (irq' = "raised" /\ GuestCount > gcount)
  BY <1>1, <1>3, <1>4, TimerIsSet
<1>7. Past'
  <2>1. chronic' => lcount2read' <= GuestCount /\ last_used_lcount <= lcount2read' /\ gcount <= GuestCount
    BY <1>2, <1>3, <1>5
  <2>2. gcount <= last_used_lcount + W
    BY <1>2, <1>3
  <2>3. irq' \in {"raised", "unnoted"} => gcount <= GuestCount
    BY <1>2, <1>3, <1>6
  <2> QED
    BY <2>1, <2>2, <2>3, <1>2, <1>4 DEF Past
<1>8. gcount <= GuestCount + W
  BY <1>2, <1>3
<1>9. WithinWrap'
  BY <1>1, <1>3, <1>4, <1>8, SetWithinWrap
<1> QED
  BY <1>7, <1>9

LEMMA TakeIsTimely == Timely /\ Take => Past' /\ WithinWrap'
<1> SUFFICES ASSUME Timely, Take PROVE Past' /\ WithinWrap'
  OBVIOUS
<1>1. Types /\ Past /\ WithinWrap
  BY DEF Timely
<1>2. irq = "raised" /\ compared /\ lcompare <= GuestCount
  BY <1>1 DEF Take, Past
<1>3. /\ GuestCount' = GuestCount /\ UNCHANGED <<current_lcount, cp0_gtoffset, compared>>
      /\ GuestCount \in Int /\ W \in Nat /\ Half \in Nat /\ lcompare \in Int
  BY <1>1, Bounds DEF Take, GuestCount, Types, Numbers, Flags
<1>4. CASE TakeNoted
  <2> DEFINE gcount == lcompare + W
  <2>1. gcount \in Int /\ gcount <= GuestCount + W /\ lcompare <= gcount
    BY <1>2, <1>3
  <2>2. /\ last_used_lcount' = lcompare /\ lcompare' = gcount /\ moved' = FALSE
        /\ Late(gcount, lcompare) /\ SetTimer(gcount, "taken")
    BY <1>4 DEF TakeNoted
  <2>3. gcount = lcompare + W
    OBVIOUS
  <2> HIDE DEF gcount
  <2>4. chronic' => lcount2read' = lcompare + Half /\ gcount + Half < GuestCount
    BY <1>1, <1>3, <2>1, <2>2, LateIsBehind
  <2>5. irq' = "taken" \/ (irq' = "raised" /\ GuestCount > gcount)
    BY <1>1, <2>1, <2>2, TimerIsSet
  <2>6. chronic' => lcount2read' <= GuestCount /\ lcompare <= lcount2read' /\ gcount <= GuestCount
    BY <1>3, <2>1, <2>4
  <2>7. irq' \in {"raised", "unnoted"} => gcount <= GuestCount
    BY <1>3, <2>1, <2>5
  <2>8. Past'
    BY <1>2, <1>3, <2>1, <2>2, <2>3, <2>6, <2>7 DEF Past
  <2>9. WithinWrap'
    BY <1>1, <1>3, <2>1, <2>2, SetWithinWrap
  <2> QED
    BY <2>8, <2>9
<1>5. CASE TakeUnnoted
  <2>1. irq' = "unnoted" /\ UNCHANGED <<last_used_lcount, lcompare, chronic, lcount2read, queued, timer, moved>>
    BY <1>5 DEF TakeUnnoted
  <2>2. Past'
    BY <1>1, <1>2, <1>3, <2>1 DEF Past
  <2>3. WithinWrap'
    BY <1>1, <1>3, <2>1 DEF WithinWrap, Awaits
  <2> QED
    BY <2>2, <2>3
<1> QED
  BY <1>4, <1>5 DEF Take

LEMMA RootIsTimely == Timely /\ (TimerIrq \/ Count \/ Restart) => Past' /\ WithinWrap'
<1> SUFFICES ASSUME Timely, TimerIrq \/ Count \/ Restart PROVE Past' /\ WithinWrap'
  OBVIOUS
<1>1. Types /\ Past /\ WithinWrap /\ ArmedForCompare
  BY DEF Timely
<1>2. /\ current_lcount \in Nat /\ cp0_gtoffset \in Nat /\ W \in Nat
      /\ lcompare \in Int /\ timer \in Int /\ last_used_lcount \in Int /\ lcount2read \in Int
      /\ GuestCount = current_lcount + cp0_gtoffset
  BY <1>1, Bounds DEF Types, Numbers, Flags, GuestCount
<1>3. CASE TimerIrq
  <2>1. /\ timer <= current_lcount /\ queued' = FALSE /\ irq' = "raised"
        /\ UNCHANGED <<current_lcount, cp0_gtoffset, last_used_lcount, lcompare, chronic,
                       lcount2read, timer, compared, moved>>
        /\ GuestCount' = GuestCount
    BY <1>3 DEF TimerIrq, Due, GuestCount
  <2>2. lcompare <= GuestCount
    <3>1. CASE ~compared
      <4>1. lcompare < current_lcount
        BY <3>1, <1>1 DEF Past
      <4> QED
        BY <4>1, <1>2
    <3>2. CASE Awaits
      <4>1. timer = lcompare - cp0_gtoffset
        BY <3>2, <1>1 DEF Past, ArmedForCompare
      <4> QED
        BY <4>1, <1>2, <2>1
    <3>3. CASE irq \in {"raised", "unnoted"}
      BY <3>3, <1>1 DEF Past
    <3> QED
      BY <3>1, <3>2, <3>3, <1>1 DEF Awaits, Types, Numbers, Flags
  <2>3. Past'
    BY <1>1, <2>1, <2>2 DEF Past
  <2>4. WithinWrap'
    BY <2>1 DEF WithinWrap
  <2> QED
    BY <2>3, <2>4
<1>4. CASE Count
  <2>1. /\ current_lcount' = current_lcount + 1 /\ GuestCount' = GuestCount + 1
        /\ UNCHANGED <<cp0_gtoffset, last_used_lcount, lcompare, chronic, lcount2read,
                       queued, timer, compared, irq, moved>>
    BY <1>4, <1>2 DEF Count, GuestCount
  <2>2. Past'
    BY <1>1, <1>2, <2>1 DEF Past
  <2>3. timer - current_lcount <= W => timer - current_lcount' <= W
    BY <1>2, <2>1
  <2>4. WithinWrap'
    BY <1>1, <2>1, <2>3 DEF WithinWrap, Awaits
  <2> QED
    BY <2>2, <2>4
<1>5. CASE Restart
  <2>1. /\ last_used_lcount' = current_lcount /\ lcompare' = current_lcount - 1
        /\ lcount2read' = 0 /\ compared' = FALSE /\ irq' = "none" /\ moved' = FALSE
        /\ cp0_gtoffset' = 0 /\ UNCHANGED <<current_lcount, queued, timer>>
    BY <1>5 DEF Restart
  <2>2. GuestCount' = current_lcount
    BY <1>2, <2>1 DEF GuestCount
  <2>3. current_lcount - 1 < current_lcount /\ current_lcount - 1 <= current_lcount /\ 0 <= current_lcount
    BY <1>2
  <2>4. Past'
    BY <1>2, <2>1, <2>2, <2>3 DEF Past
  <2>5. WithinWrap'
    BY <1>1, <2>1 DEF WithinWrap, Awaits
  <2> QED
    BY <2>4, <2>5
<1> QED
  BY <1>3, <1>4, <1>5

LEMMA TimelyNext ==
  ASSUME LateWrites = FALSE
  PROVE  Timely /\ [Next]_vars => Timely'
<1> SUFFICES ASSUME Timely, [Next]_vars PROVE Past' /\ WithinWrap'
  BY TypesNext, ArmedNext DEF Timely
<1>1. CASE UNCHANGED vars
  BY <1>1 DEF vars, Timely, Past, WithinWrap, Awaits, GuestCount
<1>2. CASE Next
  BY <1>2, ReadCountIsTimely, SetCountIsTimely, SetCompareIsTimely, TakeIsTimely, RootIsTimely
  DEF Next
<1> QED
  BY <1>1, <1>2

LEMMA TimelyAlways ==
  ASSUME LateWrites = FALSE
  PROVE  Spec => []Timely
<1>1. Init => Timely
  BY InitTypes, InitTimely DEF Timely, Init, ArmedForCompare, Awaits
<1> QED
  BY <1>1, TimelyNext, PTL DEF Spec

(* What a guest that sets COUNT only before COMPARE has seen of its time is   *)
(* never ahead of it (do_gpsi, do_EXC): also with COUNT going on inside MTC0  *)
(* COUNT, unnoted timer IRQs, and restarts that keep the flags.               *)
THEOREM TypeCorrect ==
  ASSUME LateWrites = FALSE
  PROVE  Spec => []TypeOK
<1>1. Timely => TypeOK
  BY DEF Timely, Types, Numbers, Flags, Past, TypeOK
<1> QED
  BY <1>1, TimelyAlways, PTL

(* The root's queue is asked for times within a wrap (every caller of         *)
(* timer_g_irq_reschedule), for a guest that sets COUNT only before COMPARE.   *)
THEOREM RequestsAreWithinWrap ==
  ASSUME LateWrites = FALSE
  PROVE  Spec => []WithinWrap
<1>1. Timely => WithinWrap
  BY DEF Timely
<1> QED
  BY <1>1, TimelyAlways, PTL

-----------------------------------------------------------------------------
(* GuestTime implements GuestClock *)

\* A guest that sets COUNT only before COMPARE, whose timer IRQs GHFC notes, and
\* whose restarts clear the flags.
Disciplined == LateWrites = FALSE /\ Noted = {TRUE} /\ KeptFlags = FALSE

Inv == Timely /\ ArtificialCount

LEMMA InvNext ==
  ASSUME Disciplined
  PROVE  Inv /\ [Next]_vars => Inv'
  BY TimelyNext, ArtificialNext DEF Disciplined, Inv, Timely

LEMMA ReadCountIsClock == Inv /\ ReadCount => Clock!ReadCount
<1> SUFFICES ASSUME Inv, ReadCount PROVE Clock!ReadCount
  OBVIOUS
<1>1. Types /\ Past /\ ArtificialCount /\ Past'
  BY ReadCountIsTimely DEF Inv, Timely
<1>2. /\ last_used_lcount' = Shown /\ GuestCount' = GuestCount
      /\ irq' \in {irq, "raised"} /\ (irq' = irq \/ irq' = "raised")
      /\ UNCHANGED <<lcompare, compared>>
  BY DEF ReadCount, Shown, GuestCount
<1>3. Shown \in Int /\ GuestCount \in Int /\ Shown <= GuestCount
  BY <1>1, ShownIsPast
<1>4. last_used_lcount <= Shown
  <2>1. CASE chronic
    BY <2>1, <1>1, Bounds DEF Shown, ArtificialCount, Types, Numbers, Flags
  <2>2. CASE ~chronic
    <3>1. GuestCount % W \in 0 .. W - 1 /\ last_used_lcount \in Int
      BY <1>1, ShownIsInt DEF Types, Numbers, Flags
    <3> QED
      BY <3>1, <2>2, ExtendIsNext DEF Shown
  <2> QED
    BY <2>1, <2>2
<1>5. last_used_lcount' \in last_used_lcount .. GuestCount
  BY <1>1, <1>2, <1>3, <1>4 DEF Types, Numbers, Flags
<1>6. irq' = irq \/ lcompare' <= GuestCount
  BY <1>1, <1>2 DEF Past
<1> QED
  BY <1>2, <1>5, <1>6 DEF Clock!ReadCount, Clock!MayRaise

LEMMA SetCountIsClock ==
  ASSUME Disciplined, NEW v \in Values
  PROVE  Inv /\ SetCount(v) => Clock!SetCount(v) /\ v \in 0 .. W - 1
<1> SUFFICES ASSUME Inv, SetCount(v) PROVE Clock!SetCount(v) /\ v \in 0 .. W - 1
  OBVIOUS
<1>1. v \in 0 .. W - 1 /\ W \in Nat /\ ~compared
  BY Bounds DEF SetCount, Disciplined
<1>2. /\ current_lcount' \in Nat /\ cp0_gtoffset' \in 0 .. W - 1
      /\ last_used_lcount' \in Nat /\ last_used_lcount' <= GuestCount'
      /\ last_used_lcount' % W = v /\ GuestCount' % W = v
      /\ UNCHANGED <<lcompare, compared, irq>>
  BY CountIsMoved DEF Inv, Timely
<1>3. GuestCount' \in Nat
  <2> DEFINE c == current_lcount'
             o == cp0_gtoffset'
  <2>1. GuestCount' = c + o
    BY DEF GuestCount
  <2>2. c \in Nat /\ o \in Nat
    BY <1>1, <1>2
  <2> HIDE DEF c, o
  <2>3. c + o \in Nat
    BY <2>2
  <2> QED
    BY <2>1, <2>3
<1>4. last_used_lcount' \in 0 .. GuestCount'
  BY <1>2, <1>3
<1> QED
  BY <1>1, <1>2, <1>3, <1>4 DEF Clock!SetCount

LEMMA SetCompareIsClock ==
  ASSUME NEW v \in Values
  PROVE  Inv /\ SetCompare(v) => Clock!SetCompare(v) /\ v \in 0 .. W - 1
<1> SUFFICES ASSUME Inv, SetCompare(v) PROVE Clock!SetCompare(v) /\ v \in 0 .. W - 1
  OBVIOUS
<1>1. v \in 0 .. W - 1 /\ GuestCount' = GuestCount
  BY Bounds DEF SetCompare, GuestCount
<1>2. Past'
  BY SetCompareIsTimely DEF Inv
<1>3. irq' \in {"none", "raised"} /\ (irq' = "raised" => lcompare' <= GuestCount)
  BY <1>1, <1>2 DEF SetCompare, SetTimer, Past
<1> QED
  BY <1>1, <1>3 DEF SetCompare, Clock!SetCompare, Extend, Clock!Extend

LEMMA TakeIsClock ==
  ASSUME Disciplined
  PROVE  Inv /\ Take => Clock!Take
<1> SUFFICES ASSUME Inv, Take PROVE Clock!Take
  OBVIOUS
<1>1. TakeNoted
  BY DEF Take, Disciplined
<1>2. GuestCount' = GuestCount /\ Past'
  BY TakeIsTimely DEF Take, GuestCount, Inv
<1>3. irq' \in {"taken", "raised"} /\ (irq' = "raised" => lcompare' <= GuestCount)
  BY <1>1, <1>2 DEF TakeNoted, SetTimer, Past
<1> QED
  BY <1>1, <1>2, <1>3 DEF Take, TakeNoted, Clock!Take

LEMMA RootIsClock ==
  Inv /\ (TimerIrq \/ Count \/ Restart) => Clock!Next \/ UNCHANGED Clock!clock
<1> SUFFICES ASSUME Inv, TimerIrq \/ Count \/ Restart
             PROVE  Clock!Next \/ UNCHANGED Clock!clock
  OBVIOUS
<1>1. CASE TimerIrq
  <2>1. GuestCount' = GuestCount /\ Past' /\ lcompare' = lcompare
    BY <1>1, RootIsTimely DEF TimerIrq, GuestCount, Inv
  <2>2. irq' = "raised" /\ UNCHANGED <<last_used_lcount, lcompare, compared>>
    BY <1>1 DEF TimerIrq
  <2>3. lcompare <= GuestCount
    BY <2>1, <2>2 DEF Past
  <2>4. CASE irq = "raised"
    BY <2>4, <2>1, <2>2 DEF Clock!clock
  <2>5. CASE irq # "raised"
    BY <2>5, <2>1, <2>2, <2>3 DEF Clock!Next, Clock!Raise
  <2> QED
    BY <2>4, <2>5
<1>2. CASE Count
  <2>1. GuestCount' > GuestCount
    BY <1>2, Bounds DEF Count, Inv, Timely, Types, Numbers, Flags, GuestCount
  <2> QED
    BY <2>1, <1>2 DEF Count, Clock!Next, Clock!Advance
<1>3. CASE Restart
  <2>1. GuestCount' = current_lcount /\ current_lcount \in Nat
    BY <1>3, Bounds DEF Restart, Inv, Timely, Types, Numbers, Flags, GuestCount
  <2> QED
    BY <2>1, <1>3 DEF Restart, Clock!Next, Clock!Restart
<1> QED
  BY <1>1, <1>2, <1>3

LEMMA NextIsClock ==
  ASSUME Disciplined
  PROVE  Inv /\ [Next]_vars => [Clock!Next]_Clock!clock
<1> SUFFICES ASSUME Inv, [Next]_vars PROVE Clock!Next \/ UNCHANGED Clock!clock
  OBVIOUS
<1>1. CASE UNCHANGED vars
  BY <1>1 DEF vars, Clock!clock, GuestCount
<1>2. CASE ReadCount \/ Take
  BY <1>2, ReadCountIsClock, TakeIsClock DEF Clock!Next
<1>3. CASE \E v \in Values : SetCount(v) \/ SetCompare(v)
  BY <1>3, SetCountIsClock, SetCompareIsClock DEF Clock!Next
<1>4. CASE TimerIrq \/ Count \/ Restart
  BY <1>4, RootIsClock
<1> QED
  BY <1>1, <1>2, <1>3, <1>4 DEF Next

(* The guest's COUNT and COMPARE implement GuestClock: every COMPARE stands   *)
(* for the first moment behind what the guest has seen, and no timer IRQ      *)
(* comes before it, however late the guest is (do_gpsi, do_EXC, time_irq).    *)
(* This holds of a guest that sets COUNT only before COMPARE, whose timer     *)
(* IRQs GHFC notes before insert_IRQ does, and whose restarts clear           *)
(* THREAD_FLAGS_CHRONIC (Disciplined), however long MTC0 COUNT takes.         *)
THEOREM TimeIsNeverEarly ==
  ASSUME Disciplined
  PROVE  Spec => Clock!Safe
<1>1. Init => Clock!Init
  <2> SUFFICES ASSUME Init PROVE Clock!Init
    OBVIOUS
  <2>1. GuestCount = current_lcount /\ current_lcount \in Nat
    BY Bounds DEF Init, GuestCount
  <2> QED
    BY <2>1 DEF Init, Clock!Init
<1>2. Spec => []Inv
  BY TimelyAlways, ArtificialAlways, PTL DEF Disciplined, Inv
<1> QED
  BY <1>1, <1>2, NextIsClock, PTL DEF Spec, Clock!Safe

=============================================================================
