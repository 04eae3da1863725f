------------------------ MODULE LazyRegisters_proofs ------------------------
(***************************************************************************)
(* LazyRegisters implements PrivateRegisters: the saved and the live         *)
(* registers together are registers of each guest's own.                    *)
(***************************************************************************)
EXTENDS LazyRegisters, TLAPS

(* The types are an invariant of every step.                                *)
LEMMA TypeStep ==
  ASSUME TypeOK, [Next]_vars
  PROVE  TypeOK'
<1> USE LazyAssumption DEF TypeOK, Threads, Insns
<1>1. CASE UNCHANGED vars
  BY <1>1 DEF vars
<1>2. ASSUME NEW u \in Units, Unusable(u)
      PROVE  TypeOK'
  <2>1. /\ current \in Guests /\ current' = current /\ stopped' = stopped /\ seen' = {}
        /\ wants' = [wants EXCEPT ![current] = NoInsn]
        /\ enabled' = [enabled EXCEPT ![u] = @ \cup {current}]
    BY <1>2 DEF Unusable, Acquire
  <2>2. current' \in Threads /\ stopped' \subseteq Guests
        /\ wants' \in [Guests -> Insns \cup {NoInsn}]
        /\ seen' \in SUBSET (Guests \X Units \X Values)
    BY <2>1
  <2>3. enabled' \in [Units -> SUBSET Guests]
    BY <2>1
  <2>4. CASE owner[u] = current
    BY <1>2, <2>2, <2>3, <2>4 DEF Unusable, Acquire
  <2>5. CASE owner[u] # current
    <3>1. /\ saved' = [saved EXCEPT ![u][owner[u]] = live[u]]
          /\ owner' = [owner EXCEPT ![u] = current]
          /\ live' = [live EXCEPT ![u] = saved'[u][current]]
      BY <1>2, <2>5 DEF Unusable, Acquire, Saved
    <3>2. saved' \in [Units -> [Threads -> Values]]
      <4>1. saved' = [saved EXCEPT ![u] = [saved[u] EXCEPT ![owner[u]] = live[u]]]
        BY <3>1
      <4>2. [saved[u] EXCEPT ![owner[u]] = live[u]] \in [Threads -> Values]
        OBVIOUS
      <4> QED
        BY <4>1, <4>2
    <3>3. saved'[u][current] \in Values
      <4>1. saved'[u] \in [Threads -> Values]
        BY <3>2
      <4> QED
        BY <2>1, <4>1
    <3>4. live' \in [Units -> Values] /\ owner' \in [Units -> Threads]
      BY <2>1, <3>1, <3>3
    <3> QED
      BY <2>2, <2>3, <3>2, <3>4
  <2> QED
    BY <2>4, <2>5
<1>3. ASSUME NEW u \in Units, Use(u)
      PROVE  TypeOK'
  <2>1. wants[current].value \in Values /\ current \in Guests
    <3>1. wants[current] \in Insns \cup {NoInsn} /\ wants[current].unit = u /\ current \in enabled[u]
      BY <1>3 DEF Use
    <3>2. NoInsn.unit = {}
      BY DEF NoInsn
    <3>3. wants[current] # NoInsn
      BY <3>1, <3>2
    <3>4. wants[current] \in [unit : Units, value : Values]
      BY <3>1, <3>3
    <3> QED
      BY <1>3, <3>4 DEF Use
  <2> QED
    BY <1>3, <2>1 DEF Use
<1>4. ASSUME NEW t \in Threads
      PROVE  Cleared(t) \in [Units -> SUBSET Guests]
  BY DEF Cleared
<1>5. ASSUME NEW t \in Threads, Switch(t)
      PROVE  TypeOK'
  <2>1. enabled' = Cleared(t) /\ current' = t /\ seen' = {}
        /\ UNCHANGED <<owner, live, saved, stopped, wants>>
    BY <1>5 DEF Switch
  <2> QED
    BY <1>4, <2>1
<1>8. ASSUME NEW g \in Guests, Stop(g) \/ Continue(g)
      PROVE  TypeOK'
  BY <1>8 DEF Stop, Continue
<1>9. ASSUME NEW g \in Guests, Restart(g)
      PROVE  TypeOK'
  <2>1. /\ enabled' = Cleared(g)
        /\ saved' = [u \in Units |-> [saved[u] EXCEPT ![g] = 0]]
        /\ wants' = [wants EXCEPT ![g] = NoInsn]
        /\ stopped' = stopped \ {g} /\ seen' = {}
        /\ UNCHANGED <<current, owner, live>>
    BY <1>9 DEF Restart
  <2>2. saved' \in [Units -> [Threads -> Values]]
    BY <2>1
  <2> QED
    BY <1>4, <2>1, <2>2
<1>6. ASSUME NEW i \in Insns, Come(i)
      PROVE  TypeOK'
  BY <1>6 DEF Come
<1>7. CASE Decide
  <2>1. ConditionBits \in Values /\ current \in Guests
    BY <1>7 DEF Decide, ConditionBits
  <2>2. seen' = {<<current, Fpu, ConditionBits>>}
        /\ UNCHANGED <<current, owner, enabled, live, saved, stopped, wants>>
    BY <1>7 DEF Decide
  <2>3. seen' \in SUBSET (Guests \X Units \X Values)
    BY <2>1, <2>2
  <2> QED
    BY <2>2, <2>3
<1> QED
  BY <1>1, <1>2, <1>3, <1>5, <1>6, <1>7, <1>8, <1>9 DEF Next

(* The types of the registers, the frames and the guests' instructions.      *)
THEOREM TypeCorrect == Spec => []TypeOK
<1>1. Init => TypeOK
  BY LazyAssumption DEF Init, TypeOK, Threads
<1> QED
  BY <1>1, TypeStep, PTL DEF Spec

-----------------------------------------------------------------------------
(* A frame is entered without the bit, or with its guest as the owner.       *)
LEMMA OwnerStep ==
  ASSUME TypeOK, BitIsOwners, [Next]_vars
  PROVE  BitIsOwners'
<1> USE DEF BitIsOwners
<1>1. CASE UNCHANGED vars
  BY <1>1 DEF vars
<1>2. ASSUME NEW u \in Units, Unusable(u)
      PROVE  BitIsOwners'
  <2>1. SUFFICES ASSUME NEW w \in Units, current' \in enabled'[w]
                 PROVE  owner'[w] = current'
    OBVIOUS
  <2>2. current' = current /\ enabled' = [enabled EXCEPT ![u] = @ \cup {current}]
    BY <1>2 DEF Unusable, Acquire
  <2>3. owner' = owner \/ owner' = [owner EXCEPT ![u] = current]
    BY <1>2 DEF Unusable, Acquire
  <2>4. owner'[u] = current
    BY <1>2 DEF Unusable, Acquire, TypeOK
  <2> QED
    BY <2>1, <2>2, <2>3, <2>4 DEF TypeOK
<1>3. ASSUME NEW t \in Threads, Switch(t)
      PROVE  BitIsOwners'
  BY <1>3 DEF Switch, Cleared
<1>4. ASSUME NEW g \in Guests, Restart(g)
      PROVE  BitIsOwners'
  BY <1>4 DEF Restart, Cleared
<1>5. CASE /\ ~\E u \in Units : Unusable(u)
           /\ ~\E t \in Threads : Switch(t)
           /\ ~\E g \in Guests : Restart(g)
           /\ Next
  <2>1. UNCHANGED <<current, owner, enabled>>
    BY <1>5 DEF Next, Use, Stop, Continue, Come, Decide
  <2> QED
    BY <2>1
<1> QED
  BY <1>1, <1>2, <1>3, <1>4, <1>5

(* do_cu, do_dsp, switch_to_thread: whoever runs with CU1 or MX owns the unit.*)
THEOREM EnabledIsOwner == Spec => []BitIsOwners
<1>1. Init => BitIsOwners
  BY DEF Init, BitIsOwners
<1> QED
  BY <1>1, TypeCorrect, OwnerStep, PTL DEF Spec

-----------------------------------------------------------------------------
(* The registers of a guest are values.                                     *)
LEMMA RegsType ==
  ASSUME TypeOK
  PROVE  Regs \in [Units -> [Guests -> Values]]
<1>1. \A u \in Units, g \in Guests : Regs[u][g] \in Values
  BY DEF Regs, TypeOK, Threads
<1> QED
  BY <1>1 DEF Regs

(* The exception moves registers between the unit and the threads, and        *)
(* changes nobody's.                                                        *)
LEMMA AcquireKeeps ==
  ASSUME TypeOK, NEW u \in Units, Unusable(u)
  PROVE  Regs' = Regs /\ seen' = {}
<1>1. current \in Guests /\ seen' = {}
  BY DEF Unusable
<1>2. CASE owner[u] = current
  <2>1. UNCHANGED <<owner, live, saved>>
    BY <1>2 DEF Unusable, Acquire
  <2> QED
    BY <1>1, <2>1 DEF Regs
<1>3. CASE owner[u] # current
  <2>1. /\ saved' = [saved EXCEPT ![u][owner[u]] = live[u]]
        /\ owner' = [owner EXCEPT ![u] = current]
        /\ live' = [live EXCEPT ![u] = saved'[u][current]]
    BY <1>3 DEF Unusable, Acquire, Saved
  <2>2. saved'[u][current] = saved[u][current]
    BY <1>1, <1>3, <2>1 DEF TypeOK, Threads
  <2>3. ASSUME NEW w \in Units, NEW g \in Guests
        PROVE  (IF owner'[w] = g THEN live'[w] ELSE saved'[w][g]) =
                 (IF owner[w] = g THEN live[w] ELSE saved[w][g])
    <3>1. CASE w # u
      BY <2>1, <3>1 DEF TypeOK
    <3>2. CASE w = u /\ g = current
      BY <1>3, <2>1, <2>2, <3>2 DEF TypeOK
    <3>3. CASE w = u /\ g # current
      <4>1. owner'[w] = current /\ g \in Threads
        BY <2>1, <3>3 DEF TypeOK, Threads
      <4>2. saved'[w][g] = IF owner[w] = g THEN live[w] ELSE saved[w][g]
        BY <2>1, <3>3, <4>1 DEF TypeOK
      <4> QED
        BY <3>3, <4>1, <4>2
    <3> QED
      BY <3>1, <3>2, <3>3
  <2> QED
    BY <1>1, <2>3 DEF Regs
<1> QED
  BY <1>2, <1>3

(* An instruction finds and changes the registers of its own guest.          *)
LEMMA UseStep ==
  ASSUME TypeOK, BitIsOwners, NEW u \in Units, Use(u)
  PROVE  Private!Next
<1> DEFINE v == wants[current].value
<1>1. /\ current \in Guests /\ owner[u] = current /\ UNCHANGED <<owner, saved>>
      /\ seen' = {<<current, u, live[u]>>} /\ live' = [live EXCEPT ![u] = v]
  BY DEF Use, BitIsOwners
<1>2. v \in Values
  <2>1. NoInsn.unit = {} /\ wants[current].unit = u /\ {} \notin Units
    BY LazyAssumption DEF NoInsn, Use
  <2>2. wants[current] \in [unit : Units, value : Values]
    BY <1>1, <2>1 DEF TypeOK, Insns
  <2> QED
    BY <2>2
<1> HIDE DEF v
<1>3. Regs[u][current] = live[u]
  BY <1>1 DEF Regs
<1>4. ASSUME NEW w \in Units, NEW g \in Guests
      PROVE  (IF owner'[w] = g THEN live'[w] ELSE saved'[w][g]) =
               IF w = u /\ g = current THEN v ELSE IF owner[w] = g THEN live[w] ELSE saved[w][g]
  BY <1>1 DEF TypeOK
<1>5. Regs' = [w \in Units |-> [g \in Guests |-> IF w = u /\ g = current THEN v ELSE Regs[w][g]]]
  BY <1>4 DEF Regs
<1>6. [Regs EXCEPT ![u][current] = v] =
        [w \in Units |-> [g \in Guests |-> IF w = u /\ g = current THEN v ELSE Regs[w][g]]]
  <2>1. Regs \in [Units -> [Guests -> Values]]
    BY RegsType
  <2> QED
    BY <1>1, <2>1
<1>7. Private!Execute(current, u, v)
  BY <1>1, <1>3, <1>5, <1>6 DEF Private!Execute
<1> QED
  BY <1>1, <1>2, <1>7 DEF Private!Next

(* Each guest has FPU and DSP registers of its own, however many share the    *)
(* units (do_cu, do_dsp, switch_to_thread, init_thread).                    *)
THEOREM RegistersArePrivate == Spec => AsPrivate
<1>1. ASSUME Init
      PROVE  Private!Init
  <2>1. TypeOK /\ seen = {}
    BY <1>1, LazyAssumption DEF Init, TypeOK, Threads
  <2> QED
    BY <2>1, RegsType DEF Private!Init
<1>2. ASSUME TypeOK, TypeOK', BitIsOwners, [Next]_vars
      PROVE  [Private!Next]_Private!vars
  <2>1. CASE UNCHANGED vars
    BY <2>1 DEF vars, Private!vars, Regs
  <2>2. ASSUME NEW u \in Units, Unusable(u)
        PROVE  Private!Next
    BY <1>2, <2>2, AcquireKeeps DEF Private!Next, Private!Other
  <2>3. ASSUME NEW u \in Units, Use(u)
        PROVE  Private!Next
    BY <1>2, <2>3, UseStep
  <2>4. CASE Decide
    <3>1. /\ current \in Guests /\ UNCHANGED <<owner, live, saved>>
          /\ seen' = {<<current, Fpu, ConditionBits>>} /\ Fpu \in Units
      BY <2>4, LazyAssumption DEF Decide
    <3>2. ConditionBits = Regs[Fpu][current] /\ Regs' = Regs
      BY <3>1 DEF ConditionBits, Regs
    <3> QED
      BY <3>1, <3>2 DEF Private!Next, Private!Look
  <2>5. ASSUME NEW g \in Guests, Restart(g)
        PROVE  Private!Next
    <3>1. /\ saved' = [u \in Units |-> [saved[u] EXCEPT ![g] = 0]]
          /\ seen' = {} /\ UNCHANGED <<owner, live>>
      BY <2>5 DEF Restart
    <3>2. \A u \in Units, h \in Guests \ {g} : saved'[u][h] = saved[u][h]
      BY <1>2, <3>1 DEF TypeOK, Threads
    <3>3. \A u \in Units, h \in Guests \ {g} : Regs'[u][h] = Regs[u][h]
      BY <3>1, <3>2 DEF Regs
    <3>4. Regs' \in [Units -> [Guests -> Values]]
      <4>1. \A u \in Units, h \in Guests : live'[u] \in Values /\ saved'[u][h] \in Values
        BY <1>2 DEF TypeOK, Threads
      <4> QED
        BY <4>1 DEF Regs
    <3> QED
      BY <3>1, <3>3, <3>4 DEF Private!Next, Private!Reset
  <2>6. CASE \/ \E t \in Threads : Switch(t)
             \/ \E g \in Guests : Stop(g) \/ Continue(g)
             \/ \E i \in Insns : Come(i)
    <3>1. seen' = {} /\ UNCHANGED <<owner, live, saved>>
      BY <2>6 DEF Switch, Stop, Continue, Come
    <3> QED
      BY <3>1 DEF Private!Next, Private!Other, Regs
  <2> QED
    BY <1>2, <2>1, <2>2, <2>3, <2>4, <2>5, <2>6 DEF Next
<1> QED
  BY <1>1, <1>2, TypeCorrect, EnabledIsOwner, PTL DEF Spec, AsPrivate, Private!Spec

=============================================================================
