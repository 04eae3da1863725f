---------------------- MODULE VirtualInterrupts_proofs ----------------------
(*****************************************************************************)
(* Proofs about VirtualInterrupts, for any number of guests, devices and     *)
(* words.  Every handler changes the injection state of a guest in one of    *)
(* three ways: not at all (a switch), by SetCurrent, or by InsertIRQ.  The   *)
(* lemmas of the first part say what each does to Injection(g).  The last    *)
(* part, on delivery, relates flags, masks and injections.                   *)
(*****************************************************************************)
EXTENDS VirtualInterrupts, TLAPS

IrqOrNone == Irqs \cup {NoIrq}
InjStates == [inj : IrqOrNone, intr : IrqOrNone, gripl : IrqOrNone, nofcd : BOOLEAN]
CtlStates == [gripl : IrqOrNone, nofcd : BOOLEAN]

(* Root is not a guest, and no IRQ is NoIrq.                                 *)
LEMMA Distinct == Root \notin Guests /\ NoIrq \notin Irqs
  BY GuestsAssumption, IrqsAssumption DEF Root

(* The injection state of a guest is well formed (GuestCtl2, thread.h).      *)
LEMMA InjectionType ==
  ASSUME TypeOK, NEW g \in Guests
  PROVE  GuestCtl(g) \in CtlStates /\ Injection(g) \in InjStates
<1>1. GuestCtl(g) \in CtlStates
  BY DEF TypeOK, GuestCtl, CtlStates, IrqOrNone
<1>2. QED
  BY <1>1 DEF TypeOK, Injection, InjStates, CtlStates, IrqOrNone

(* Noticed either changes nothing or finds the injected IRQ taken.           *)
LEMMA NoticedFacts ==
  ASSUME NEW s \in InjStates
  PROVE  /\ Noticed(s) \in InjStates
         /\ Unnoticed(s) => Noticed(s) = [s EXCEPT !.inj = NoIrq, !.intr = s.inj]
         /\ ~Unnoticed(s) => Noticed(s) = s
  BY DEF Noticed, InjStates, IrqOrNone

(* cancel_inject_IRQ leaves nothing injected only when nothing is pending.   *)
LEMMA CancelledFacts ==
  ASSUME NEW s \in InjStates, NEW pending \in SUBSET Irqs, NEW t \in Cancelled(s, pending)
  PROVE  /\ t \in InjStates
         /\ t.intr = s.intr
         /\ t.gripl = t.inj
         /\ pending = {} => t.inj = NoIrq
         /\ pending # {} => t.inj \in pending /\ t.nofcd = s.nofcd
<1>1. CASE pending = {}
  BY <1>1 DEF Cancelled, InjStates, IrqOrNone
<1>2. CASE pending # {}
  <2>1. PICK i \in Highest(pending) : t = [s EXCEPT !.inj = i, !.gripl = i]
    BY <1>2 DEF Cancelled
  <2>2. i \in pending /\ i \in Irqs
    BY <2>1 DEF Highest
  <2>3. QED
    BY <1>2, <2>1, <2>2 DEF InjStates, IrqOrNone
<1>3. QED
  BY <1>1, <1>2

(* After insert_IRQ something is injected: the new IRQ, or the one that      *)
(* outranks it, which stays as it was.                                       *)
LEMMA InsertedFacts ==
  ASSUME NEW s \in InjStates, NEW g \in Guests, NEW i \in Irqs
  PROVE  LET t == Inserted(g, s, i) IN
         /\ t \in InjStates
         /\ Outranked(Noticed(s), i) => t = s /\ s.inj # NoIrq
         /\ ~Outranked(Noticed(s), i) =>
              /\ t.inj = i /\ t.gripl = i
              /\ t.nofcd = (s.nofcd \/ g \notin Polling)
              /\ t.intr = IF Unnoticed(s) THEN s.inj ELSE s.intr
<1> DEFINE n == Noticed(s)
<1>1. n \in InjStates /\ n.nofcd = s.nofcd
  BY NoticedFacts DEF InjStates
<1>2. n.intr = IF Unnoticed(s) THEN s.inj ELSE s.intr
  BY NoticedFacts DEF InjStates
<1>3. CASE Outranked(n, i)
  <2>1. n.inj # NoIrq
    BY <1>3 DEF Outranked
  <2>2. ~Unnoticed(s)
    BY <2>1, NoticedFacts DEF InjStates
  <2>3. QED
    BY <1>1, <1>3, <2>1, <2>2, NoticedFacts DEF Inserted
<1>4. CASE ~Outranked(n, i)
  <2>1. Inserted(g, s, i) = [inj |-> i, intr |-> n.intr, gripl |-> i,
                             nofcd |-> n.nofcd \/ g \notin Polling]
    BY <1>4 DEF Inserted
  <2>2. QED
    BY <1>1, <1>2, <1>4, <2>1 DEF InjStates, IrqOrNone
<1>5. QED
  BY <1>3, <1>4

-----------------------------------------------------------------------------
(* What the handlers do to Injection(g)                                      *)

(* A switch to another thread changes no guest's injection state: what was   *)
(* in the CPU is parked, what was parked is in the CPU.                      *)
LEMMA SwitchKeeps ==
  ASSUME TypeOK, NEW t \in Threads, t # current, SwitchTo(t),
         UNCHANGED <<injected_irq, interrupted_irq>>, NEW g \in Guests
  PROVE  Injection(g)' = Injection(g) /\ live' \in CtlStates
         /\ saved' \in [Guests -> CtlStates]
<1>1. live \in CtlStates /\ saved \in [Guests -> CtlStates]
  BY DEF TypeOK, CtlStates, IrqOrNone
<1>2. saved' = Parked /\ Parked \in [Guests -> CtlStates]
  BY <1>1 DEF SwitchTo, Parked
<1>3. live' \in CtlStates
  BY <1>1 DEF SwitchTo, CtlStates
<1>4. GuestCtl(g)' = GuestCtl(g)
  <2>1. CASE g = t
    BY <1>1, <2>1, Distinct DEF SwitchTo, GuestCtl, Threads
  <2>2. CASE g = current
    BY <1>1, <1>2, <2>2 DEF SwitchTo, GuestCtl, Parked
  <2>3. CASE g # t /\ g # current
    BY <1>1, <1>2, <2>3 DEF SwitchTo, GuestCtl, Parked
  <2>4. QED
    BY <2>1, <2>2, <2>3
<1>5. QED
  BY <1>2, <1>3, <1>4 DEF Injection

(* The same of reschedule().                                                 *)
LEMMA RescheduleKeeps ==
  ASSUME TypeOK, NEW r \in SUBSET Guests, RescheduleWith(r),
         UNCHANGED <<injected_irq, interrupted_irq>>
  PROVE  /\ current' \in Threads
         /\ live' \in CtlStates /\ saved' \in [Guests -> CtlStates]
         /\ \A g \in Guests : Injection(g)' = Injection(g)
         /\ current' \in Guests => current' \in r
<1>1. PICK t \in IF Runnable(r) = {} THEN {Root} ELSE Runnable(r) :
        IF t = current THEN UNCHANGED <<current, live, saved>> ELSE SwitchTo(t)
  BY DEF RescheduleWith
<1>2. t \in Threads /\ (t \in Guests => t \in r)
  BY <1>1, Distinct DEF Runnable, Threads
<1>3. CASE t = current
  BY <1>1, <1>2, <1>3 DEF TypeOK, CtlStates, IrqOrNone, Injection, GuestCtl
<1>4. CASE t # current
  <2>1. SwitchTo(t)
    BY <1>1, <1>4
  <2>2. current' = t
    BY <2>1 DEF SwitchTo
  <2>3. live' \in CtlStates /\ saved' \in [Guests -> CtlStates]
    BY <1>1, <1>2, <1>4, <2>1 DEF TypeOK, SwitchTo, Parked, CtlStates, IrqOrNone
  <2>4. QED
    BY <1>2, <1>4, <2>1, <2>2, <2>3, SwitchKeeps
<1>5. QED
  BY <1>3, <1>4

(* A handler of the running guest changes that guest's injection state only. *)
LEMMA SetCurrentFacts ==
  ASSUME TypeOK, current \in Guests, UNCHANGED current,
         NEW s \in InjStates, SetCurrent(s)
  PROVE  /\ Injection(current)' = s
         /\ \A g \in Guests \ {current} : Injection(g)' = Injection(g)
         /\ injected_irq' \in [Guests -> IrqOrNone]
         /\ interrupted_irq' \in [Guests -> IrqOrNone]
         /\ live' \in CtlStates /\ saved' \in [Guests -> CtlStates]
<1>1. injected_irq \in [Guests -> IrqOrNone] /\ interrupted_irq \in [Guests -> IrqOrNone]
      /\ saved \in [Guests -> CtlStates]
  BY DEF TypeOK, CtlStates, IrqOrNone
<1>2. /\ injected_irq' \in [Guests -> IrqOrNone] /\ injected_irq'[current] = s.inj
      /\ interrupted_irq' \in [Guests -> IrqOrNone] /\ interrupted_irq'[current] = s.intr
  BY <1>1 DEF SetCurrent, InjStates
<1>3. live' \in CtlStates /\ live'.gripl = s.gripl /\ live'.nofcd = s.nofcd
  BY DEF SetCurrent, InjStates, CtlStates
<1>4. Injection(current)' = s
  BY <1>2, <1>3 DEF Injection, GuestCtl, InjStates
<1>5. \A g \in Guests \ {current} : Injection(g)' = Injection(g)
  BY <1>1 DEF SetCurrent, Injection, GuestCtl
<1>6. QED
  BY <1>1, <1>2, <1>3, <1>4, <1>5 DEF SetCurrent

(* insert_IRQ changes what is injected into its own target only, and makes   *)
(* the target RUNNING when it injects.                                       *)
LEMMA InsertIRQFacts ==
  ASSUME TypeOK, NEW g \in Guests, NEW i \in Irqs, InsertIRQ(g, i)
  PROVE  LET s == Inserted(g, Injection(g), i) IN
         /\ injected_irq' = [injected_irq EXCEPT ![g] = s.inj]
         /\ interrupted_irq' = [interrupted_irq EXCEPT ![g] = s.intr]
         /\ injected_irq' \in [Guests -> IrqOrNone]
         /\ interrupted_irq' \in [Guests -> IrqOrNone]
         /\ live' \in CtlStates /\ saved' \in [Guests -> CtlStates]
         /\ injected_irq'[g] # NoIrq
         /\ current' \in {current, g}
         /\ running' \in {running, running \cup {g}}
         /\ stopped' = stopped
         /\ injected_irq[g] = NoIrq => g \in running'
         /\ current' # current => g \in running'
         /\ injected_irq'[g] \in {i, injected_irq[g]}
<1> DEFINE s == Inserted(g, Injection(g), i)
           queued == Outranked(Noticed(Injection(g)), i)
           ctl == [gripl |-> s.gripl, nofcd |-> s.nofcd]
<1>1. Injection(g) \in InjStates /\ s \in InjStates
  BY InjectionType, InsertedFacts
<1>2. injected_irq \in [Guests -> IrqOrNone] /\ interrupted_irq \in [Guests -> IrqOrNone]
      /\ live \in CtlStates /\ saved \in [Guests -> CtlStates]
  BY DEF TypeOK, CtlStates, IrqOrNone
<1>3. ctl \in CtlStates /\ s.inj \in IrqOrNone /\ s.intr \in IrqOrNone
  BY <1>1 DEF InjStates, CtlStates
<1>4. i # NoIrq
  BY Distinct
<1>5. s.inj # NoIrq /\ s.inj \in {i, injected_irq[g]} /\ (queued => injected_irq[g] # NoIrq)
  BY <1>1, <1>4, InsertedFacts DEF Injection
<1>6. injected_irq' = [injected_irq EXCEPT ![g] = s.inj]
      /\ interrupted_irq' = [interrupted_irq EXCEPT ![g] = s.intr]
      /\ running' = Woken(g, queued) /\ stopped' = stopped
  BY DEF InsertIRQ
<1>7. live' \in CtlStates /\ saved' \in [Guests -> CtlStates]
      /\ current' \in {current, g} /\ (current' # current => ~queued)
  <2>1. [gripl |-> i, nofcd |-> saved[g].nofcd \/ g \notin Polling] \in CtlStates
        /\ [gripl |-> i, nofcd |-> live.nofcd \/ g \notin Polling] \in CtlStates
    BY <1>2 DEF CtlStates, IrqOrNone
  <2>2. Parked \in [Guests -> CtlStates]
    BY <1>2 DEF Parked
  <2>3. [saved EXCEPT ![g] = ctl] \in [Guests -> CtlStates]
    BY <1>2, <1>3
  <2>4. QED
    BY <1>2, <1>3, <2>1, <2>2, <2>3 DEF InsertIRQ
<1>8. QED
  BY <1>2, <1>3, <1>5, <1>6, <1>7 DEF Woken

(* Unless the target is stopped with a level that hides the IRQ, what        *)
(* insert_IRQ decided is what the target's registers hold, and no other      *)
(* guest's registers change.                                                 *)
LEMMA InsertIRQInjection ==
  ASSUME TypeOK, NEW g \in Guests, NEW i \in Irqs, InsertIRQ(g, i),
         g \notin stopped \/ g_ipl[g] < Ipl[i]
  PROVE  /\ Injection(g)' = Inserted(g, Injection(g), i)
         /\ \A h \in Guests \ {g} : Injection(h)' = Injection(h)
<1> DEFINE s == Inserted(g, Injection(g), i)
           queued == Outranked(Noticed(Injection(g)), i)
           ctl == [gripl |-> s.gripl, nofcd |-> s.nofcd]
           park == g # current /\ g_ipl[g] < Ipl[i]
<1>1. Injection(g) \in InjStates /\ s \in InjStates
  BY InjectionType, InsertedFacts
<1>2. injected_irq \in [Guests -> IrqOrNone] /\ interrupted_irq \in [Guests -> IrqOrNone]
      /\ live \in CtlStates /\ saved \in [Guests -> CtlStates]
  BY DEF TypeOK, CtlStates, IrqOrNone
<1>3. injected_irq' = [injected_irq EXCEPT ![g] = s.inj]
      /\ interrupted_irq' = [interrupted_irq EXCEPT ![g] = s.intr]
  BY InsertIRQFacts
<1>4. (queued => s = Injection(g))
      /\ (~queued => s.gripl = i /\ s.nofcd = (GuestCtl(g).nofcd \/ g \notin Polling))
  BY <1>1, InsertedFacts DEF Injection
<1>5. GuestCtl(g)' = ctl /\ \A h \in Guests \ {g} : GuestCtl(h)' = GuestCtl(h)
  <2>1. CASE queued /\ UNCHANGED <<current, live, saved>>
    <3>1. GuestCtl(g) = ctl
      BY <1>2, <1>4, <2>1 DEF Injection, GuestCtl, CtlStates
    <3>2. QED
      BY <2>1, <3>1 DEF GuestCtl
  <2>2. CASE ~queued /\ park /\ saved' = [saved EXCEPT ![g] = ctl] /\ UNCHANGED <<current, live>>
    BY <1>2, <2>2 DEF GuestCtl
  <2>3. CASE ~queued /\ g = current /\ live' = ctl /\ UNCHANGED <<current, saved>>
    BY <2>3 DEF GuestCtl
  <2>4. CASE /\ ~queued /\ g # current
             /\ current' = g
             /\ saved' = Parked
             /\ live' = [gripl |-> i, nofcd |-> saved[g].nofcd \/ g \notin Polling]
    BY <1>2, <1>4, <2>4 DEF GuestCtl, Parked
  <2>5. CASE g # current /\ ~park /\ g \in stopped
    BY <2>5
  <2>6. QED
    BY <2>1, <2>2, <2>3, <2>4, <2>5 DEF InsertIRQ
<1>6. QED
  BY <1>1, <1>2, <1>3, <1>5 DEF Injection, InjStates

(* insert_sw_irq and enforce_irq flag the IRQ and inject it when enabled.    *)
LEMMA RaiseFacts ==
  ASSUME TypeOK, NEW g \in Guests, NEW i \in Irqs, RaiseVirtual(g, i)
  PROVE  /\ vIFS' = [vIFS EXCEPT ![g] = @ \cup {i}]
         /\ vIFS' \in [Guests -> SUBSET Irqs] /\ vIEC' = vIEC
         /\ injected_irq' \in [Guests -> IrqOrNone]
         /\ interrupted_irq' \in [Guests -> IrqOrNone]
         /\ live' \in CtlStates /\ saved' \in [Guests -> CtlStates]
         /\ current' \in {current, g}
         /\ running' \in {running, running \cup {g}} /\ stopped' = stopped
         /\ current' # current => g \in running'
         /\ \A h \in Guests \ {g} : injected_irq'[h] = injected_irq[h]
         /\ injected_irq'[g] \in {i, injected_irq[g]}
         /\ injected_irq[g] # NoIrq => injected_irq'[g] # NoIrq
         /\ i \in vIEC[g] => injected_irq'[g] # NoIrq
         /\ injected_irq'[g] # NoIrq =>
              g \in running' \/ injected_irq[g] # NoIrq
         /\ injected_irq'[g] # injected_irq[g] => i \in vIEC[g]
<1>1. vIFS' = [vIFS EXCEPT ![g] = @ \cup {i}] /\ vIEC' = vIEC
      /\ vIFS' \in [Guests -> SUBSET Irqs]
  BY DEF RaiseVirtual, TypeOK
<1>2. CASE i \in vIEC[g]
  <2>1. InsertIRQ(g, i)
    BY <1>2 DEF RaiseVirtual
  <2>2. injected_irq' = [injected_irq EXCEPT ![g] = Inserted(g, Injection(g), i).inj]
    BY <2>1, InsertIRQFacts
  <2>3. \A h \in Guests \ {g} : injected_irq'[h] = injected_irq[h]
    BY <2>2 DEF TypeOK
  <2>4. QED
    BY <1>1, <1>2, <2>1, <2>3, InsertIRQFacts
<1>3. CASE i \notin vIEC[g]
  BY <1>1, <1>3 DEF RaiseVirtual, TypeOK, CtlStates, IrqOrNone, flags, injection
<1>4. QED
  BY <1>2, <1>3

(* The same for the registers of every guest, when insert_IRQ reaches them.  *)
LEMMA RaiseInjection ==
  ASSUME TypeOK, NEW g \in Guests, NEW i \in Irqs, RaiseVirtual(g, i),
         g \notin stopped \/ g_ipl[g] < Ipl[i]
  PROVE  /\ Injection(g)' \in {Injection(g), Inserted(g, Injection(g), i)}
         /\ \A h \in Guests \ {g} : Injection(h)' = Injection(h)
<1>1. CASE i \in vIEC[g]
  BY <1>1, InsertIRQInjection DEF RaiseVirtual
<1>2. CASE i \notin vIEC[g]
  BY <1>2 DEF RaiseVirtual, injection, Injection, GuestCtl
<1>3. QED
  BY <1>1, <1>2

(* The hooks inject one of the IRQs they are called for, or nothing new.     *)
LEMMA AfterHooksFacts ==
  ASSUME NEW g \in Guests, NEW s \in InjStates, NEW offered \in SUBSET Irqs,
         NEW t \in AfterHooks(g, s, offered)
  PROVE  /\ t \in InjStates
         /\ offered = {} => t = s
         /\ offered # {} => \E i \in offered : t = Inserted(g, s, i)
         /\ s.inj # NoIrq \/ offered # {} => t.inj # NoIrq
         /\ t.inj \in offered \cup {s.inj}
<1>1. CASE offered = {}
  BY <1>1 DEF AfterHooks
<1>2. CASE offered # {}
  <2>1. PICK i \in Highest(offered) : t = Inserted(g, s, i)
    BY <1>2 DEF AfterHooks
  <2>2. i \in offered /\ i \in Irqs /\ i # NoIrq
    BY <2>1, Distinct DEF Highest
  <2>3. QED
    BY <1>2, <2>1, <2>2, InsertedFacts
<1>3. QED
  BY <1>1, <1>2

(* The four register addresses keep a register within the IRQs, change only  *)
(* the guest's own bits of it, and end only the guest's own IRQs.            *)
LEMMA AppliedFacts ==
  ASSUME NEW op \in WriteOps, NEW own \in SUBSET Irqs, NEW v \in SUBSET own,
         NEW vreg \in SUBSET Irqs, NEW old
  PROVE  LET new == Applied(op, vreg, v, own)
             ended == EndedIrqs(op, v, own, new, old)
         IN /\ new \in SUBSET Irqs
            /\ \A i \in Irqs \ own : i \in new <=> i \in vreg
            /\ ended \subseteq own
            /\ op # "INV" => vreg \cap ended \cap new = {}
            /\ op # "INV" => vreg \ ended \subseteq new
<1>1. op \in {"WR", "CLR", "SET", "INV"}
  BY UseAssumption
<1>2. CASE op = "WR"
  BY <1>2 DEF Applied, EndedIrqs
<1>3. CASE op = "CLR"
  BY <1>3 DEF Applied, EndedIrqs
<1>4. CASE op = "SET"
  BY <1>4 DEF Applied, EndedIrqs
<1>5. CASE op = "INV"
  BY <1>5 DEF Applied, EndedIrqs
<1>6. QED
  BY <1>1, <1>2, <1>3, <1>4, <1>5

OwnIn(w) == {i \in w : i \in Emulated \/ Owner[i] = current}

(* The values a store goes through: the bits it ends, the IFS and IEC words  *)
(* it makes, and the injection state before and after the hooks.             *)
Written(reg, op, w, v, ended, ifs, iec, s, t) ==
  LET vold == IF reg = "IFS" THEN vIFS[current] ELSE vIEC[current]
      old  == IF reg = "IFS" THEN rIFS ELSE rIEC
      vnew == Applied(op, vold, v, OwnIn(w))
      pt   == OwnIn(w) \cap PassThrough
      ends == injected_irq[current] \in ended
      all  == IF ends THEN Flagged(current, ifs) ELSE ifs
  IN
  /\ ended = EndedIrqs(op, v, OwnIn(w), vnew, old)
  /\ ifs = IF reg = "IFS" THEN vnew ELSE vIFS[current]
  /\ iec = IF reg = "IEC" THEN vnew ELSE vIEC[current]
  /\ reg = "IFS" => vnew \ vold \subseteq SelfRaised
  /\ all \in SUBSET Irqs
  /\ s \in IF ends THEN Cancelled(Injection(current), all \cap iec) ELSE {Injection(current)}
  /\ vIFS'[current] \in {all, all \cup {ConTx}}
  /\ current \notin tx_on => vIFS'[current] = all
  /\ current \in tx_on /\ w \cap {ConRx, ConTx} # {} => ConTx \in vIFS'[current]
  /\ t \in AfterHooks(current, s, Offered(current, w, vIFS'[current], iec))
  /\ Offered(current, w, vIFS'[current], iec) \in SUBSET Irqs
  /\ SetCurrent(t)
  /\ vIEC' = [vIEC EXCEPT ![current] = iec]
  /\ reg = "IFS" => rIFS' = Applied(op, rIFS, v \cap PassThrough, pt) /\ rIEC' = Unmasked(ended, iec)
  /\ reg = "IEC" => rIEC' = Applied(op, rIEC, v \cap PassThrough, pt) /\ rIFS' = rIFS

(* A store to IFS or IEC (emulate_write_ic) changes the running guest's      *)
(* words and injection state and the real bits it owns, nothing else.        *)
LEMMA GuestWriteFacts ==
  ASSUME TypeOK, NEW reg \in {"IFS", "IEC"}, NEW op \in WriteOps, NEW w \in Words,
         NEW v \in SUBSET w, GuestWrite(reg, op, w, v)
  PROVE  /\ current \in Guests /\ GuestRuns /\ v \subseteq OwnIn(w) /\ w \subseteq Irqs
         /\ \E ended \in SUBSET OwnIn(w), ifs \in SUBSET Irqs, iec \in SUBSET Irqs,
               s \in InjStates, t \in InjStates : Written(reg, op, w, v, ended, ifs, iec, s, t)
         /\ \E ifs \in SUBSET Irqs : vIFS' = [vIFS EXCEPT ![current] = ifs]
         /\ UNCHANGED <<current, running, stopped, g_ipl, g_open, taken, g_ti, timer_active, tx_on>>
<1> DEFINE g     == current
           own   == OwnIn(w)
           vold  == IF reg = "IFS" THEN vIFS[g] ELSE vIEC[g]
           vnew  == Applied(op, vold, v, own)
           old   == IF reg = "IFS" THEN rIFS ELSE rIEC
           ended == EndedIrqs(op, v, own, vnew, old)
           ifs0  == IF reg = "IFS" THEN vnew ELSE vIFS[g]
           iec   == IF reg = "IEC" THEN vnew ELSE vIEC[g]
           ends  == injected_irq[g] \in ended
           ifs1  == IF ends THEN Flagged(g, ifs0) ELSE ifs0
           ifs2  == IF g \in tx_on /\ w \cap {ConRx, ConTx} # {} THEN ifs1 \cup {ConTx} ELSE ifs1
<1>1. current \in Guests /\ GuestRuns
  BY DEF GuestWrite, GuestRuns
<1>2. w \subseteq Irqs /\ own \in SUBSET Irqs /\ v \in SUBSET own
  BY UseAssumption DEF GuestWrite, OwnIn
<1>3. vold \in SUBSET Irqs /\ vIFS[g] \in SUBSET Irqs /\ vIEC[g] \in SUBSET Irqs
  BY <1>1 DEF TypeOK
<1> HIDE DEF own, vold, old
<1>4. vnew \in SUBSET Irqs /\ ended \subseteq own
  BY <1>2, <1>3, AppliedFacts
<1>5. Timer \in Irqs /\ ConTx \in Irqs /\ ConRx \in Irqs /\ Soft \subseteq Irqs
  BY DEF Irqs, Emulated
<1>6. ifs0 \in SUBSET Irqs /\ iec \in SUBSET Irqs /\ ifs1 \in SUBSET Irqs /\ ifs2 \in SUBSET Irqs
  BY <1>3, <1>4, <1>5 DEF Flagged
<1> HIDE DEF own, vold, vnew, ended, ifs0, iec, ends, ifs1, ifs2
<1>7. PICK s \in IF ends THEN Cancelled(Injection(g), ifs1 \cap iec) ELSE {Injection(g)} :
        \E t \in AfterHooks(g, s, Offered(g, w, ifs2, iec)) : SetCurrent(t)
  BY DEF GuestWrite, OwnIn, own, vold, vnew, ended, ifs0, iec, ends, ifs1, ifs2, old
<1>8. PICK t \in AfterHooks(g, s, Offered(g, w, ifs2, iec)) : SetCurrent(t)
  BY <1>7
<1>9. Offered(g, w, ifs2, iec) \in SUBSET Irqs
  BY <1>2, <1>5, <1>6 DEF Offered, SoftOffered, TimerOffered, ConsoleOffered
<1>10. s \in InjStates
  BY <1>1, <1>6, <1>7, InjectionType, CancelledFacts
<1>11. t \in InjStates
  BY <1>1, <1>8, <1>9, <1>10, AfterHooksFacts
<1>12. vIFS' = [vIFS EXCEPT ![g] = ifs2] /\ vIEC' = [vIEC EXCEPT ![g] = iec]
  BY DEF GuestWrite, OwnIn, own, vold, vnew, ended, ifs0, iec, ends, ifs1, ifs2, old
<1>13. vIFS'[g] = ifs2
  BY <1>1, <1>12 DEF TypeOK
<1>14. reg = "IFS" => vnew \ vold \subseteq SelfRaised
  BY DEF GuestWrite, OwnIn, own, vold, vnew
<1>15. /\ reg = "IFS" => /\ rIFS' = Applied(op, rIFS, v \cap PassThrough, own \cap PassThrough)
                         /\ rIEC' = Unmasked(ended, iec)
       /\ reg = "IEC" => /\ rIFS' = rIFS
                         /\ rIEC' = Applied(op, rIEC, v \cap PassThrough, own \cap PassThrough)
  BY DEF GuestWrite, OwnIn, own, vold, vnew, ended, iec, old
<1>16. UNCHANGED <<current, running, stopped, g_ipl, g_open, taken, g_ti, timer_active, tx_on>>
  BY DEF GuestWrite, flags, gcpu, gtimer
<1>17. /\ vIFS'[g] \in {ifs1, ifs1 \cup {ConTx}}
       /\ g \notin tx_on => vIFS'[g] = ifs1
       /\ g \in tx_on /\ w \cap {ConRx, ConTx} # {} => ConTx \in vIFS'[g]
  BY <1>13 DEF ifs2
<1>18. /\ ended = EndedIrqs(op, v, own, vnew, IF reg = "IFS" THEN rIFS ELSE rIEC)
       /\ ifs0 = (IF reg = "IFS" THEN vnew ELSE vIFS[g])
       /\ iec = (IF reg = "IEC" THEN vnew ELSE vIEC[g])
       /\ ends = (injected_irq[g] \in ended)
       /\ ifs1 = IF ends THEN Flagged(g, ifs0) ELSE ifs0
       /\ vnew = Applied(op, vold, v, own)
       /\ vold = (IF reg = "IFS" THEN vIFS[g] ELSE vIEC[g])
  BY DEF ended, ifs0, iec, ends, ifs1, vnew, vold, old
<1>19. \E ifs \in SUBSET Irqs : vIFS' = [vIFS EXCEPT ![current] = ifs]
  BY <1>6, <1>12
<1>20. own = OwnIn(w)
  BY DEF own
<1>21. ended \in SUBSET OwnIn(w)
  BY <1>4, <1>20
<1> HIDE DEF g
<1>22. Written(reg, op, w, v, ended, ifs0, iec, s, t)
  BY <1>6, <1>7, <1>8, <1>9, <1>12, <1>13, <1>14, <1>15, <1>17, <1>18, <1>20 DEF Written, g
<1>23. QED
  BY <1>1, <1>2, <1>6, <1>10, <1>11, <1>16, <1>19, <1>20, <1>21, <1>22 DEF g

(* Starting the timer raises it when it is late and queues it otherwise.     *)
LEMMA StartTimerFacts ==
  ASSUME TypeOK, current \in Guests, NEW late \in BOOLEAN, NEW s \in InjStates,
         NEW ifs \in SUBSET Irqs, NEW ti \in BOOLEAN, StartTimer(late, s, ifs, ti)
  PROVE  /\ \E t \in InjStates :
              /\ SetCurrent(t)
              /\ t \in {s, Inserted(current, s, Timer)}
              /\ late /\ Timer \in vIEC[current] => t.inj # NoIrq
         /\ vIFS' \in [Guests -> SUBSET Irqs]
         /\ late  => vIFS' = [vIFS EXCEPT ![current] = ifs \cup {Timer}]
         /\ ~late => vIFS' = [vIFS EXCEPT ![current] = ifs]
         /\ g_ti' \in [Guests -> BOOLEAN]
         /\ g_ti' = [g_ti EXCEPT ![current] = ti \/ late]
         /\ late  => timer_active' = timer_active
         /\ ~late => timer_active' = timer_active \cup {current}
         /\ UNCHANGED <<current, running, stopped, vIEC, rIFS, rIEC, g_ipl, g_open, taken, tx_on>>
<1>1. Timer \in Irqs
  BY DEF Irqs, Emulated
<1>2. CASE late /\ Timer \in vIEC[current]
  <2>1. SetCurrent(Inserted(current, s, Timer))
    BY <1>2 DEF StartTimer
  <2>2. Inserted(current, s, Timer) \in InjStates /\ Inserted(current, s, Timer).inj # NoIrq
    BY <1>1, Distinct, InsertedFacts
  <2>3. QED
    BY <1>1, <1>2, <2>1, <2>2 DEF StartTimer, TypeOK, flags, real, gcpu
<1>3. CASE ~(late /\ Timer \in vIEC[current])
  <2>1. SetCurrent(s)
    BY <1>3 DEF StartTimer
  <2>2. QED
    BY <1>1, <1>3, <2>1 DEF StartTimer, TypeOK, flags, real, gcpu
<1>4. QED
  BY <1>2, <1>3

(* GHFC: the state s the cancel leaves, then the timer's restart if the      *)
(* timer's IRQ was the one taken.                                            *)
LEMMA GuestGHFCFacts ==
  ASSUME TypeOK, NEW late \in BOOLEAN, GuestGHFC(late)
  PROVE  LET irq == injected_irq[current]
             ifs == Flagged(current, vIFS[current])
             s0  == [Injection(current) EXCEPT !.intr = irq]
         IN
         /\ current \in Guests /\ irq # NoIrq /\ live.nofcd /\ Unnoticed(Injection(current))
         /\ ifs \in SUBSET Irqs /\ s0 \in InjStates
         /\ \E s \in InjStates :
              /\ s \in Cancelled(s0, ifs \cap vIEC[current])
              /\ \/ irq = Timer /\ StartTimer(late, s, ifs, g_ti[current])
                 \/ /\ SetCurrent(s)
                    /\ vIFS' = [vIFS EXCEPT ![current] = ifs]
                    /\ UNCHANGED <<current, running, stopped, vIEC, rIFS, rIEC, g_ipl, g_open,
                                   taken, g_ti, timer_active, tx_on>>
<1> DEFINE irq == injected_irq[current]
           ifs == Flagged(current, vIFS[current])
           s0  == [Injection(current) EXCEPT !.intr = irq]
<1>1. current \in Guests /\ live.nofcd /\ Unnoticed(Injection(current))
  BY DEF GuestGHFC, GhfcPending
<1>2. irq # NoIrq /\ irq \in IrqOrNone
  BY <1>1 DEF Unnoticed, Injection, TypeOK, IrqOrNone
<1>3. ifs \in SUBSET Irqs /\ vIEC[current] \in SUBSET Irqs
  BY <1>1 DEF TypeOK, Flagged, Irqs, Emulated
<1>4. s0 \in InjStates
  BY <1>1, <1>2, InjectionType DEF InjStates
<1>5. PICK s \in Cancelled(s0, ifs \cap vIEC[current]) :
        \/ irq = Timer /\ StartTimer(late, s, ifs, g_ti[current])
        \/ /\ SetCurrent(s)
           /\ vIFS' = [vIFS EXCEPT ![current] = ifs]
           /\ UNCHANGED <<current, flags, vIEC, real, gcpu, gtimer, tx_on>>
  BY DEF GuestGHFC
<1> HIDE DEF s0, ifs, irq
<1>6. s \in InjStates
  BY <1>3, <1>4, <1>5, CancelledFacts
<1>7. QED
  BY <1>1, <1>2, <1>3, <1>4, <1>5, <1>6 DEF flags, real, gcpu, gtimer, s0, ifs, irq

(* MTC0 COMPARE cancels a pending timer IRQ before it starts the new timer.  *)
LEMMA WriteCompareFacts ==
  ASSUME TypeOK, NEW late \in BOOLEAN, WriteCompare(late)
  PROVE  LET ifs == vIFS[current] \ {Timer}
             s0  == Injection(current)
         IN
         /\ current \in Guests /\ GuestRuns /\ ifs \in SUBSET Irqs
         /\ \E s \in InjStates :
              /\ s \in IF s0.inj = Timer THEN Cancelled(s0, ifs \cap vIEC[current]) ELSE {s0}
              /\ StartTimer(late, s, ifs, FALSE)
<1> DEFINE ifs == vIFS[current] \ {Timer}
           s0  == Injection(current)
<1>1. current \in Guests /\ GuestRuns
  BY DEF WriteCompare, GuestRuns
<1>2. ifs \in SUBSET Irqs /\ vIEC[current] \in SUBSET Irqs
  BY <1>1 DEF TypeOK
<1>3. PICK s \in IF s0.inj = Timer THEN Cancelled(s0, ifs \cap vIEC[current]) ELSE {s0} :
        StartTimer(late, s, ifs, FALSE)
  BY DEF WriteCompare
<1>4. s0 \in InjStates
  BY <1>1, InjectionType
<1> HIDE DEF s0, ifs
<1>5. s \in InjStates
  BY <1>2, <1>3, <1>4, CancelledFacts
<1>6. QED
  BY <1>1, <1>2, <1>3, <1>5 DEF s0, ifs

(* MFC0 and MTC0 COUNT start the timer with nothing else changed.            *)
LEMMA AccessCountFacts ==
  ASSUME TypeOK, NEW late \in BOOLEAN, AccessCount(late)
  PROVE  /\ current \in Guests /\ GuestRuns
         /\ Injection(current) \in InjStates /\ vIFS[current] \in SUBSET Irqs
         /\ g_ti[current] \in BOOLEAN
         /\ StartTimer(late, Injection(current), vIFS[current], g_ti[current])
<1>1. current \in Guests /\ GuestRuns
  BY DEF AccessCount, GuestRuns
<1>2. QED
  BY <1>1, InjectionType DEF AccessCount, TypeOK

-----------------------------------------------------------------------------
(* Type correctness                                                          *)

LEMMA InitTypeOK == Init => TypeOK
<1> SUFFICES ASSUME Init PROVE TypeOK
  OBVIOUS
<1>1. Quiet \in [gripl : Irqs \cup {NoIrq}, nofcd : BOOLEAN]
  BY DEF Quiet
<1>2. QED
  BY <1>1 DEF Init, TypeOK, Threads, Root

(* What every step other than a store or a timer start has to show.          *)
LEMMA RaiseTypeOK ==
  ASSUME TypeOK, NEW g \in Guests, NEW i \in Irqs, RaiseVirtual(g, i),
         rIFS' \subseteq PassThrough, rIEC' \subseteq PassThrough,
         g_ti' \in [Guests -> BOOLEAN], timer_active' \subseteq Guests, tx_on' \subseteq Guests,
         UNCHANGED gcpu
  PROVE  TypeOK'
<1>1. current' \in Threads /\ running' \subseteq Guests /\ stopped' \subseteq Guests
  BY RaiseFacts DEF TypeOK, Threads
<1>2. QED
  BY <1>1, RaiseFacts DEF TypeOK, gcpu, CtlStates, IrqOrNone

LEMMA SwitchTypeOK ==
  ASSUME TypeOK, current' \in Threads, running' \subseteq Guests,
         live' \in CtlStates, saved' \in [Guests -> CtlStates],
         UNCHANGED <<stopped, vmic, real, injected_irq, interrupted_irq, gcpu, gtimer, tx_on>>
  PROVE  TypeOK'
BY DEF TypeOK, vmic, real, gcpu, gtimer, CtlStates, IrqOrNone

LEMMA SetCurrentTypeOK ==
  ASSUME TypeOK, current \in Guests, NEW s \in InjStates, SetCurrent(s),
         vIFS' \in [Guests -> SUBSET Irqs], vIEC' \in [Guests -> SUBSET Irqs],
         rIFS' \subseteq PassThrough, rIEC' \subseteq PassThrough,
         g_ti' \in [Guests -> BOOLEAN], timer_active' \subseteq Guests,
         UNCHANGED <<current, running, stopped, g_ipl, g_open, taken, tx_on>>
  PROVE  TypeOK'
BY SetCurrentFacts DEF TypeOK, CtlStates, IrqOrNone

(* The real registers a store writes stay within the pass-through IRQs.      *)
LEMMA WrittenReal ==
  ASSUME TypeOK, NEW reg \in {"IFS", "IEC"}, NEW op \in WriteOps, NEW w \in Words,
         NEW v \in SUBSET OwnIn(w), NEW ended \in SUBSET OwnIn(w), NEW ifs, NEW iec, NEW s, NEW t,
         Written(reg, op, w, v, ended, ifs, iec, s, t)
  PROVE  rIFS' \subseteq PassThrough /\ rIEC' \subseteq PassThrough
<1> DEFINE pt == OwnIn(w) \cap PassThrough
           u  == v \cap PassThrough
<1>1. u \subseteq pt /\ pt \subseteq PassThrough /\ PassThrough \subseteq Irqs
  BY DEF Irqs
<1>2. \A r \in SUBSET PassThrough : Applied(op, r, u, pt) \subseteq PassThrough
  <2>1. op \in {"WR", "CLR", "SET", "INV"}
    BY UseAssumption
  <2>2. QED
    BY <1>1, <2>1 DEF Applied
<1>3. rIFS \in SUBSET PassThrough /\ rIEC \in SUBSET PassThrough
  BY DEF TypeOK
<1>4. Unmasked(ended, iec) \subseteq PassThrough
  BY <1>3 DEF Unmasked
<1>5. QED
  BY <1>2, <1>3, <1>4 DEF Written

LEMMA NextTypeOK == TypeOK /\ [Next]_vars => TypeOK'
<1> SUFFICES ASSUME TypeOK, [Next]_vars PROVE TypeOK'
  OBVIOUS
<1>1. ASSUME NEW i \in PassThrough, DeviceRaise(i) PROVE TypeOK'
  BY <1>1 DEF TypeOK, DeviceRaise, flags, vmic, injection, gcpu, gtimer
<1>2. ASSUME NEW i \in PassThrough, ExecuteIRQ(i) PROVE TypeOK'
  <2>1. Owner[i] \in Guests /\ i \in Irqs
    BY IrqsAssumption DEF Irqs
  <2>2. RaiseVirtual(Owner[i], i)
    BY <1>2 DEF ExecuteIRQ
  <2>3. QED
    BY <1>2, <2>1, <2>2, RaiseTypeOK DEF ExecuteIRQ, gcpu, gtimer, TypeOK
<1>3. ASSUME NEW g \in Guests, ConsoleRx(g) PROVE TypeOK'
  BY <1>3, RaiseTypeOK DEF ConsoleRx, real, gcpu, gtimer, TypeOK, Irqs, Emulated
<1>4. ASSUME NEW g \in Guests, TimeIrq(g) PROVE TypeOK'
  BY <1>4, RaiseTypeOK DEF TimeIrq, real, gcpu, TypeOK, Irqs, Emulated
<1>5. CASE Reschedule
  <2>1. running \in SUBSET Guests
    BY DEF TypeOK
  <2>2. QED
    BY <1>5, <2>1, RescheduleKeeps, SwitchTypeOK DEF Reschedule, RescheduleWith
<1>6. CASE RootInput
  <2>1. Root \in Threads /\ current' = Root
    BY <1>6 DEF Threads, RootInput, SwitchTo
  <2>2. live' \in CtlStates /\ saved' \in [Guests -> CtlStates]
    BY <1>6 DEF TypeOK, RootInput, SwitchTo, Parked, CtlStates, IrqOrNone
  <2>3. QED
    BY <1>6, <2>1, <2>2, SwitchTypeOK DEF RootInput, flags, TypeOK
<1>7. ASSUME NEW g \in Guests, Stop(g) \/ Continue(g) PROVE TypeOK'
  BY <1>7 DEF TypeOK, Stop, Continue, vmic, real, injection, gcpu, gtimer
<1>8. ASSUME NEW g \in Guests, Restart(g) PROVE TypeOK'
  <2>1. Quiet \in [gripl : Irqs \cup {NoIrq}, nofcd : BOOLEAN]
    BY DEF Quiet
  <2>2. /\ vIFS' \in [Guests -> SUBSET Irqs] /\ vIEC' \in [Guests -> SUBSET Irqs]
        /\ g_ti' \in [Guests -> BOOLEAN] /\ g_open' \in [Guests -> BOOLEAN]
        /\ g_ipl' \in [Guests -> 0 .. 7]
    BY <1>8 DEF TypeOK, Restart
  <2>3. /\ injected_irq' \in [Guests -> Irqs \cup {NoIrq}]
        /\ interrupted_irq' \in [Guests -> Irqs \cup {NoIrq}]
        /\ taken' \in [Guests -> Irqs \cup {NoIrq}]
        /\ saved' \in [Guests -> [gripl : Irqs \cup {NoIrq}, nofcd : BOOLEAN]]
    BY <1>8, <2>1 DEF TypeOK, Restart
  <2>4. QED
    BY <1>8, <2>2, <2>3 DEF TypeOK, Restart, real
<1>9. ASSUME NEW reg \in {"IFS", "IEC"}, NEW op \in WriteOps, NEW w \in Words,
             NEW v \in SUBSET w, GuestWrite(reg, op, w, v)
      PROVE  TypeOK'
  <2>1. PICK ended \in SUBSET OwnIn(w), ifs \in SUBSET Irqs, iec \in SUBSET Irqs,
             s \in InjStates, t \in InjStates : Written(reg, op, w, v, ended, ifs, iec, s, t)
    BY <1>9, GuestWriteFacts
  <2>2. rIFS' \subseteq PassThrough /\ rIEC' \subseteq PassThrough
    BY <1>9, <2>1, GuestWriteFacts, WrittenReal
  <2>3. vIFS' \in [Guests -> SUBSET Irqs]
    BY <1>9, GuestWriteFacts DEF TypeOK
  <2>4. vIEC' \in [Guests -> SUBSET Irqs] /\ SetCurrent(t)
    BY <2>1 DEF TypeOK, Written
  <2>5. QED
    BY <1>9, <2>2, <2>3, <2>4, GuestWriteFacts, SetCurrentTypeOK DEF TypeOK
<1>10. CASE GuestWait
  <2>1. running \ {current} \in SUBSET Guests
    BY DEF TypeOK
  <2>2. QED
    BY <1>10, <2>1, RescheduleKeeps, SwitchTypeOK DEF GuestWait, RescheduleWith
<1>11. CASE GuestTake
  <2>1. current \in Guests /\ live.gripl \in Irqs \cup {NoIrq}
    BY <1>11 DEF GuestTake, GuestRuns, TypeOK
  <2>2. live' \in [gripl : Irqs \cup {NoIrq}, nofcd : BOOLEAN]
    BY <1>11 DEF GuestTake, TypeOK
  <2>3. QED
    BY <1>11, <2>1, <2>2 DEF GuestTake, TypeOK, flags, vmic, real, gtimer
<1>12. ASSUME NEW on \in BOOLEAN, GuestOpen(on) PROVE TypeOK'
  BY <1>12 DEF TypeOK, GuestOpen, flags, vmic, real, injection, gtimer
<1>13. ASSUME NEW on \in BOOLEAN, ConsoleWrite(on) PROVE TypeOK'
  <2>1. current \in Guests /\ ConTx \in Irqs
    BY <1>13 DEF ConsoleWrite, GuestRuns, Irqs, Emulated
  <2>2. CASE on
    BY <1>13, <2>1, <2>2, RaiseTypeOK DEF ConsoleWrite, TypeOK, real, gcpu, gtimer
  <2>3. CASE ~on
    BY <1>13, <2>3 DEF ConsoleWrite, TypeOK, flags, vmic, injection, real, gcpu, gtimer
  <2>4. QED
    BY <2>2, <2>3
<1>14. ASSUME NEW l \in Levels, GuestSetIpl(l) PROVE TypeOK'
  BY <1>14, UseAssumption DEF TypeOK, GuestSetIpl, flags, vmic, real, injection, gtimer
<1>15. ASSUME NEW late \in BOOLEAN, NEW s \in InjStates, NEW ifs \in SUBSET Irqs,
              NEW ti \in BOOLEAN, current \in Guests, StartTimer(late, s, ifs, ti)
       PROVE  TypeOK'
  <2>1. PICK t \in InjStates : SetCurrent(t)
    BY <1>15, StartTimerFacts
  <2>2. /\ timer_active' \in {timer_active, timer_active \cup {current}}
        /\ vIFS' \in [Guests -> SUBSET Irqs] /\ g_ti' \in [Guests -> BOOLEAN]
        /\ UNCHANGED <<current, running, stopped, vIEC, rIFS, rIEC, g_ipl, g_open, taken, tx_on>>
    BY <1>15, StartTimerFacts
  <2>3. timer_active' \subseteq Guests
    BY <1>15, <2>2 DEF TypeOK
  <2>4. /\ vIEC' \in [Guests -> SUBSET Irqs]
        /\ rIFS' \subseteq PassThrough /\ rIEC' \subseteq PassThrough
    BY <2>2 DEF TypeOK
  <2>5. QED
    BY <1>15, <2>1, <2>2, <2>3, <2>4, SetCurrentTypeOK
<1>16. ASSUME NEW late \in BOOLEAN, GuestGHFC(late) PROVE TypeOK'
  <2> DEFINE ifs == Flagged(current, vIFS[current])
  <2>1. PICK s \in InjStates :
          \/ StartTimer(late, s, ifs, g_ti[current])
          \/ /\ SetCurrent(s)
             /\ vIFS' = [vIFS EXCEPT ![current] = ifs]
             /\ UNCHANGED <<current, running, stopped, vIEC, rIFS, rIEC, g_ipl, g_open,
                            taken, g_ti, timer_active, tx_on>>
    BY <1>16, GuestGHFCFacts
  <2>2. current \in Guests /\ ifs \in SUBSET Irqs /\ g_ti[current] \in BOOLEAN
    BY <1>16, GuestGHFCFacts DEF TypeOK
  <2> HIDE DEF ifs
  <2>3. CASE StartTimer(late, s, ifs, g_ti[current])
    BY <1>15, <2>2, <2>3
  <2>4. CASE /\ SetCurrent(s)
             /\ vIFS' = [vIFS EXCEPT ![current] = ifs]
             /\ UNCHANGED <<current, running, stopped, vIEC, rIFS, rIEC, g_ipl, g_open,
                            taken, g_ti, timer_active, tx_on>>
    BY <2>2, <2>4, SetCurrentTypeOK DEF TypeOK
  <2>5. QED
    BY <2>1, <2>3, <2>4
<1>17. ASSUME NEW late \in BOOLEAN, WriteCompare(late) PROVE TypeOK'
  BY <1>15, <1>17, WriteCompareFacts
<1>18. ASSUME NEW late \in BOOLEAN, AccessCount(late) PROVE TypeOK'
  BY <1>15, <1>18, AccessCountFacts
<1>19. CASE CountMeetsCompare
  BY <1>19 DEF TypeOK, CountMeetsCompare, flags, vmic, real, injection, gcpu
<1>20. CASE UNCHANGED vars
  BY <1>20 DEF TypeOK, vars, flags, vmic, real, injection, gcpu, gtimer
<1>21. QED
  BY <1>1, <1>2, <1>3, <1>4, <1>5, <1>6, <1>7, <1>8, <1>9, <1>10, <1>11, <1>12, <1>13, <1>14,
     <1>16, <1>17, <1>18, <1>19, <1>20 DEF Next, RootStep, GuestStep

(* The state of guests, root and controller stays well formed.               *)
THEOREM TypeCorrect == Spec => []TypeOK
  BY InitTypeOK, NextTypeOK, PTL DEF Spec

-----------------------------------------------------------------------------
(* Injection registers: RequestIsOwn, TakenIsTracked and IntStatIsTaken.     *)
(* They stand or fall together: that INTSTAT names the IRQ taken needs GHFC  *)
(* tracking to be on, and that needs GRIPL to be the guest's own request.    *)

SoundRecord(s, polling, tk) ==
  /\ s.gripl \in {NoIrq, s.inj}
  /\ ~polling /\ s.inj # NoIrq => s.nofcd
  /\ ~polling => IF Unnoticed(s) THEN tk = s.inj ELSE s.intr = tk

SoundGuest(g) == SoundRecord(Injection(g), g \in Polling, taken[g])

SoundInjection == \A g \in Guests : SoundGuest(g)

(* Guests raise their level to a value of Levels; "s" alone stops guests.    *)
ReachableLevels ==
  /\ \A g \in Guests : g_ipl[g] \in Levels \cup {0}
  /\ "s" \notin Commands => stopped = {}

(* The assumption of the theorems about registers: guests are not stopped,   *)
(* or no guest hides an IRQ with its Status.IPL.  Without it insert_IRQ      *)
(* reaches the wrong registers (request_switch_to_thread reports a switch    *)
(* that switch_to_thread refused).                                           *)
SwitchNeverRefused ==
  "s" \notin Commands \/ \A l \in Levels \cup {0}, i \in Irqs : l < Ipl[i]

LEMMA InsertedSound ==
  ASSUME NEW s \in InjStates, NEW g \in Guests, NEW i \in Irqs, NEW tk,
         SoundRecord(s, g \in Polling, tk)
  PROVE  SoundRecord(Inserted(g, s, i), g \in Polling, tk)
<1> DEFINE t == Inserted(g, s, i)
<1>1. CASE Outranked(Noticed(s), i)
  BY <1>1, InsertedFacts
<1>2. CASE ~Outranked(Noticed(s), i)
  <2>1. /\ t.inj = i /\ t.gripl = i
        /\ t.nofcd = (s.nofcd \/ g \notin Polling)
        /\ t.intr = IF Unnoticed(s) THEN s.inj ELSE s.intr
    BY <1>2, InsertedFacts
  <2>2. i # NoIrq /\ ~Unnoticed(t)
    BY <2>1, Distinct DEF Unnoticed
  <2> HIDE DEF t
  <2>3. QED
    BY <2>1, <2>2 DEF SoundRecord, t
<1>3. QED
  BY <1>1, <1>2

LEMMA CancelledSound ==
  ASSUME NEW s \in InjStates, NEW pending \in SUBSET Irqs, NEW t \in Cancelled(s, pending),
         NEW g \in Guests, NEW tk,
         g \notin Polling => s.intr = tk /\ (s.nofcd \/ pending = {})
  PROVE  SoundRecord(t, g \in Polling, tk)
<1>1. t.gripl = t.inj /\ t.intr = s.intr /\ (pending = {} => t.inj = NoIrq)
      /\ (pending # {} => t.nofcd = s.nofcd)
  BY CancelledFacts
<1>2. ~Unnoticed(t)
  BY <1>1 DEF Unnoticed
<1>3. QED
  BY <1>1, <1>2 DEF SoundRecord

(* While the guest runs, root has heard of everything a guest with handlers  *)
(* took: GHFC comes before the next instruction.                             *)
LEMMA RunningNoticed ==
  ASSUME TypeOK, SoundInjection, GuestRuns, current \notin Polling
  PROVE  LET s == Injection(current) IN
         ~Unnoticed(s) /\ s.intr = taken[current] /\ (s.inj # NoIrq => s.nofcd)
<1>1. current \in Guests /\ SoundGuest(current)
  BY DEF GuestRuns, SoundInjection
<1>2. Injection(current).nofcd = live.nofcd
  BY DEF Injection, GuestCtl
<1>3. ~Unnoticed(Injection(current))
  <2>1. Unnoticed(Injection(current)) => Injection(current).inj # NoIrq
    BY DEF Unnoticed
  <2>2. QED
    BY <1>1, <1>2, <2>1 DEF GuestRuns, GhfcPending, SoundGuest, SoundRecord
<1>4. QED
  BY <1>1, <1>3 DEF SoundGuest, SoundRecord

LEMMA SoundKept ==
  ASSUME SoundInjection, taken' = taken, \A g \in Guests : Injection(g)' = Injection(g)
  PROVE  SoundInjection'
BY DEF SoundInjection, SoundGuest

LEMMA SoundCurrent ==
  ASSUME TypeOK, SoundInjection, current \in Guests, UNCHANGED <<current, taken>>,
         NEW s \in InjStates, SetCurrent(s), SoundRecord(s, current \in Polling, taken[current])
  PROVE  SoundInjection'
<1>1. Injection(current)' = s /\ \A g \in Guests \ {current} : Injection(g)' = Injection(g)
  BY SetCurrentFacts
<1>2. SoundGuest(current)'
  BY <1>1 DEF SoundGuest
<1>3. ASSUME NEW g \in Guests \ {current} PROVE SoundGuest(g)'
  BY <1>1 DEF SoundInjection, SoundGuest
<1>4. QED
  BY <1>2, <1>3 DEF SoundInjection

LEMMA SoundRaise ==
  ASSUME SwitchNeverRefused, TypeOK, ReachableLevels, SoundInjection, taken' = taken,
         NEW g \in Guests, NEW i \in Irqs, RaiseVirtual(g, i)
  PROVE  SoundInjection'
<1>1. g \notin stopped \/ g_ipl[g] < Ipl[i]
  BY DEF SwitchNeverRefused, ReachableLevels
<1>2. /\ Injection(g)' \in {Injection(g), Inserted(g, Injection(g), i)}
      /\ \A h \in Guests \ {g} : Injection(h)' = Injection(h)
  BY <1>1, RaiseInjection
<1>3. SoundRecord(Injection(g)', g \in Polling, taken[g])
  BY <1>2, InjectionType, InsertedSound DEF SoundInjection, SoundGuest
<1>4. SoundGuest(g)'
  BY <1>3 DEF SoundGuest
<1>5. ASSUME NEW h \in Guests \ {g} PROVE SoundGuest(h)'
  BY <1>2 DEF SoundInjection, SoundGuest
<1>6. QED
  BY <1>4, <1>5 DEF SoundInjection

LEMMA SoundTimer ==
  ASSUME TypeOK, SoundInjection, current \in Guests, NEW late \in BOOLEAN, NEW s \in InjStates,
         NEW ifs \in SUBSET Irqs, NEW ti \in BOOLEAN, StartTimer(late, s, ifs, ti),
         SoundRecord(s, current \in Polling, taken[current])
  PROVE  SoundInjection'
<1>1. Timer \in Irqs
  BY DEF Irqs, Emulated
<1>2. SetCurrent(s) \/ SetCurrent(Inserted(current, s, Timer))
  <2>1. CASE late /\ Timer \in vIEC[current]
    BY <2>1 DEF StartTimer
  <2>2. CASE ~(late /\ Timer \in vIEC[current])
    BY <2>2 DEF StartTimer
  <2>3. QED
    BY <2>1, <2>2
<1>3. Inserted(current, s, Timer) \in InjStates
  BY <1>1, InsertedFacts
<1>4. SoundRecord(Inserted(current, s, Timer), current \in Polling, taken[current])
  BY <1>1, InsertedSound
<1>5. UNCHANGED <<current, taken>>
  BY DEF StartTimer, gcpu
<1>6. QED
  BY <1>2, <1>3, <1>4, <1>5, SoundCurrent

LEMMA NextReachableLevels ==
  TypeOK /\ ReachableLevels /\ [Next]_vars => ReachableLevels'
<1> SUFFICES ASSUME TypeOK, ReachableLevels, [Next]_vars PROVE ReachableLevels'
  OBVIOUS
<1>1. ASSUME NEW g \in Guests, NEW i \in Irqs, RaiseVirtual(g, i), UNCHANGED gcpu
      PROVE  ReachableLevels'
  BY <1>1, RaiseFacts DEF ReachableLevels, gcpu
<1>2. ASSUME NEW i \in PassThrough, DeviceRaise(i) \/ ExecuteIRQ(i) PROVE ReachableLevels'
  <2>1. CASE DeviceRaise(i)
    BY <2>1 DEF DeviceRaise, ReachableLevels, gcpu, flags
  <2>2. CASE ExecuteIRQ(i)
    BY <1>1, <2>2, IrqsAssumption DEF ExecuteIRQ, Irqs
  <2>3. QED
    BY <1>2, <2>1, <2>2
<1>3. ASSUME NEW g \in Guests, ConsoleRx(g) \/ TimeIrq(g) PROVE ReachableLevels'
  BY <1>1, <1>3 DEF ConsoleRx, TimeIrq, Irqs, Emulated
<1>4. CASE Reschedule \/ RootInput \/ GuestWait
  BY <1>4 DEF Reschedule, RootInput, GuestWait, ReachableLevels, gcpu, flags
<1>5. ASSUME NEW g \in Guests, Stop(g) \/ Continue(g) PROVE ReachableLevels'
  BY <1>5 DEF Stop, Continue, ReachableLevels, gcpu
<1>6. ASSUME NEW g \in Guests, Restart(g) PROVE ReachableLevels'
  BY <1>6 DEF Restart, ReachableLevels, TypeOK
<1>7. ASSUME NEW reg \in {"IFS", "IEC"}, NEW op \in WriteOps, NEW w \in Words,
             NEW v \in SUBSET w, GuestWrite(reg, op, w, v)
      PROVE  ReachableLevels'
  BY <1>7 DEF GuestWrite, ReachableLevels, gcpu, flags
<1>8. CASE GuestTake
  BY <1>8 DEF GuestTake, ReachableLevels, flags
<1>9. ASSUME NEW on \in BOOLEAN, GuestOpen(on) PROVE ReachableLevels'
  BY <1>9 DEF GuestOpen, ReachableLevels, flags
<1>10. ASSUME NEW on \in BOOLEAN, ConsoleWrite(on) PROVE ReachableLevels'
  <2>1. CASE on
    BY <1>1, <1>10, <2>1 DEF ConsoleWrite, GuestRuns, Irqs, Emulated
  <2>2. CASE ~on
    BY <1>10, <2>2 DEF ConsoleWrite, ReachableLevels, gcpu, flags
  <2>3. QED
    BY <2>1, <2>2
<1>11. ASSUME NEW l \in Levels, GuestSetIpl(l) PROVE ReachableLevels'
  BY <1>11 DEF GuestSetIpl, ReachableLevels, flags, TypeOK
<1>12. ASSUME NEW late \in BOOLEAN, GuestGHFC(late) \/ WriteCompare(late) \/ AccessCount(late)
       PROVE  ReachableLevels'
  BY <1>12 DEF GuestGHFC, WriteCompare, AccessCount, StartTimer, ReachableLevels, gcpu, flags
<1>13. CASE CountMeetsCompare \/ UNCHANGED vars
  BY <1>13 DEF CountMeetsCompare, vars, ReachableLevels, gcpu, flags
<1>14. QED
  BY <1>2, <1>3, <1>4, <1>5, <1>6, <1>7, <1>8, <1>9, <1>10, <1>11, <1>12, <1>13
     DEF Next, RootStep, GuestStep

LEMMA NextSound ==
  ASSUME SwitchNeverRefused
  PROVE  TypeOK /\ ReachableLevels /\ SoundInjection /\ [Next]_vars => SoundInjection'
<1> SUFFICES ASSUME TypeOK, ReachableLevels, SoundInjection, [Next]_vars PROVE SoundInjection'
  OBVIOUS
<1>1. ASSUME NEW i \in PassThrough, DeviceRaise(i) \/ ExecuteIRQ(i) PROVE SoundInjection'
  <2>1. CASE DeviceRaise(i)
    BY <2>1, SoundKept DEF DeviceRaise, injection, gcpu, Injection, GuestCtl
  <2>2. CASE ExecuteIRQ(i)
    BY <2>2, SoundRaise, IrqsAssumption DEF ExecuteIRQ, Irqs, gcpu
  <2>3. QED
    BY <1>1, <2>1, <2>2
<1>2. ASSUME NEW g \in Guests, ConsoleRx(g) \/ TimeIrq(g) PROVE SoundInjection'
  BY <1>2, SoundRaise DEF ConsoleRx, TimeIrq, Irqs, Emulated, gcpu
<1>3. CASE Reschedule
  BY <1>3, RescheduleKeeps, SoundKept DEF Reschedule, gcpu, TypeOK
<1>4. CASE RootInput
  <2>1. Root \in Threads
    BY DEF Threads
  <2>2. QED
    BY <1>4, <2>1, SwitchKeeps, SoundKept DEF RootInput, gcpu
<1>5. CASE GuestWait
  BY <1>5, RescheduleKeeps, SoundKept DEF GuestWait, gcpu, TypeOK
<1>6. ASSUME NEW g \in Guests, Stop(g) \/ Continue(g) PROVE SoundInjection'
  BY <1>6, SoundKept DEF Stop, Continue, injection, gcpu, Injection, GuestCtl
<1>7. ASSUME NEW g \in Guests, Restart(g) PROVE SoundInjection'
  <2>1. /\ current = Root /\ current' = Root
        /\ injected_irq' = [injected_irq EXCEPT ![g] = NoIrq]
        /\ interrupted_irq' = [interrupted_irq EXCEPT ![g] = NoIrq]
        /\ saved' = [saved EXCEPT ![g] = Quiet]
        /\ taken' = [taken EXCEPT ![g] = NoIrq]
    BY <1>7 DEF Restart
  <2>2. Injection(g)' = [inj |-> NoIrq, intr |-> NoIrq, gripl |-> NoIrq, nofcd |-> FALSE]
    BY <2>1, Distinct DEF Injection, GuestCtl, Quiet, TypeOK
  <2>3. taken'[g] = NoIrq
    BY <2>1 DEF TypeOK
  <2>4. SoundGuest(g)'
    BY <2>2, <2>3 DEF SoundGuest, SoundRecord, Unnoticed
  <2>5. ASSUME NEW h \in Guests \ {g} PROVE SoundGuest(h)'
    BY <2>1, Distinct DEF SoundInjection, SoundGuest, Injection, GuestCtl, TypeOK
  <2>6. QED
    BY <2>4, <2>5 DEF SoundInjection
<1>8. ASSUME NEW reg \in {"IFS", "IEC"}, NEW op \in WriteOps, NEW w \in Words,
             NEW v \in SUBSET w, GuestWrite(reg, op, w, v)
      PROVE  SoundInjection'
  <2> DEFINE s0 == Injection(current)
  <2>1. /\ current \in Guests /\ GuestRuns /\ UNCHANGED <<current, taken>>
        /\ v \subseteq OwnIn(w) /\ w \subseteq Irqs
    BY <1>8, GuestWriteFacts
  <2>2. PICK ended \in SUBSET OwnIn(w), ifs \in SUBSET Irqs, iec \in SUBSET Irqs,
             s \in InjStates, t \in InjStates : Written(reg, op, w, v, ended, ifs, iec, s, t)
    BY <1>8, GuestWriteFacts
  <2>3. s0 \in InjStates /\ SoundRecord(s0, current \in Polling, taken[current])
        /\ s0.inj = injected_irq[current]
    BY <2>1, InjectionType DEF SoundInjection, SoundGuest, Injection
  <2>4. current \notin Polling => s0.intr = taken[current] /\ (s0.inj # NoIrq => s0.nofcd)
    BY <2>1, RunningNoticed
  <2> HIDE DEF s0
  <2>5. SoundRecord(s, current \in Polling, taken[current])
    <3>1. CASE injected_irq[current] \in ended
      <4>1. s0.inj # NoIrq
        BY <2>1, <2>3, <3>1, Distinct DEF OwnIn
      <4>2. PICK pending \in SUBSET Irqs : s \in Cancelled(s0, pending)
        BY <2>2, <3>1 DEF Written, s0
      <4>3. QED
        BY <2>1, <2>3, <2>4, <4>1, <4>2, CancelledSound
    <3>2. CASE injected_irq[current] \notin ended
      BY <2>2, <2>3, <3>2 DEF Written, s0
    <3>3. QED
      BY <3>1, <3>2
  <2>6. PICK offered \in SUBSET Irqs : t \in AfterHooks(current, s, offered)
    BY <2>2 DEF Written
  <2>7. SoundRecord(t, current \in Polling, taken[current])
    BY <2>1, <2>5, <2>6, AfterHooksFacts, InsertedSound
  <2>8. SetCurrent(t)
    BY <2>2 DEF Written
  <2>9. QED
    BY <2>1, <2>7, <2>8, SoundCurrent
<1>9. CASE GuestTake
  <2> DEFINE i == live.gripl
             s == Injection(current)
  <2>1. /\ current \in Guests /\ i # NoIrq /\ UNCHANGED <<current, injected_irq, interrupted_irq, saved>>
        /\ live' = [live EXCEPT !.gripl = NoIrq] /\ taken' = [taken EXCEPT ![current] = i]
    BY <1>9 DEF GuestTake, GuestRuns
  <2>2. s.gripl = i /\ s.nofcd = live.nofcd
    BY DEF Injection, GuestCtl
  <2>3. s.inj = i /\ (current \notin Polling => s.nofcd)
    BY <2>1, <2>2 DEF SoundInjection, SoundGuest, SoundRecord
  <2>4. Injection(current)'.inj = i /\ Injection(current)'.gripl = NoIrq
        /\ Injection(current)'.nofcd = s.nofcd
    BY <2>1, <2>2, <2>3 DEF Injection, GuestCtl, TypeOK
  <2>5. taken'[current] = i
    BY <2>1 DEF TypeOK
  <2>6. SoundGuest(current)'
    BY <2>1, <2>3, <2>4, <2>5 DEF SoundGuest, SoundRecord, Unnoticed
  <2>7. ASSUME NEW g \in Guests \ {current} PROVE SoundGuest(g)'
    BY <2>1 DEF SoundInjection, SoundGuest, Injection, GuestCtl, TypeOK
  <2>8. QED
    BY <2>1, <2>6, <2>7 DEF SoundInjection
<1>10. ASSUME NEW on \in BOOLEAN, GuestOpen(on) PROVE SoundInjection'
  BY <1>10, SoundKept DEF GuestOpen, injection, Injection, GuestCtl
<1>11. ASSUME NEW on \in BOOLEAN, ConsoleWrite(on) PROVE SoundInjection'
  <2>1. CASE on
    BY <1>11, <2>1, SoundRaise DEF ConsoleWrite, GuestRuns, Irqs, Emulated, gcpu
  <2>2. CASE ~on
    BY <1>11, <2>2, SoundKept DEF ConsoleWrite, injection, gcpu, Injection, GuestCtl
  <2>3. QED
    BY <2>1, <2>2
<1>12. ASSUME NEW l \in Levels, GuestSetIpl(l) PROVE SoundInjection'
  BY <1>12, SoundKept DEF GuestSetIpl, injection, Injection, GuestCtl
<1>13. ASSUME NEW late \in BOOLEAN, GuestGHFC(late) PROVE SoundInjection'
  <2> DEFINE irq == injected_irq[current]
             ifs == Flagged(current, vIFS[current])
             s0  == [Injection(current) EXCEPT !.intr = irq]
  <2>1. /\ current \in Guests /\ irq # NoIrq /\ live.nofcd /\ Unnoticed(Injection(current))
        /\ ifs \in SUBSET Irqs /\ s0 \in InjStates
    BY <1>13, GuestGHFCFacts
  <2>2. PICK s \in InjStates :
          /\ s \in Cancelled(s0, ifs \cap vIEC[current])
          /\ \/ irq = Timer /\ StartTimer(late, s, ifs, g_ti[current])
             \/ /\ SetCurrent(s)
                /\ UNCHANGED <<current, taken>>
    BY <1>13, GuestGHFCFacts
  <2>3. s0.intr = irq /\ s0.nofcd
    BY <2>1, InjectionType DEF Injection, GuestCtl, InjStates
  <2>4. current \notin Polling => taken[current] = irq
    BY <2>1 DEF SoundInjection, SoundGuest, SoundRecord, Injection
  <2> HIDE DEF s0, ifs, irq
  <2>5. SoundRecord(s, current \in Polling, taken[current])
    BY <2>1, <2>2, <2>3, <2>4, CancelledSound
  <2>6. g_ti[current] \in BOOLEAN
    BY <2>1 DEF TypeOK
  <2>7. QED
    BY <2>1, <2>2, <2>5, <2>6, SoundTimer, SoundCurrent
<1>14. ASSUME NEW late \in BOOLEAN, WriteCompare(late) PROVE SoundInjection'
  <2> DEFINE ifs == vIFS[current] \ {Timer}
             s0  == Injection(current)
  <2>1. current \in Guests /\ GuestRuns /\ ifs \in SUBSET Irqs /\ s0 \in InjStates
    BY <1>14, WriteCompareFacts, InjectionType
  <2>2. PICK s \in InjStates :
          /\ s \in IF s0.inj = Timer THEN Cancelled(s0, ifs \cap vIEC[current]) ELSE {s0}
          /\ StartTimer(late, s, ifs, FALSE)
    BY <1>14, WriteCompareFacts
  <2>3. Timer # NoIrq
    BY Distinct DEF Irqs, Emulated
  <2>4. current \notin Polling => s0.intr = taken[current] /\ (s0.inj # NoIrq => s0.nofcd)
    BY <2>1, RunningNoticed
  <2>5. SoundRecord(s0, current \in Polling, taken[current])
    BY <2>1 DEF SoundInjection, SoundGuest
  <2> HIDE DEF s0, ifs
  <2>6. SoundRecord(s, current \in Polling, taken[current])
    BY <2>1, <2>2, <2>3, <2>4, <2>5, CancelledSound
  <2>7. QED
    BY <2>1, <2>2, <2>6, SoundTimer
<1>15. ASSUME NEW late \in BOOLEAN, AccessCount(late) PROVE SoundInjection'
  BY <1>15, AccessCountFacts, SoundTimer DEF SoundInjection, SoundGuest
<1>16. CASE CountMeetsCompare \/ UNCHANGED vars
  BY <1>16, SoundKept DEF CountMeetsCompare, vars, injection, gcpu, Injection, GuestCtl
<1>17. QED
  BY <1>1, <1>2, <1>3, <1>4, <1>5, <1>6, <1>7, <1>8, <1>9, <1>10, <1>11, <1>12, <1>13, <1>14,
     <1>15, <1>16 DEF Next, RootStep, GuestStep

(* Before the first switch nothing is injected and nothing was taken.        *)
LEMMA InitSound == Init => ReachableLevels /\ SoundInjection
<1> SUFFICES ASSUME Init PROVE ReachableLevels /\ SoundInjection
  OBVIOUS
<1>1. ReachableLevels
  BY DEF Init, ReachableLevels
<1>2. ASSUME NEW g \in Guests
      PROVE  Injection(g) = [inj |-> NoIrq, intr |-> NoIrq, gripl |-> NoIrq, nofcd |-> FALSE]
             /\ taken[g] = NoIrq
  BY DEF Init, Injection, GuestCtl, Quiet
<1>3. ASSUME NEW g \in Guests PROVE SoundGuest(g)
  BY <1>2 DEF SoundGuest, SoundRecord, Unnoticed
<1>4. QED
  BY <1>1, <1>3 DEF SoundInjection

(* The inductive invariant of this part.                                     *)
LEMMA SoundAlways ==
  ASSUME SwitchNeverRefused
  PROVE  Spec => [](TypeOK /\ ReachableLevels /\ SoundInjection)
<1>1. Init => TypeOK /\ ReachableLevels /\ SoundInjection
  BY InitTypeOK, InitSound
<1>2. TypeOK /\ ReachableLevels /\ SoundInjection /\ [Next]_vars
      => (TypeOK /\ ReachableLevels /\ SoundInjection)'
  BY NextTypeOK, NextReachableLevels, NextSound
<1>3. QED
  BY <1>1, <1>2, PTL DEF Spec

LEMMA SoundImplies ==
  SoundInjection => RequestIsOwn /\ TakenIsTracked /\ IntStatIsTaken
<1> SUFFICES ASSUME SoundInjection, NEW g \in Guests
             PROVE  /\ GuestCtl(g).gripl \in {NoIrq, injected_irq[g]}
                    /\ g \notin Polling /\ injected_irq[g] # NoIrq => GuestCtl(g).nofcd
                    /\ g \notin Polling => \/ interrupted_irq[g] = taken[g]
                                           \/ Unnoticed(Injection(g))
  BY DEF RequestIsOwn, TakenIsTracked, IntStatIsTaken
<1>1. SoundRecord(Injection(g), g \in Polling, taken[g])
  BY DEF SoundInjection, SoundGuest
<1>2. /\ Injection(g).inj = injected_irq[g] /\ Injection(g).intr = interrupted_irq[g]
      /\ Injection(g).gripl = GuestCtl(g).gripl /\ Injection(g).nofcd = GuestCtl(g).nofcd
  BY DEF Injection
<1>3. QED
  BY <1>1, <1>2 DEF SoundRecord

(* A guest's GuestCtl2, in the CPU or saved, asks for no IRQ but the one     *)
(* insert_IRQ or cancel_inject_IRQ last injected into that guest.            *)
THEOREM RequestsAreOwn ==
  ASSUME SwitchNeverRefused PROVE Spec => []RequestIsOwn
  BY SoundAlways, SoundImplies, PTL

(* Root will see GHFC for every IRQ a guest with handlers may still take.    *)
THEOREM TakesAreTracked ==
  ASSUME SwitchNeverRefused PROVE Spec => []TakenIsTracked
  BY SoundAlways, SoundImplies, PTL

(* INTSTAT reads the IRQ the guest's CPU vectored to, once root knows of it. *)
THEOREM IntStatIsRight ==
  ASSUME SwitchNeverRefused PROVE Spec => []IntStatIsTaken
  BY SoundAlways, SoundImplies, PTL

-----------------------------------------------------------------------------
(* Delivery: the invariants that relate the virtual flags and masks, the     *)
(* real ones and the injection.  They do not depend on which registers hold  *)
(* an injection, so that each step is one of a few kinds.                    *)

Delivery == <<vIFS, vIEC, rIFS, rIEC, injected_irq, g_ti, timer_active, tx_on>>

\* A handler that flags IRQ i of guest g and injects it when it is enabled.
RaiseStep(g, i) ==
  /\ RaiseVirtual(g, i)
  /\ rIFS' = rIFS
  /\ i \in PassThrough => g = Owner[i] /\ i \in rIFS /\ rIEC' = rIEC \ {i}
  /\ i \notin PassThrough => rIEC' = rIEC
  /\ i = Timer => timer_active' = timer_active \ {g} /\ g_ti' = [g_ti EXCEPT ![g] = TRUE]
  /\ i # Timer => UNCHANGED <<timer_active, g_ti>>
  /\ i = ConTx => TxUsed /\ tx_on' = tx_on \cup {g}
  /\ i # ConTx => tx_on' = tx_on

(* Every step leaves the state of delivery alone or is of one of these kinds. *)
LEMMA StepKinds ==
  ASSUME TypeOK, [Next]_vars
  PROVE  \/ UNCHANGED Delivery
         \/ \E i \in PassThrough : DeviceRaise(i)
         \/ \E g \in Guests, i \in Irqs : RaiseStep(g, i)
         \/ \E g \in Guests : Restart(g)
         \/ \E reg \in {"IFS", "IEC"}, op \in WriteOps, w \in Words : \E v \in SUBSET w :
              GuestWrite(reg, op, w, v)
         \/ \E late \in BOOLEAN : GuestGHFC(late) \/ WriteCompare(late) \/ AccessCount(late)
         \/ CountMeetsCompare
         \/ ConsoleWrite(FALSE)
<1>1. /\ PassThrough \cap Emulated = {} /\ Timer # ConRx /\ Timer # ConTx /\ ConRx # ConTx
      /\ {Timer, ConRx, ConTx} \subseteq Emulated /\ Irqs = PassThrough \cup Emulated
      /\ \A i \in PassThrough : Owner[i] \in Guests
  BY IrqsAssumption DEF Emulated, Irqs
<1>2. ASSUME NEW i \in PassThrough, ExecuteIRQ(i) PROVE RaiseStep(Owner[i], i)
  BY <1>1, <1>2 DEF ExecuteIRQ, RaiseStep, gtimer
<1>3. ASSUME NEW g \in Guests, ConsoleRx(g) PROVE RaiseStep(g, ConRx)
  BY <1>1, <1>3 DEF ConsoleRx, RaiseStep, gtimer, real
<1>4. ASSUME NEW g \in Guests, TimeIrq(g) PROVE RaiseStep(g, Timer)
  BY <1>1, <1>4 DEF TimeIrq, RaiseStep, real
<1>5. ASSUME ConsoleWrite(TRUE) PROVE current \in Guests /\ RaiseStep(current, ConTx)
  BY <1>1, <1>5 DEF ConsoleWrite, RaiseStep, GuestRuns, gtimer, real
<1>6. ASSUME NEW g \in Guests,
             Stop(g) \/ Continue(g)
      PROVE  UNCHANGED Delivery
  BY <1>6 DEF Stop, Continue, Delivery, vmic, real, gtimer, injection
<1>7. ASSUME NEW l, GuestOpen(l) \/ GuestSetIpl(l) PROVE UNCHANGED Delivery
  BY <1>7 DEF GuestOpen, GuestSetIpl, Delivery, vmic, real, gtimer, injection
<1>8. ASSUME Reschedule \/ RootInput \/ GuestWait \/ GuestTake \/ UNCHANGED vars
      PROVE  UNCHANGED Delivery
  BY <1>8 DEF Reschedule, RootInput, GuestWait, GuestTake, vars,
              Delivery, vmic, real, gtimer, injection
<1>9. ASSUME NEW on \in BOOLEAN, ConsoleWrite(on) PROVE ConsoleWrite(TRUE) \/ ConsoleWrite(FALSE)
  BY <1>9
<1>10. QED
  BY <1>1, <1>2, <1>3, <1>4, <1>5, <1>6, <1>7, <1>8, <1>9 DEF Next, RootStep, GuestStep

(* What a store leaves injected: an IRQ that it offers or that is pending    *)
(* behind the one it ended, else the one that was; and nothing only when     *)
(* there is none of these.                                                   *)
StoreInjects(w, ended, ifs, iec) ==
  LET offered == Offered(current, w, vIFS'[current], iec)
      was     == injected_irq[current]
      is      == injected_irq'[current]
      all     == IF was \in ended THEN Flagged(current, ifs) ELSE ifs
  IN
  /\ injected_irq' = [injected_irq EXCEPT ![current] = is]
  /\ vIEC'[current] = iec
  /\ is # NoIrq => \/ is \in offered
                   \/ was \in ended /\ is \in all \cap iec
                   \/ was \notin ended /\ is = was
  /\ is = NoIrq => /\ offered = {}
                   /\ was \in ended => all \cap iec = {}
                   /\ was \notin ended => was = NoIrq

(* Every store to IFS or IEC injects so.                                     *)
LEMMA WriteInjects ==
  ASSUME TypeOK, current \in Guests, NEW w \in Words, NEW reg, NEW op, NEW v,
         NEW ended \in SUBSET OwnIn(w), NEW ifs \in SUBSET Irqs,
         NEW iec \in SUBSET Irqs, NEW s \in InjStates, NEW t \in InjStates,
         Written(reg, op, w, v, ended, ifs, iec, s, t)
  PROVE  StoreInjects(w, ended, ifs, iec)
<1> DEFINE offered == Offered(current, w, vIFS'[current], iec)
           was     == injected_irq[current]
           all     == IF was \in ended THEN Flagged(current, ifs) ELSE ifs
<1>1. /\ all \in SUBSET Irqs /\ offered \in SUBSET Irqs
      /\ s \in IF was \in ended THEN Cancelled(Injection(current), all \cap iec) ELSE {Injection(current)}
      /\ t \in AfterHooks(current, s, offered)
      /\ SetCurrent(t) /\ vIEC' = [vIEC EXCEPT ![current] = iec]
  BY DEF Written
<1>2. injected_irq' = [injected_irq EXCEPT ![current] = t.inj] /\ injected_irq'[current] = t.inj
      /\ vIEC'[current] = iec
  BY <1>1 DEF SetCurrent, TypeOK
<1> HIDE DEF offered, all
<1>3. /\ s.inj # NoIrq \/ offered # {} => t.inj # NoIrq
      /\ t.inj \in offered \cup {s.inj}
  BY <1>1, AfterHooksFacts
<1>4. Injection(current) \in InjStates /\ Injection(current).inj = was
  BY InjectionType DEF Injection
<1>5. was \notin ended => s.inj = was
  BY <1>1, <1>4
<1>6. was \in ended => IF all \cap iec = {} THEN s.inj = NoIrq ELSE s.inj \in all \cap iec
  <2>1. all \cap iec \in SUBSET Irqs
    BY <1>1
  <2>2. QED
    BY <1>1, <1>4, <2>1, CancelledFacts
<1>7. NoIrq \notin Irqs
  BY Distinct
<1>8. QED
  BY <1>1, <1>2, <1>3, <1>5, <1>6, <1>7 DEF StoreInjects, offered, all

(* Starting the timer leaves something injected unless nothing was, and the  *)
(* timer is in time or disabled.                                             *)
LEMMA StartTimerInjects ==
  ASSUME TypeOK, current \in Guests, NEW late \in BOOLEAN, NEW s \in InjStates,
         NEW ifs \in SUBSET Irqs, NEW ti \in BOOLEAN, StartTimer(late, s, ifs, ti)
  PROVE  LET is == injected_irq'[current] IN
         /\ injected_irq' = [injected_irq EXCEPT ![current] = is]
         /\ is \in {s.inj, Timer}
         /\ is # s.inj => late /\ Timer \in vIEC[current]
         /\ s.inj # NoIrq => is # NoIrq
         /\ late /\ Timer \in vIEC[current] => is # NoIrq
<1>1. Timer \in Irqs /\ NoIrq \notin Irqs
  BY Distinct DEF Irqs, Emulated
<1> DEFINE t == IF late /\ Timer \in vIEC[current] THEN Inserted(current, s, Timer) ELSE s
<1>2. SetCurrent(t)
  BY DEF StartTimer
<1>3. injected_irq' = [injected_irq EXCEPT ![current] = t.inj] /\ injected_irq'[current] = t.inj
  BY <1>2 DEF SetCurrent, TypeOK
<1>4. CASE late /\ Timer \in vIEC[current]
  <2>1. t = Inserted(current, s, Timer)
    BY <1>4
  <2>2. t.inj = Timer \/ (t = s /\ s.inj # NoIrq)
    BY <1>1, <2>1, InsertedFacts
  <2>3. QED
    BY <1>1, <1>3, <1>4, <2>2
<1>5. CASE ~(late /\ Timer \in vIEC[current])
  BY <1>3, <1>5
<1>6. QED
  BY <1>4, <1>5

(* What the emulation of COUNT, of COMPARE and of GHFC does to delivery.     *)
LEMMA TimerAccessFacts ==
  ASSUME TypeOK, NEW late \in BOOLEAN,
         GuestGHFC(late) \/ WriteCompare(late) \/ AccessCount(late)
  PROVE  LET ifs == vIFS'[current]
             was == injected_irq[current]
             is  == injected_irq'[current]
             ti  == g_ti'[current]
         IN
         /\ current \in Guests
         /\ UNCHANGED <<current, running, stopped, vIEC, rIFS, rIEC, tx_on>>
         /\ ifs \in SUBSET Irqs /\ vIFS' = [vIFS EXCEPT ![current] = ifs]
         /\ vIFS[current] \ {Timer} \subseteq ifs /\ ifs \subseteq vIFS[current] \cup {Timer}
         /\ g_ti' = [g_ti EXCEPT ![current] = ti] /\ ti \in BOOLEAN
         /\ (Timer \in vIFS[current] => g_ti[current]) => (Timer \in ifs => ti)
         /\ timer_active \subseteq timer_active'
         /\ injected_irq' = [injected_irq EXCEPT ![current] = is]
         /\ is # NoIrq => \/ is \in vIEC[current] /\ (is \in ifs \/ (is = Timer /\ ti))
                          \/ is = was /\ is # Timer
                          \/ is = was /\ (Timer \in vIFS[current] => Timer \in ifs)
                             /\ (g_ti[current] => ti)
         /\ is = NoIrq => /\ was # NoIrq => ifs \cap vIEC[current] = {}
                          /\ ifs \cap vIEC[current] \subseteq vIFS[current]
                          /\ ti /\ Timer \in vIEC[current] => current \in timer_active'
<1> DEFINE was == injected_irq[current]
           is  == injected_irq'[current]
           en  == vIEC[current]
<1>0. NoIrq \notin Irqs /\ Timer \in Irqs
  BY Distinct DEF Irqs, Emulated
<1>1. CASE GuestGHFC(late)
  <2> DEFINE all == Flagged(current, vIFS[current])
             s0  == [Injection(current) EXCEPT !.intr = was]
  <2>1. current \in Guests /\ was # NoIrq /\ all \in SUBSET Irqs /\ s0 \in InjStates
    BY <1>1, GuestGHFCFacts
  <2>2. PICK s \in InjStates :
          /\ s \in Cancelled(s0, all \cap en)
          /\ \/ was = Timer /\ StartTimer(late, s, all, g_ti[current])
             \/ /\ SetCurrent(s)
                /\ vIFS' = [vIFS EXCEPT ![current] = all]
                /\ UNCHANGED <<current, running, stopped, vIEC, rIFS, rIEC, g_ipl, g_open,
                               taken, g_ti, timer_active, tx_on>>
    BY <1>1, GuestGHFCFacts
  <2>3. IF all \cap en = {} THEN s.inj = NoIrq ELSE s.inj \in all \cap en
    BY <2>1, <2>2, CancelledFacts
  <2>4. /\ vIFS \in [Guests -> SUBSET Irqs] /\ g_ti \in [Guests -> BOOLEAN]
        /\ injected_irq \in [Guests -> IrqOrNone]
        /\ all = vIFS[current] \cup (IF g_ti[current] THEN {Timer} ELSE {})
    BY DEF TypeOK, IrqOrNone, Flagged
  <2> HIDE DEF all, s0, was, en
  <2>5. CASE StartTimer(late, s, all, g_ti[current])
    <3>1. g_ti[current] \in BOOLEAN
      BY <2>1, <2>4
    <3>2. /\ vIFS' = [vIFS EXCEPT ![current] = all \cup (IF late THEN {Timer} ELSE {})]
          /\ g_ti' = [g_ti EXCEPT ![current] = g_ti[current] \/ late]
          /\ timer_active \subseteq timer_active' /\ (~late => current \in timer_active')
          /\ UNCHANGED <<current, running, stopped, vIEC, rIFS, rIEC, tx_on>>
      BY <2>5 DEF StartTimer, flags, real
    <3>3. /\ injected_irq' = [injected_irq EXCEPT ![current] = is]
          /\ is \in {s.inj, Timer}
          /\ is # s.inj => late /\ Timer \in en
          /\ s.inj # NoIrq => is # NoIrq
          /\ late /\ Timer \in en => is # NoIrq
      BY <2>1, <2>2, <2>5, <3>1, StartTimerInjects DEF en
    <3>4. vIFS'[current] = all \cup (IF late THEN {Timer} ELSE {})
          /\ g_ti'[current] = (g_ti[current] \/ late)
      BY <2>1, <2>4, <3>2
    <3> HIDE DEF is
    <3>5. /\ is # NoIrq => is \in en /\ is \in vIFS'[current]
          /\ is = NoIrq => /\ vIFS'[current] \cap en = {}
                           /\ ~(g_ti'[current] /\ Timer \in en)
      BY <1>0, <2>1, <2>3, <2>4, <3>1, <3>3, <3>4
    <3>6. QED
      BY <1>0, <2>1, <2>4, <3>1, <3>2, <3>3, <3>4, <3>5 DEF is, en, was
  <2>6. CASE /\ SetCurrent(s)
             /\ vIFS' = [vIFS EXCEPT ![current] = all]
             /\ UNCHANGED <<current, running, stopped, vIEC, rIFS, rIEC, g_ipl, g_open,
                            taken, g_ti, timer_active, tx_on>>
    <3>1. is = s.inj /\ injected_irq' = [injected_irq EXCEPT ![current] = is]
      BY <2>1, <2>4, <2>6 DEF SetCurrent
    <3>2. vIFS'[current] = all /\ g_ti'[current] = g_ti[current] /\ g_ti[current] \in BOOLEAN
      BY <2>1, <2>4, <2>6
    <3> HIDE DEF is
    <3>3. QED
      BY <1>0, <2>1, <2>3, <2>4, <2>6, <3>1, <3>2 DEF is, en, was
  <2>7. QED
    BY <2>2, <2>5, <2>6 DEF was
<1>2. CASE WriteCompare(late)
  <2> DEFINE ifs == vIFS[current] \ {Timer}
             s0  == Injection(current)
  <2>1. current \in Guests /\ ifs \in SUBSET Irqs /\ s0 \in InjStates /\ s0.inj = was
    BY <1>2, WriteCompareFacts, InjectionType DEF Injection
  <2>2. PICK s \in InjStates :
          /\ s \in IF s0.inj = Timer THEN Cancelled(s0, ifs \cap en) ELSE {s0}
          /\ StartTimer(late, s, ifs, FALSE)
    BY <1>2, WriteCompareFacts
  <2>3. /\ was = Timer => IF ifs \cap en = {} THEN s.inj = NoIrq ELSE s.inj \in ifs \cap en
        /\ was # Timer => s.inj = was
    BY <2>1, <2>2, CancelledFacts
  <2>4. /\ vIFS \in [Guests -> SUBSET Irqs] /\ g_ti \in [Guests -> BOOLEAN]
        /\ injected_irq \in [Guests -> IrqOrNone]
    BY DEF TypeOK, IrqOrNone
  <2>5. /\ vIFS' = [vIFS EXCEPT ![current] = ifs \cup (IF late THEN {Timer} ELSE {})]
        /\ g_ti' = [g_ti EXCEPT ![current] = FALSE \/ late]
        /\ timer_active \subseteq timer_active' /\ (~late => current \in timer_active')
        /\ UNCHANGED <<current, running, stopped, vIEC, rIFS, rIEC, tx_on>>
    BY <2>2 DEF StartTimer, flags, real
  <2>6. /\ injected_irq' = [injected_irq EXCEPT ![current] = is]
        /\ is \in {s.inj, Timer}
        /\ is # s.inj => late /\ Timer \in en
        /\ s.inj # NoIrq => is # NoIrq
        /\ late /\ Timer \in en => is # NoIrq
    BY <2>1, <2>2, StartTimerInjects
  <2>7. vIFS'[current] = ifs \cup (IF late THEN {Timer} ELSE {}) /\ g_ti'[current] = late
    BY <2>1, <2>4, <2>5
  <2> HIDE DEF is, was, en, s0
  <2>8. /\ is # NoIrq => \/ is \in en /\ is \in vIFS'[current]
                         \/ is = was /\ is # Timer
        /\ is = NoIrq => /\ was # NoIrq => vIFS'[current] \cap en = {}
                         /\ vIFS'[current] \cap en \subseteq vIFS[current]
                         /\ ~(late /\ Timer \in en)
    BY <1>0, <2>1, <2>3, <2>6, <2>7
  <2>9. QED
    BY <1>0, <2>1, <2>4, <2>5, <2>6, <2>7, <2>8 DEF is, en, was
<1>3. CASE AccessCount(late)
  <2>1. /\ current \in Guests /\ Injection(current) \in InjStates
        /\ vIFS[current] \in SUBSET Irqs /\ g_ti[current] \in BOOLEAN
        /\ StartTimer(late, Injection(current), vIFS[current], g_ti[current])
        /\ Injection(current).inj = was
    BY <1>3, AccessCountFacts DEF Injection
  <2>2. /\ vIFS \in [Guests -> SUBSET Irqs] /\ g_ti \in [Guests -> BOOLEAN]
        /\ injected_irq \in [Guests -> IrqOrNone]
    BY DEF TypeOK, IrqOrNone
  <2>3. /\ vIFS' = [vIFS EXCEPT ![current] = vIFS[current] \cup (IF late THEN {Timer} ELSE {})]
        /\ g_ti' = [g_ti EXCEPT ![current] = g_ti[current] \/ late]
        /\ timer_active \subseteq timer_active' /\ (~late => current \in timer_active')
        /\ UNCHANGED <<current, running, stopped, vIEC, rIFS, rIEC, tx_on>>
    BY <2>1 DEF StartTimer, flags, real
  <2>4. /\ injected_irq' = [injected_irq EXCEPT ![current] = is]
        /\ is \in {was, Timer}
        /\ is # was => late /\ Timer \in en
        /\ was # NoIrq => is # NoIrq
        /\ late /\ Timer \in en => is # NoIrq
    BY <2>1, StartTimerInjects
  <2>5. /\ vIFS'[current] = vIFS[current] \cup (IF late THEN {Timer} ELSE {})
        /\ g_ti'[current] = (g_ti[current] \/ late)
    BY <2>1, <2>2, <2>3
  <2> HIDE DEF is, was, en
  <2>6. QED
    BY <1>0, <2>1, <2>2, <2>3, <2>4, <2>5 DEF is, en, was
<1>4. QED
  BY <1>1, <1>2, <1>3

(* The kinds of IRQs are apart.                                              *)
LEMMA Kinds ==
  /\ NoIrq \notin Irqs /\ Irqs = PassThrough \cup Soft \cup {Timer, ConRx, ConTx}
  /\ Timer \notin Soft /\ Timer # ConRx /\ Timer # ConTx /\ ConRx # ConTx
  /\ \A i \in PassThrough : i \notin Soft /\ i # Timer /\ i # ConRx /\ i # ConTx
BY IrqsAssumption DEF Emulated, Irqs

(* A restart clears what the thread structure holds of its guest.            *)
LEMMA RestartFacts ==
  ASSUME TypeOK, NEW g \in Guests, Restart(g)
  PROVE  /\ vIFS'[g] = {} /\ vIEC'[g] = {} /\ injected_irq'[g] = NoIrq /\ g_ti'[g] = FALSE
         /\ \A h \in Guests \ {g} : /\ vIFS'[h] = vIFS[h] /\ vIEC'[h] = vIEC[h]
                                    /\ injected_irq'[h] = injected_irq[h] /\ g_ti'[h] = g_ti[h]
         /\ UNCHANGED <<rIFS, rIEC, timer_active, tx_on>>
BY DEF Restart, TypeOK, real

(* What the hooks offer is flagged, or the expired timer, and enabled; and   *)
(* each emulated IRQ of the word stored to that is both is offered.          *)
LEMMA OfferedFacts ==
  ASSUME NEW g \in Guests, NEW w \in SUBSET Irqs, NEW ifs \in SUBSET Irqs, NEW iec \in SUBSET Irqs
  PROVE  LET offered == Offered(g, w, ifs, iec) IN
         /\ (g \in tx_on /\ w \cap {ConRx, ConTx} # {} => ConTx \in ifs)
              => \A i \in offered : i \in iec /\ (i \in ifs \/ (i = Timer /\ g_ti[g]))
         /\ w \cap Soft \cap ifs \cap iec \subseteq offered
         /\ g_ti[g] /\ Timer \in w \cap iec => Timer \in offered
         /\ g \notin tx_on /\ ConRx \in w \cap ifs \cap iec => ConRx \in offered
         /\ g \in tx_on /\ w \cap {ConRx, ConTx} # {} /\ ConTx \in iec => ConTx \in offered
BY DEF Offered, SoftOffered, TimerOffered, ConsoleOffered

(* A store adds to the running guest's flags what it stores, the expired     *)
(* timer when it ended an injection, and the transmit IRQ while the          *)
(* transmitter is on; other IRQs than its own stay as they are.              *)
StoredWords(reg, op, w, ended, ifs, iec) ==
  /\ ifs \subseteq vIFS'[current]
  /\ \A i \in vIFS'[current] \ ifs :
       (i = Timer /\ g_ti[current]) \/ (i = ConTx /\ current \in tx_on)
  /\ ifs \ vIFS[current] \subseteq SelfRaised
  /\ \A i \in Irqs \ OwnIn(w) : /\ (i \in ifs) <=> (i \in vIFS[current])
                                /\ (i \in iec) <=> (i \in vIEC[current])
  /\ op # "INV" => /\ vIFS[current] \ ended \subseteq ifs
                   /\ vIEC[current] \ ended \subseteq iec
  /\ reg = "IFS" => iec = vIEC[current] /\ (op # "INV" => vIFS[current] \cap ended \cap ifs = {})
  /\ reg = "IEC" => ifs = vIFS[current]

(* Every store to IFS or IEC stores so.                                      *)
LEMMA WrittenWords ==
  ASSUME TypeOK, current \in Guests, NEW reg \in {"IFS", "IEC"}, NEW op \in WriteOps,
         NEW w \in Words, NEW v \in SUBSET OwnIn(w),
         NEW ended \in SUBSET OwnIn(w), NEW ifs \in SUBSET Irqs, NEW iec \in SUBSET Irqs,
         NEW s, NEW t, Written(reg, op, w, v, ended, ifs, iec, s, t)
  PROVE  StoredWords(reg, op, w, ended, ifs, iec)
<1> DEFINE all == IF injected_irq[current] \in ended THEN Flagged(current, ifs) ELSE ifs
<1>1. /\ vIFS'[current] \in {all, all \cup {ConTx}}
      /\ current \notin tx_on => vIFS'[current] = all
      /\ ifs = IF reg = "IFS" THEN Applied(op, vIFS[current], v, OwnIn(w)) ELSE vIFS[current]
      /\ iec = IF reg = "IEC" THEN Applied(op, vIEC[current], v, OwnIn(w)) ELSE vIEC[current]
      /\ reg = "IFS" => ifs \ vIFS[current] \subseteq SelfRaised
      /\ reg = "IFS" => ended = EndedIrqs(op, v, OwnIn(w), ifs, rIFS)
      /\ reg = "IEC" => ended = EndedIrqs(op, v, OwnIn(w), iec, rIEC)
  BY DEF Written
<1>2. ifs \subseteq all /\ \A i \in all \ ifs : i = Timer /\ g_ti[current]
  BY DEF Flagged
<1>3. OwnIn(w) \in SUBSET Irqs /\ vIFS[current] \in SUBSET Irqs /\ vIEC[current] \in SUBSET Irqs
  BY UseAssumption DEF OwnIn, TypeOK
<1> HIDE DEF all
<1>4. CASE reg = "IFS"
  <2>1. /\ \A i \in Irqs \ OwnIn(w) : i \in ifs <=> i \in vIFS[current]
        /\ op # "INV" => vIFS[current] \cap ended \cap ifs = {}
        /\ op # "INV" => vIFS[current] \ ended \subseteq ifs
    BY <1>1, <1>3, <1>4, AppliedFacts
  <2>2. QED
    BY <1>1, <1>2, <1>4, <2>1 DEF StoredWords
<1>5. CASE reg = "IEC"
  <2>1. /\ \A i \in Irqs \ OwnIn(w) : i \in iec <=> i \in vIEC[current]
        /\ op # "INV" => vIEC[current] \ ended \subseteq iec
    BY <1>1, <1>3, <1>5, AppliedFacts
  <2>2. QED
    BY <1>1, <1>2, <1>5, <2>1 DEF StoredWords
<1>6. QED
  BY <1>4, <1>5

(* A store leaves the real bits of other guests alone, and gives its own a   *)
(* flag or an enable with the virtual one.                                   *)
StoredBit(reg, op, w, ended, ifs, iec, j) ==
  /\ j \notin OwnIn(w) => /\ j \in rIFS' <=> j \in rIFS
                          /\ j \in rIEC' <=> j \in rIEC
  /\ reg = "IFS" /\ op # "INV" /\ j \in ifs \ rIFS' => j \in vIFS[current] \ rIFS
  /\ reg = "IEC" /\ op # "INV" /\ j \in iec \ rIEC' => j \in vIEC[current] \ rIEC
  /\ reg = "IFS" => (j \in rIEC' <=> IF j \in ended THEN j \in iec ELSE j \in rIEC)
  /\ reg = "IEC" => rIFS' = rIFS

(* Every store to IFS or IEC does so with each real bit.                     *)
LEMMA WrittenBits ==
  ASSUME TypeOK, NEW reg \in {"IFS", "IEC"}, NEW op \in WriteOps,
         NEW w \in Words, NEW v \in SUBSET OwnIn(w),
         NEW ended \in SUBSET OwnIn(w), NEW ifs \in SUBSET Irqs, NEW iec \in SUBSET Irqs,
         NEW s, NEW t, Written(reg, op, w, v, ended, ifs, iec, s, t), NEW j \in PassThrough
  PROVE  StoredBit(reg, op, w, ended, ifs, iec, j)
<1> DEFINE pt == OwnIn(w) \cap PassThrough
           u  == v \cap PassThrough
<1>1. op \in {"WR", "CLR", "SET", "INV"}
  BY UseAssumption
<1>2. ASSUME NEW vreg, NEW rreg
      PROVE  /\ j \notin OwnIn(w) => (j \in Applied(op, rreg, u, pt) <=> j \in rreg)
             /\ op # "INV" /\ j \in Applied(op, vreg, v, OwnIn(w)) \ Applied(op, rreg, u, pt)
                  => j \in vreg \ rreg
  <2>1. CASE op = "WR"
    BY <2>1 DEF Applied
  <2>2. CASE op = "CLR"
    BY <2>2 DEF Applied
  <2>3. CASE op = "SET"
    BY <2>3 DEF Applied
  <2>4. CASE op = "INV"
    BY <2>4 DEF Applied
  <2>5. QED
    BY <1>1, <2>1, <2>2, <2>3, <2>4
<1>3. CASE reg = "IFS"
  <2>1. /\ ifs = Applied(op, vIFS[current], v, OwnIn(w))
        /\ rIFS' = Applied(op, rIFS, u, pt) /\ rIEC' = Unmasked(ended, iec)
    BY <1>3 DEF Written
  <2>2. j \in rIEC' <=> IF j \in ended THEN j \in iec ELSE j \in rIEC
    BY <2>1 DEF Unmasked
  <2> HIDE DEF pt, u
  <2>3. QED
    BY <1>2, <1>3, <2>1, <2>2 DEF StoredBit
<1>4. CASE reg = "IEC"
  <2>1. /\ iec = Applied(op, vIEC[current], v, OwnIn(w))
        /\ rIEC' = Applied(op, rIEC, u, pt) /\ rIFS' = rIFS
    BY <1>4 DEF Written
  <2> HIDE DEF pt, u
  <2>2. QED
    BY <1>2, <1>4, <2>1 DEF StoredBit
<1>5. QED
  BY <1>3, <1>4

-----------------------------------------------------------------------------
(* The expired timer and the transmitter                                     *)

LEMMA NextNoLostTimer ==
  ASSUME TypeOK, NoLostTimer, [Next]_vars
  PROVE  NoLostTimer'
<1>1. CASE UNCHANGED Delivery
  BY <1>1 DEF Delivery, NoLostTimer
<1>2. ASSUME NEW i \in PassThrough, DeviceRaise(i) PROVE NoLostTimer'
  BY <1>2 DEF DeviceRaise, vmic, injection, gtimer, NoLostTimer
<1>3. ASSUME NEW g \in Guests, NEW i \in Irqs, RaiseStep(g, i) PROVE NoLostTimer'
  <2>1. /\ vIEC' = vIEC /\ (injected_irq[g] # NoIrq => injected_irq'[g] # NoIrq)
        /\ i \in vIEC[g] => injected_irq'[g] # NoIrq
        /\ \A h \in Guests \ {g} : injected_irq'[h] = injected_irq[h]
    BY <1>3, RaiseFacts DEF RaiseStep
  <2>2. CASE i = Timer
    <3>1. timer_active' = timer_active \ {g} /\ \A h \in Guests \ {g} : g_ti'[h] = g_ti[h]
      BY <1>3, <2>2 DEF RaiseStep, TypeOK
    <3>2. QED
      BY <2>1, <2>2, <3>1 DEF NoLostTimer
  <2>3. CASE i # Timer
    <3>1. UNCHANGED <<timer_active, g_ti>>
      BY <1>3, <2>3 DEF RaiseStep
    <3>2. ASSUME NEW h \in Guests, g_ti'[h], Timer \in vIEC'[h]
          PROVE  injected_irq'[h] # NoIrq \/ h \in timer_active'
      <4>1. injected_irq[h] # NoIrq \/ h \in timer_active
        BY <2>1, <3>1, <3>2 DEF NoLostTimer
      <4>2. QED
        BY <2>1, <3>1, <4>1
    <3>3. QED
      BY <3>2 DEF NoLostTimer
  <2>4. QED
    BY <2>2, <2>3
<1>4. ASSUME NEW g \in Guests, Restart(g) PROVE NoLostTimer'
  BY <1>4, RestartFacts DEF NoLostTimer
<1>5. ASSUME NEW reg \in {"IFS", "IEC"}, NEW op \in WriteOps, NEW w \in Words,
             NEW v \in SUBSET w, GuestWrite(reg, op, w, v)
      PROVE  NoLostTimer'
  <2>1. /\ current \in Guests /\ v \in SUBSET OwnIn(w) /\ w \in SUBSET Irqs
        /\ UNCHANGED <<g_ti, timer_active>>
    BY <1>5, GuestWriteFacts
  <2>2. PICK ended \in SUBSET OwnIn(w), ifs \in SUBSET Irqs, iec \in SUBSET Irqs,
             s \in InjStates, t \in InjStates : Written(reg, op, w, v, ended, ifs, iec, s, t)
    BY <1>5, GuestWriteFacts
  <2> DEFINE offered == Offered(current, w, vIFS'[current], iec)
             all == IF injected_irq[current] \in ended THEN Flagged(current, ifs) ELSE ifs
  <2>3. /\ injected_irq' = [injected_irq EXCEPT ![current] = injected_irq'[current]]
        /\ vIEC'[current] = iec
        /\ injected_irq'[current] = NoIrq =>
             /\ offered = {}
             /\ injected_irq[current] \in ended => all \cap iec = {}
             /\ injected_irq[current] \notin ended => injected_irq[current] = NoIrq
    <3>1. StoreInjects(w, ended, ifs, iec)
      BY <2>1, <2>2, WriteInjects
    <3>2. QED
      BY <3>1 DEF StoreInjects
  <2>4. ASSUME g_ti[current], Timer \in iec, injected_irq'[current] = NoIrq PROVE current \in timer_active
    <3>1. vIFS'[current] \in SUBSET Irqs
      <4>1. PICK all2 \in SUBSET Irqs : vIFS' = [vIFS EXCEPT ![current] = all2]
        BY <1>5, GuestWriteFacts
      <4>2. QED
        BY <2>1, <4>1 DEF TypeOK
    <3>2. Timer \notin w
      BY <2>1, <2>3, <2>4, <3>1, OfferedFacts
    <3>3. Timer \in vIEC[current]
      <4>1. Timer \in Irqs \ OwnIn(w)
        BY <3>2, Kinds DEF OwnIn
      <4>2. \A i \in Irqs \ OwnIn(w) : i \in iec <=> i \in vIEC[current]
        <5>1. StoredWords(reg, op, w, ended, ifs, iec)
          BY <2>1, <2>2, WrittenWords
        <5>2. QED
          BY <5>1 DEF StoredWords
      <4>3. QED
        BY <2>4, <4>1, <4>2
    <3>4. injected_irq[current] \notin ended
      BY <2>3, <2>4 DEF Flagged
    <3>5. QED
      BY <2>1, <2>3, <2>4, <3>3, <3>4 DEF NoLostTimer
  <2>5. \A h \in Guests \ {current} : injected_irq'[h] = injected_irq[h] /\ vIEC'[h] = vIEC[h]
    <3>1. vIEC' = [vIEC EXCEPT ![current] = iec]
      BY <2>2 DEF Written
    <3>2. QED
      BY <2>3, <3>1 DEF TypeOK
  <2> HIDE DEF offered, all
  <2>6. QED
    BY <2>1, <2>3, <2>4, <2>5 DEF NoLostTimer
<1>6. ASSUME NEW late \in BOOLEAN, GuestGHFC(late) \/ WriteCompare(late) \/ AccessCount(late)
      PROVE  NoLostTimer'
  <2>1. /\ current \in Guests /\ vIEC' = vIEC /\ timer_active \subseteq timer_active'
        /\ g_ti' = [g_ti EXCEPT ![current] = g_ti'[current]]
        /\ injected_irq' = [injected_irq EXCEPT ![current] = injected_irq'[current]]
        /\ injected_irq'[current] = NoIrq /\ g_ti'[current] /\ Timer \in vIEC[current]
             => current \in timer_active'
    BY <1>6, TimerAccessFacts
  <2>2. \A h \in Guests \ {current} : injected_irq'[h] = injected_irq[h] /\ g_ti'[h] = g_ti[h]
    BY <2>1 DEF TypeOK
  <2>3. QED
    BY <2>1, <2>2 DEF NoLostTimer
<1>7. CASE CountMeetsCompare
  <2>1. /\ current \in timer_active /\ UNCHANGED <<vIEC, injected_irq, timer_active>>
        /\ \A h \in Guests \ {current} : g_ti'[h] = g_ti[h]
    BY <1>7 DEF CountMeetsCompare, TypeOK, vmic, injection
  <2>2. QED
    BY <2>1 DEF NoLostTimer
<1>8. CASE ConsoleWrite(FALSE)
  BY <1>8 DEF ConsoleWrite, NoLostTimer, vmic, injection, gtimer
<1>9. QED
  BY <1>1, <1>2, <1>3, <1>4, <1>5, <1>6, <1>7, <1>8, StepKinds

(* An expired guest timer whose IRQ is enabled is injected behind something  *)
(* that is, or will be raised by root's timer queue (timer_ic, GHFC, MTC0).  *)
THEOREM TimerIsNeverLost == Spec => []NoLostTimer
<1>1. Init => NoLostTimer
  BY DEF Init, NoLostTimer
<1>2. TypeOK /\ NoLostTimer /\ [Next]_vars => NoLostTimer'
  BY NextNoLostTimer
<1>3. QED
  BY <1>1, <1>2, TypeCorrect, PTL DEF Spec

LEMMA NextTransmitterAsks ==
  ASSUME TypeOK, TransmitterAsks, [Next]_vars
  PROVE  TransmitterAsks'
<1>1. CASE UNCHANGED Delivery
  BY <1>1 DEF Delivery, TransmitterAsks
<1>2. ASSUME NEW i \in PassThrough, DeviceRaise(i) PROVE TransmitterAsks'
  BY <1>2 DEF DeviceRaise, vmic, injection, TransmitterAsks
<1>3. ASSUME NEW g \in Guests, NEW i \in Irqs, RaiseStep(g, i) PROVE TransmitterAsks'
  <2>1. /\ vIEC' = vIEC /\ (injected_irq[g] # NoIrq => injected_irq'[g] # NoIrq)
        /\ i \in vIEC[g] => injected_irq'[g] # NoIrq
        /\ \A h \in Guests \ {g} : injected_irq'[h] = injected_irq[h] /\ vIFS'[h] = vIFS[h]
        /\ vIFS'[g] = vIFS[g] \cup {i}
    BY <1>3, RaiseFacts DEF RaiseStep, TypeOK
  <2>2. /\ i = ConTx => tx_on' = tx_on \cup {g}
        /\ i # ConTx => tx_on' = tx_on
        /\ tx_on \subseteq Guests
    BY <1>3 DEF RaiseStep, TypeOK
  <2>3. ASSUME NEW h \in tx_on', ConTx \in vIEC'[h]
        PROVE  ConTx \in vIFS'[h] /\ injected_irq'[h] # NoIrq
    <3>1. CASE h \in tx_on
      BY <2>1, <2>2, <2>3, <3>1 DEF TransmitterAsks
    <3>2. CASE h \notin tx_on
      BY <2>1, <2>2, <2>3, <3>2
    <3>3. QED
      BY <3>1, <3>2
  <2>4. QED
    BY <2>3 DEF TransmitterAsks
<1>4. ASSUME NEW g \in Guests, Restart(g) PROVE TransmitterAsks'
  BY <1>4, RestartFacts DEF TransmitterAsks, TypeOK
<1>5. ASSUME NEW reg \in {"IFS", "IEC"}, NEW op \in WriteOps, NEW w \in Words,
             NEW v \in SUBSET w, GuestWrite(reg, op, w, v)
      PROVE  TransmitterAsks'
  <2>1. /\ current \in Guests /\ v \in SUBSET OwnIn(w) /\ w \in SUBSET Irqs /\ tx_on' = tx_on
    BY <1>5, GuestWriteFacts
  <2>2. PICK ended \in SUBSET OwnIn(w), ifs \in SUBSET Irqs, iec \in SUBSET Irqs,
             s \in InjStates, t \in InjStates : Written(reg, op, w, v, ended, ifs, iec, s, t)
    BY <1>5, GuestWriteFacts
  <2> DEFINE offered == Offered(current, w, vIFS'[current], iec)
             all == IF injected_irq[current] \in ended THEN Flagged(current, ifs) ELSE ifs
  <2>3. /\ injected_irq' = [injected_irq EXCEPT ![current] = injected_irq'[current]]
        /\ vIEC'[current] = iec
        /\ injected_irq'[current] = NoIrq =>
             /\ offered = {}
             /\ injected_irq[current] \in ended => all \cap iec = {}
             /\ injected_irq[current] \notin ended => injected_irq[current] = NoIrq
    <3>1. StoreInjects(w, ended, ifs, iec)
      BY <2>1, <2>2, WriteInjects
    <3>2. QED
      BY <3>1 DEF StoreInjects
  <2>4. ASSUME current \in tx_on, ConTx \in iec
        PROVE  ConTx \in vIFS'[current] /\ injected_irq'[current] # NoIrq
    <3>1. vIFS'[current] \in SUBSET Irqs
      <4>1. PICK all2 \in SUBSET Irqs : vIFS' = [vIFS EXCEPT ![current] = all2]
        BY <1>5, GuestWriteFacts
      <4>2. QED
        BY <2>1, <4>1 DEF TypeOK
    <3>2. CASE w \cap {ConRx, ConTx} # {}
      <4>1. ConTx \in offered
        BY <2>1, <2>4, <3>1, <3>2, OfferedFacts
      <4>2. ConTx \in vIFS'[current]
        BY <2>2, <2>4, <3>2 DEF Written
      <4>3. QED
        BY <2>3, <4>1, <4>2
    <3>3. CASE w \cap {ConRx, ConTx} = {}
      <4>1. ConTx \in Irqs \ OwnIn(w)
        BY <3>3, Kinds DEF OwnIn
      <4>2. ConTx \in vIEC[current] /\ (ConTx \in vIFS[current] => ConTx \in ifs) /\ ifs \subseteq vIFS'[current]
        <5>1. StoredWords(reg, op, w, ended, ifs, iec)
          BY <2>1, <2>2, WrittenWords
        <5>2. QED
          BY <5>1, <2>4, <4>1 DEF StoredWords
      <4>3. ConTx \in ifs /\ injected_irq[current] # NoIrq
        BY <2>4, <4>2 DEF TransmitterAsks
      <4>4. ConTx \in all
        BY <4>3 DEF Flagged
      <4>5. QED
        BY <2>3, <2>4, <4>2, <4>3, <4>4
    <3>4. QED
      BY <3>2, <3>3
  <2>5. \A h \in Guests \ {current} : /\ injected_irq'[h] = injected_irq[h] /\ vIEC'[h] = vIEC[h]
                                /\ vIFS'[h] = vIFS[h]
    <3>1. vIEC' = [vIEC EXCEPT ![current] = iec]
      BY <2>2 DEF Written
    <3>2. PICK all2 \in SUBSET Irqs : vIFS' = [vIFS EXCEPT ![current] = all2]
      BY <1>5, GuestWriteFacts
    <3>3. QED
      BY <2>3, <3>1, <3>2 DEF TypeOK
  <2> HIDE DEF offered, all
  <2>6. QED
    BY <2>1, <2>3, <2>4, <2>5 DEF TransmitterAsks, TypeOK
<1>6. ASSUME NEW late \in BOOLEAN, GuestGHFC(late) \/ WriteCompare(late) \/ AccessCount(late)
      PROVE  TransmitterAsks'
  <2>1. /\ current \in Guests /\ UNCHANGED <<vIEC, tx_on>>
        /\ vIFS' = [vIFS EXCEPT ![current] = vIFS'[current]]
        /\ vIFS[current] \ {Timer} \subseteq vIFS'[current]
        /\ injected_irq' = [injected_irq EXCEPT ![current] = injected_irq'[current]]
        /\ injected_irq'[current] = NoIrq /\ injected_irq[current] # NoIrq
             => vIFS'[current] \cap vIEC[current] = {}
    BY <1>6, TimerAccessFacts
  <2>2. \A h \in Guests \ {current} : injected_irq'[h] = injected_irq[h] /\ vIFS'[h] = vIFS[h]
    BY <2>1 DEF TypeOK
  <2>3. QED
    BY <2>1, <2>2, Kinds DEF TransmitterAsks, TypeOK
<1>7. CASE CountMeetsCompare
  BY <1>7 DEF CountMeetsCompare, TransmitterAsks, vmic, injection
<1>8. CASE ConsoleWrite(FALSE)
  BY <1>8 DEF ConsoleWrite, TransmitterAsks, vmic, injection
<1>9. QED
  BY <1>1, <1>2, <1>3, <1>4, <1>5, <1>6, <1>7, <1>8, StepKinds

(* While a guest keeps the emulated transmitter on and its IRQ enabled, that *)
(* IRQ is flagged and the guest has something injected (console_ic).         *)
THEOREM TransmitterAlwaysAsks == Spec => []TransmitterAsks
<1>1. Init => TransmitterAsks
  BY DEF Init, TransmitterAsks
<1>2. TypeOK /\ TransmitterAsks /\ [Next]_vars => TransmitterAsks'
  BY NextTransmitterAsks
<1>3. QED
  BY <1>1, <1>2, TypeCorrect, PTL DEF Spec

-----------------------------------------------------------------------------
(* Sleeping guests                                                           *)

CurrentRuns == current \in Guests => current \in running

Wakeful == CurrentRuns /\ SleeperHasNothing

LEMMA NextWakeful ==
  ASSUME TypeOK, Wakeful, [Next]_vars
  PROVE  Wakeful'
<1>1. ASSUME NEW g \in Guests, NEW i \in Irqs, RaiseVirtual(g, i) PROVE Wakeful'
  <2>1. /\ current' \in {current, g} /\ (current' # current => g \in running')
        /\ running \subseteq running' /\ stopped' = stopped
        /\ \A h \in Guests \ {g} : injected_irq'[h] = injected_irq[h]
        /\ injected_irq'[g] # NoIrq => g \in running' \/ injected_irq[g] # NoIrq
    BY <1>1, RaiseFacts
  <2>2. CurrentRuns'
    BY <2>1 DEF Wakeful, CurrentRuns
  <2>3. ASSUME NEW h \in Guests, h \notin running' \cup stopped' \cup {current'}
        PROVE  injected_irq'[h] = NoIrq
    <3>1. h # current
      BY <2>1, <2>3 DEF Wakeful, CurrentRuns
    <3>2. injected_irq[h] = NoIrq
      BY <2>1, <2>3, <3>1 DEF Wakeful, SleeperHasNothing
    <3>3. QED
      BY <2>1, <2>3, <3>2
  <2>4. QED
    BY <2>2, <2>3 DEF Wakeful, SleeperHasNothing
<1>2. ASSUME NEW r \in SUBSET Guests, RescheduleWith(r),
             UNCHANGED <<stopped, injected_irq, interrupted_irq>>,
             \/ r = running
             \/ r = running \ {current} /\ injected_irq[current] = NoIrq
      PROVE  Wakeful'
  <2>1. running' = r /\ (current' \in Guests => current' \in r)
    BY <1>2, RescheduleKeeps DEF RescheduleWith
  <2>2. QED
    BY <1>2, <2>1 DEF Wakeful, CurrentRuns, SleeperHasNothing
<1>3. ASSUME current \in Guests, UNCHANGED <<current, running, stopped>>,
             \A g \in Guests \ {current} : injected_irq'[g] = injected_irq[g]
      PROVE  Wakeful'
  BY <1>3 DEF Wakeful, CurrentRuns, SleeperHasNothing
<1>4. ASSUME UNCHANGED <<current, running, stopped, injected_irq>> PROVE Wakeful'
  BY <1>4 DEF Wakeful, CurrentRuns, SleeperHasNothing
<1>5. ASSUME NEW i \in PassThrough, DeviceRaise(i) \/ ExecuteIRQ(i) PROVE Wakeful'
  <2>1. CASE DeviceRaise(i)
    BY <1>4, <2>1 DEF DeviceRaise, flags, injection
  <2>2. CASE ExecuteIRQ(i)
    BY <1>1, <2>2, IrqsAssumption DEF ExecuteIRQ, Irqs
  <2>3. QED
    BY <1>5, <2>1, <2>2
<1>6. ASSUME NEW g \in Guests, ConsoleRx(g) \/ TimeIrq(g) PROVE Wakeful'
  BY <1>1, <1>6 DEF ConsoleRx, TimeIrq, Irqs, Emulated
<1>7. CASE Reschedule
  BY <1>2, <1>7 DEF Reschedule, TypeOK
<1>8. CASE RootInput
  BY <1>8, Distinct DEF RootInput, SwitchTo, flags, Wakeful, CurrentRuns, SleeperHasNothing
<1>9. CASE GuestWait
  BY <1>2, <1>9 DEF GuestWait, TypeOK
<1>10. ASSUME NEW g \in Guests, Stop(g) \/ Continue(g) PROVE Wakeful'
  <2>1. CASE Stop(g)
    BY <2>1, Distinct DEF Stop, injection, Wakeful, CurrentRuns, SleeperHasNothing
  <2>2. CASE Continue(g)
    BY <2>2, Distinct DEF Continue, injection, Wakeful, CurrentRuns, SleeperHasNothing
  <2>3. QED
    BY <1>10, <2>1, <2>2
<1>11. ASSUME NEW g \in Guests, Restart(g) PROVE Wakeful'
  <2>1. /\ injected_irq'[g] = NoIrq
        /\ \A h \in Guests \ {g} : injected_irq'[h] = injected_irq[h]
    BY <1>11, RestartFacts
  <2>2. /\ current = Root /\ current' = current
        /\ running \subseteq running' /\ stopped \ {g} \subseteq stopped'
    BY <1>11 DEF Restart
  <2>3. QED
    BY <2>1, <2>2, Distinct DEF Wakeful, CurrentRuns, SleeperHasNothing
<1>12. ASSUME NEW reg \in {"IFS", "IEC"}, NEW op \in WriteOps, NEW w \in Words,
              NEW v \in SUBSET w, GuestWrite(reg, op, w, v)
       PROVE  Wakeful'
  <2>1. current \in Guests /\ UNCHANGED <<current, running, stopped>>
    BY <1>12, GuestWriteFacts
  <2>2. PICK ended \in SUBSET OwnIn(w), ifs \in SUBSET Irqs, iec \in SUBSET Irqs,
             s \in InjStates, t \in InjStates : Written(reg, op, w, v, ended, ifs, iec, s, t)
    BY <1>12, GuestWriteFacts
  <2>3. \A g \in Guests \ {current} : injected_irq'[g] = injected_irq[g]
    BY <2>1, <2>2 DEF Written, SetCurrent, TypeOK
  <2>4. QED
    BY <1>3, <2>1, <2>3
<1>13. ASSUME NEW late \in BOOLEAN, GuestGHFC(late) \/ WriteCompare(late) \/ AccessCount(late)
       PROVE  Wakeful'
  <2>1. /\ current \in Guests /\ UNCHANGED <<current, running, stopped>>
        /\ injected_irq' = [injected_irq EXCEPT ![current] = injected_irq'[current]]
    BY <1>13, TimerAccessFacts
  <2>2. \A g \in Guests \ {current} : injected_irq'[g] = injected_irq[g]
    BY <2>1 DEF TypeOK
  <2>3. QED
    BY <1>3, <2>1, <2>2
<1>14. ASSUME NEW on \in BOOLEAN, ConsoleWrite(on) PROVE Wakeful'
  <2>1. CASE on
    BY <1>1, <1>14, <2>1 DEF ConsoleWrite, GuestRuns, Irqs, Emulated
  <2>2. CASE ~on
    BY <1>4, <1>14, <2>2 DEF ConsoleWrite, flags, injection
  <2>3. QED
    BY <2>1, <2>2
<1>15. ASSUME NEW l, GuestOpen(l) \/ GuestSetIpl(l) PROVE Wakeful'
  BY <1>4, <1>15 DEF GuestOpen, GuestSetIpl, flags, injection
<1>16. CASE GuestTake \/ CountMeetsCompare \/ UNCHANGED vars
  BY <1>4, <1>16 DEF GuestTake, CountMeetsCompare, vars, flags, injection
<1>17. QED
  BY <1>5, <1>6, <1>7, <1>8, <1>9, <1>10, <1>11, <1>12, <1>13, <1>14, <1>15, <1>16
     DEF Next, RootStep, GuestStep

(* A guest that is neither RUNNING nor stopped has nothing injected: every   *)
(* injection wakes its guest, and WAIT gives up the CPU only with none.      *)
THEOREM SleepersHaveNothing == Spec => []SleeperHasNothing
<1>1. Init => Wakeful
  BY Distinct DEF Init, Wakeful, CurrentRuns, SleeperHasNothing
<1>2. TypeOK /\ Wakeful /\ [Next]_vars => Wakeful'
  BY NextWakeful
<1>3. Wakeful => SleeperHasNothing
  BY DEF Wakeful
<1>4. QED
  BY <1>1, <1>2, <1>3, TypeCorrect, PTL DEF Spec

-----------------------------------------------------------------------------
(* Guests that never use the INV registers.  emulate_write_ic computes the   *)
(* IRQs such a store ends from the bits written, not from the bits cleared:  *)
(* run `inverted' shows what it leaves behind.                               *)
NeverInverts == "INV" \notin WriteOps

LEMMA NextInjectedIsPending ==
  ASSUME NeverInverts, TypeOK, InjectedIsPending, [Next]_vars
  PROVE  InjectedIsPending'
<1> DEFINE Ok(g) == injected_irq[g] # NoIrq =>
                      /\ injected_irq[g] \in vIEC[g]
                      /\ injected_irq[g] \in Flagged(g, vIFS[g])
<1>a. ASSUME UNCHANGED <<injected_irq, vIEC, vIFS, g_ti>> PROVE InjectedIsPending'
  BY <1>a DEF InjectedIsPending, Flagged
<1>b. ASSUME current \in Guests, UNCHANGED current, Ok(current)',
             \A g \in Guests \ {current} :
               /\ injected_irq'[g] = injected_irq[g] /\ vIEC'[g] = vIEC[g]
               /\ vIFS'[g] = vIFS[g] /\ g_ti'[g] = g_ti[g]
      PROVE  InjectedIsPending'
  <2>1. ASSUME NEW g \in Guests PROVE Ok(g)'
    <3>1. CASE g = current
      BY <1>b, <3>1 DEF Flagged
    <3>2. CASE g # current
      BY <1>b, <3>2 DEF InjectedIsPending, Flagged
    <3>3. QED
      BY <3>1, <3>2
  <2>2. QED
    BY <2>1 DEF InjectedIsPending
<1>1. CASE UNCHANGED Delivery
  BY <1>1, <1>a DEF Delivery
<1>2. ASSUME NEW i \in PassThrough, DeviceRaise(i) PROVE InjectedIsPending'
  BY <1>2, <1>a DEF DeviceRaise, vmic, injection, gtimer
<1>3. ASSUME NEW g \in Guests, NEW i \in Irqs, RaiseStep(g, i) PROVE InjectedIsPending'
  <2>1. /\ vIEC' = vIEC /\ injected_irq'[g] \in {i, injected_irq[g]}
        /\ injected_irq'[g] # injected_irq[g] => i \in vIEC[g]
        /\ \A h \in Guests \ {g} : injected_irq'[h] = injected_irq[h] /\ vIFS'[h] = vIFS[h]
        /\ vIFS'[g] = vIFS[g] \cup {i}
    BY <1>3, RaiseFacts DEF RaiseStep, TypeOK
  <2>2. \A h \in Guests : g_ti[h] => g_ti'[h]
    BY <1>3 DEF RaiseStep, TypeOK
  <2>3. ASSUME NEW h \in Guests, injected_irq'[h] # NoIrq
        PROVE  injected_irq'[h] \in vIEC'[h] /\ injected_irq'[h] \in Flagged(h, vIFS[h])'
    <3>1. CASE injected_irq'[h] = injected_irq[h]
      <4>1. injected_irq[h] \in vIEC[h] /\ injected_irq[h] \in Flagged(h, vIFS[h])
        BY <2>3, <3>1 DEF InjectedIsPending
      <4>2. QED
        BY <2>1, <2>2, <3>1, <4>1 DEF Flagged
    <3>2. CASE injected_irq'[h] # injected_irq[h]
      BY <2>1, <3>2 DEF Flagged
    <3>3. QED
      BY <3>1, <3>2
  <2>4. QED
    BY <2>3 DEF InjectedIsPending
<1>4. ASSUME NEW g \in Guests, Restart(g) PROVE InjectedIsPending'
  BY <1>4, RestartFacts DEF InjectedIsPending, Flagged
<1>5. ASSUME NEW reg \in {"IFS", "IEC"}, NEW op \in WriteOps, NEW w \in Words,
             NEW v \in SUBSET w, GuestWrite(reg, op, w, v)
      PROVE  InjectedIsPending'
  <2>1. /\ current \in Guests /\ v \in SUBSET OwnIn(w) /\ w \in SUBSET Irqs
        /\ UNCHANGED <<current, g_ti>>
    BY <1>5, GuestWriteFacts
  <2>2. PICK ended \in SUBSET OwnIn(w), ifs \in SUBSET Irqs, iec \in SUBSET Irqs,
             s \in InjStates, t \in InjStates : Written(reg, op, w, v, ended, ifs, iec, s, t)
    BY <1>5, GuestWriteFacts
  <2>3. PICK after \in SUBSET Irqs : vIFS' = [vIFS EXCEPT ![current] = after]
    BY <1>5, GuestWriteFacts
  <2>4. vIFS'[current] = after
    BY <2>1, <2>3 DEF TypeOK
  <2> DEFINE offered == Offered(current, w, vIFS'[current], iec)
             was     == injected_irq[current]
             is      == injected_irq'[current]
             all     == IF was \in ended THEN Flagged(current, ifs) ELSE ifs
  <2>5. /\ injected_irq' = [injected_irq EXCEPT ![current] = is]
        /\ vIEC'[current] = iec
        /\ is # NoIrq => \/ is \in offered
                         \/ was \in ended /\ is \in all \cap iec
                         \/ was \notin ended /\ is = was
    <3>1. StoreInjects(w, ended, ifs, iec)
      BY <2>1, <2>2, WriteInjects
    <3>2. QED
      BY <3>1 DEF StoreInjects
  <2>6. vIEC' = [vIEC EXCEPT ![current] = iec] /\ all \subseteq after
        /\ (current \in tx_on /\ w \cap {ConRx, ConTx} # {} => ConTx \in after)
    BY <2>2, <2>4 DEF Written
  <2>7. \A i \in offered : i \in iec /\ (i \in after \/ (i = Timer /\ g_ti[current]))
    <3>1. \A i \in Offered(current, w, after, iec) :
            i \in iec /\ (i \in after \/ (i = Timer /\ g_ti[current]))
      BY <2>1, <2>6, OfferedFacts
    <3>2. QED
      BY <2>4, <3>1
  <2>8. /\ op # "INV" /\ ifs \subseteq after
        /\ op # "INV" => vIFS[current] \ ended \subseteq ifs /\ vIEC[current] \ ended \subseteq iec
    <3>1. StoredWords(reg, op, w, ended, ifs, iec)
      BY <2>1, <2>2, WrittenWords
    <3>2. QED
      BY <3>1, <2>4 DEF StoredWords, NeverInverts
  <2>9. was # NoIrq => was \in vIEC[current] /\ was \in Flagged(current, vIFS[current])
    BY <2>1 DEF InjectedIsPending
  <2>10. g_ti'[current] = g_ti[current]
    BY <2>1
  <2> HIDE DEF offered, was, is, all
  <2>11. is # NoIrq => is \in iec /\ (is \in after \/ (is = Timer /\ g_ti[current]))
    BY <2>5, <2>6, <2>7, <2>8, <2>9 DEF Flagged
  <2>12. Ok(current)'
    BY <2>1, <2>4, <2>5, <2>11 DEF is, Flagged
  <2>13. QED
    BY <1>b, <2>1, <2>3, <2>5, <2>6, <2>12 DEF TypeOK
<1>6. ASSUME NEW late \in BOOLEAN, GuestGHFC(late) \/ WriteCompare(late) \/ AccessCount(late)
      PROVE  InjectedIsPending'
  <2> DEFINE ifs == vIFS'[current]
             was == injected_irq[current]
             is  == injected_irq'[current]
             ti  == g_ti'[current]
  <2>1. /\ current \in Guests /\ UNCHANGED <<current, vIEC>>
        /\ vIFS' = [vIFS EXCEPT ![current] = ifs]
        /\ vIFS[current] \ {Timer} \subseteq ifs
        /\ g_ti' = [g_ti EXCEPT ![current] = ti]
        /\ injected_irq' = [injected_irq EXCEPT ![current] = is]
        /\ is # NoIrq => \/ is \in vIEC[current] /\ (is \in ifs \/ (is = Timer /\ ti))
                         \/ is = was /\ is # Timer
                         \/ is = was /\ (Timer \in vIFS[current] => Timer \in ifs)
                            /\ (g_ti[current] => ti)
    BY <1>6, TimerAccessFacts
  <2>2. was # NoIrq => was \in vIEC[current] /\ was \in Flagged(current, vIFS[current])
    BY <2>1 DEF InjectedIsPending
  <2> HIDE DEF is, was, ifs, ti
  <2>3. is # NoIrq => is \in vIEC[current] /\ (is \in ifs \/ (is = Timer /\ ti))
    BY <2>1, <2>2 DEF Flagged
  <2>4. Ok(current)'
    BY <2>1, <2>3 DEF is, ifs, ti, Flagged
  <2>5. QED
    BY <1>b, <2>1, <2>4 DEF TypeOK
<1>7. CASE CountMeetsCompare
  <2>1. /\ UNCHANGED <<vIFS, vIEC, injected_irq>> /\ \A g \in Guests : g_ti[g] => g_ti'[g]
    BY <1>7 DEF CountMeetsCompare, TypeOK, vmic, injection
  <2>2. QED
    BY <2>1 DEF InjectedIsPending, Flagged
<1>8. CASE ConsoleWrite(FALSE)
  BY <1>8, <1>a DEF ConsoleWrite, vmic, injection, gtimer
<1>9. QED
  BY <1>1, <1>2, <1>3, <1>4, <1>5, <1>6, <1>7, <1>8, StepKinds

(* What is injected into a guest is enabled there and flagged, or its timer  *)
(* that has expired: an acknowledged or disabled IRQ is taken back.          *)
THEOREM InjectedStaysPending ==
  ASSUME NeverInverts PROVE Spec => []InjectedIsPending
<1>1. Init => InjectedIsPending
  BY DEF Init, InjectedIsPending
<1>2. TypeOK /\ InjectedIsPending /\ [Next]_vars => InjectedIsPending'
  BY NextInjectedIsPending
<1>3. QED
  BY <1>1, <1>2, TypeCorrect, PTL DEF Spec

LEMMA NextNoStuckMask ==
  ASSUME NeverInverts, TypeOK, NoStuckMask, [Next]_vars
  PROVE  NoStuckMask'
<1>0. \A i \in PassThrough : Owner[i] \in Guests /\ i \in Irqs
  BY IrqsAssumption DEF Irqs
<1>a. ASSUME UNCHANGED <<vIEC, vIFS, rIEC>> PROVE NoStuckMask'
  BY <1>a DEF NoStuckMask
<1>1. CASE UNCHANGED Delivery
  BY <1>1, <1>a DEF Delivery
<1>2. ASSUME NEW i \in PassThrough, DeviceRaise(i) PROVE NoStuckMask'
  BY <1>2, <1>a DEF DeviceRaise, vmic
<1>3. ASSUME NEW g \in Guests, NEW i \in Irqs, RaiseStep(g, i) PROVE NoStuckMask'
  <2>1. /\ vIEC' = vIEC /\ vIFS'[g] = vIFS[g] \cup {i}
        /\ \A h \in Guests \ {g} : vIFS'[h] = vIFS[h]
    BY <1>3, RaiseFacts DEF RaiseStep, TypeOK
  <2>2. /\ i \in PassThrough => g = Owner[i] /\ rIEC' = rIEC \ {i}
        /\ i \notin PassThrough => rIEC' = rIEC
    BY <1>3 DEF RaiseStep
  <2>3. QED
    BY <1>0, <2>1, <2>2 DEF NoStuckMask
<1>4. ASSUME NEW g \in Guests, Restart(g) PROVE NoStuckMask'
  BY <1>0, <1>4, RestartFacts DEF NoStuckMask
<1>5. ASSUME NEW reg \in {"IFS", "IEC"}, NEW op \in WriteOps, NEW w \in Words,
             NEW v \in SUBSET w, GuestWrite(reg, op, w, v)
      PROVE  NoStuckMask'
  <2>1. /\ current \in Guests /\ v \in SUBSET OwnIn(w) /\ w \in SUBSET Irqs
    BY <1>5, GuestWriteFacts
  <2>2. PICK ended \in SUBSET OwnIn(w), ifs \in SUBSET Irqs, iec \in SUBSET Irqs,
             s \in InjStates, t \in InjStates : Written(reg, op, w, v, ended, ifs, iec, s, t)
    BY <1>5, GuestWriteFacts
  <2>3. PICK after \in SUBSET Irqs : vIFS' = [vIFS EXCEPT ![current] = after]
    BY <1>5, GuestWriteFacts
  <2>4. vIFS'[current] = after /\ vIEC'[current] = iec
        /\ \A h \in Guests \ {current} : vIFS'[h] = vIFS[h] /\ vIEC'[h] = vIEC[h]
    <3>1. vIEC' = [vIEC EXCEPT ![current] = iec]
      BY <2>2 DEF Written
    <3>2. QED
      BY <2>1, <2>3, <3>1 DEF TypeOK
  <2>5. /\ op # "INV" /\ ifs \subseteq after
        /\ op # "INV" => vIFS[current] \ ended \subseteq ifs /\ vIEC[current] \ ended \subseteq iec
        /\ \A i \in Irqs \ OwnIn(w) : /\ (i \in ifs) <=> (i \in vIFS[current])
                                      /\ (i \in iec) <=> (i \in vIEC[current])
        /\ reg = "IFS" => iec = vIEC[current]
        /\ reg = "IEC" => ifs = vIFS[current]
    <3>1. StoredWords(reg, op, w, ended, ifs, iec)
      BY <2>1, <2>2, WrittenWords
    <3>2. QED
      BY <3>1, <2>4 DEF StoredWords, NeverInverts
  <2>6. ASSUME NEW j \in PassThrough, j \in vIEC'[Owner[j]], j \notin rIEC'
        PROVE  j \in vIFS'[Owner[j]]
    <3>1. /\ j \notin OwnIn(w) => (j \in rIEC' <=> j \in rIEC)
          /\ reg = "IEC" /\ op # "INV" /\ j \in iec \ rIEC' => j \in vIEC[current] \ rIEC
          /\ reg = "IFS" => (j \in rIEC' <=> IF j \in ended THEN j \in iec ELSE j \in rIEC)
      <4>1. StoredBit(reg, op, w, ended, ifs, iec, j)
        BY <2>1, <2>2, WrittenBits
      <4>2. QED
        BY <4>1 DEF StoredBit
    <3>2. CASE Owner[j] # current
      <4>1. j \notin OwnIn(w)
        BY <3>2, IrqsAssumption DEF OwnIn
      <4>2. QED
        BY <1>0, <2>4, <2>6, <3>1, <3>2, <4>1 DEF NoStuckMask
    <3>3. CASE Owner[j] = current /\ j \notin OwnIn(w)
      BY <1>0, <2>4, <2>5, <2>6, <3>1, <3>3 DEF NoStuckMask
    <3>4. CASE Owner[j] = current /\ j \in OwnIn(w) /\ reg = "IFS"
      BY <1>0, <2>4, <2>5, <2>6, <3>1, <3>4 DEF NoStuckMask
    <3>5. CASE Owner[j] = current /\ j \in OwnIn(w) /\ reg = "IEC"
      BY <1>0, <2>4, <2>5, <2>6, <3>1, <3>5 DEF NoStuckMask
    <3>6. QED
      BY <3>2, <3>3, <3>4, <3>5
  <2>7. QED
    BY <2>6 DEF NoStuckMask
<1>6. ASSUME NEW late \in BOOLEAN, GuestGHFC(late) \/ WriteCompare(late) \/ AccessCount(late)
      PROVE  NoStuckMask'
  <2>1. /\ current \in Guests /\ UNCHANGED <<vIEC, rIEC>>
        /\ vIFS' = [vIFS EXCEPT ![current] = vIFS'[current]]
        /\ vIFS[current] \ {Timer} \subseteq vIFS'[current]
    BY <1>6, TimerAccessFacts
  <2>2. \A h \in Guests \ {current} : vIFS'[h] = vIFS[h]
    BY <2>1 DEF TypeOK
  <2>3. QED
    BY <1>0, <2>1, <2>2, Kinds DEF NoStuckMask
<1>7. CASE CountMeetsCompare \/ ConsoleWrite(FALSE)
  BY <1>7, <1>a DEF CountMeetsCompare, ConsoleWrite, vmic, real
<1>8. QED
  BY <1>1, <1>2, <1>3, <1>4, <1>5, <1>6, <1>7, StepKinds

(* A device IRQ its owner enabled is masked in the real controller only      *)
(* while the owner's flag is set (execute_IRQ, ic_end_irq): no device is     *)
(* silenced for ever.                                                        *)
THEOREM NoMaskIsStuck ==
  ASSUME NeverInverts PROVE Spec => []NoStuckMask
<1>1. Init => NoStuckMask
  BY IrqsAssumption DEF Init, NoStuckMask
<1>2. TypeOK /\ NoStuckMask /\ [Next]_vars => NoStuckMask'
  BY NextNoStuckMask
<1>3. QED
  BY <1>1, <1>2, TypeCorrect, PTL DEF Spec

-----------------------------------------------------------------------------
(* Nothing is lost when the IC write hooks can see all a guest flags by      *)
(* itself: they look at Cause.TI and not at the timer's flag, and a guest    *)
(* whose transmitter is on is offered the transmit IRQ only (console_ic),    *)
(* as run `transmit' shows.                                                  *)
HooksSeeAll ==
  /\ NeverInverts
  /\ ~TxUsed
  /\ Timer \notin SelfRaised /\ ConTx \notin SelfRaised

(* A device's flag in a virtual IFS is its owner's, and set in the real one. *)
FlagsAreReal ==
  \A g \in Guests : \A i \in PassThrough \cap vIFS[g] : Owner[i] = g /\ i \in rIFS

FlagsAreOffered ==
  /\ tx_on = {}
  /\ \A g \in Guests : ConTx \notin vIFS[g] /\ (Timer \in vIFS[g] => g_ti[g])

(* What a guest with nothing injected has pending, the real controller is    *)
(* about to ask for.                                                         *)
RootWillInject ==
  \A g \in Guests : injected_irq[g] = NoIrq => vIFS[g] \cap vIEC[g] \subseteq rIFS \cap rIEC

Accounted == NoStuckMask /\ FlagsAreReal /\ FlagsAreOffered /\ RootWillInject

LEMMA NextFlagsAreReal ==
  ASSUME NeverInverts, TypeOK, FlagsAreReal, [Next]_vars
  PROVE  FlagsAreReal'
<1>1. CASE UNCHANGED Delivery
  BY <1>1 DEF Delivery, FlagsAreReal
<1>2. ASSUME NEW i \in PassThrough, DeviceRaise(i) PROVE FlagsAreReal'
  BY <1>2 DEF DeviceRaise, vmic, FlagsAreReal
<1>3. ASSUME NEW g \in Guests, NEW i \in Irqs, RaiseStep(g, i) PROVE FlagsAreReal'
  <2>1. /\ vIFS'[g] = vIFS[g] \cup {i} /\ \A h \in Guests \ {g} : vIFS'[h] = vIFS[h]
        /\ i \in PassThrough => g = Owner[i] /\ i \in rIFS
        /\ rIFS' = rIFS
    BY <1>3, RaiseFacts DEF RaiseStep, TypeOK
  <2>2. QED
    BY <2>1 DEF FlagsAreReal
<1>4. ASSUME NEW g \in Guests, Restart(g) PROVE FlagsAreReal'
  BY <1>4, RestartFacts DEF FlagsAreReal
<1>5. ASSUME NEW reg \in {"IFS", "IEC"}, NEW op \in WriteOps, NEW w \in Words,
             NEW v \in SUBSET w, GuestWrite(reg, op, w, v)
      PROVE  FlagsAreReal'
  <2>1. current \in Guests /\ v \in SUBSET OwnIn(w)
    BY <1>5, GuestWriteFacts
  <2>2. PICK ended \in SUBSET OwnIn(w), ifs \in SUBSET Irqs, iec \in SUBSET Irqs,
             s \in InjStates, t \in InjStates : Written(reg, op, w, v, ended, ifs, iec, s, t)
    BY <1>5, GuestWriteFacts
  <2>3. PICK after \in SUBSET Irqs : vIFS' = [vIFS EXCEPT ![current] = after]
    BY <1>5, GuestWriteFacts
  <2>4. vIFS'[current] = after /\ \A h \in Guests \ {current} : vIFS'[h] = vIFS[h]
    BY <2>1, <2>3 DEF TypeOK
  <2>5. /\ op # "INV" /\ \A i \in after \ ifs : i = Timer \/ i = ConTx
        /\ \A i \in Irqs \ OwnIn(w) : i \in ifs <=> i \in vIFS[current]
        /\ reg = "IEC" => ifs = vIFS[current]
    <3>1. StoredWords(reg, op, w, ended, ifs, iec)
      BY <2>1, <2>2, WrittenWords
    <3>2. QED
      BY <3>1, <2>4 DEF StoredWords, NeverInverts
  <2>6. ASSUME NEW h \in Guests, NEW j \in PassThrough, j \in vIFS'[h]
        PROVE  Owner[j] = h /\ j \in rIFS'
    <3>1. /\ j \notin OwnIn(w) => (j \in rIFS' <=> j \in rIFS)
          /\ reg = "IFS" /\ op # "INV" /\ j \in ifs \ rIFS' => j \in vIFS[current] \ rIFS
          /\ reg = "IEC" => rIFS' = rIFS
      <4>1. StoredBit(reg, op, w, ended, ifs, iec, j)
        BY <2>1, <2>2, WrittenBits
      <4>2. QED
        BY <4>1 DEF StoredBit
    <3>0. j \in Irqs /\ j \notin Emulated /\ j # Timer /\ j # ConTx
      BY Kinds DEF Emulated
    <3>2. CASE h # current
      <4>1. Owner[j] = h /\ j \in rIFS /\ j \notin OwnIn(w)
        BY <2>4, <2>6, <3>0, <3>2 DEF FlagsAreReal, OwnIn
      <4>2. QED
        BY <3>1, <4>1
    <3>3. CASE h = current
      <4>1. j \in ifs
        BY <2>4, <2>5, <2>6, <3>0, <3>3
      <4>2. CASE j \notin OwnIn(w)
        BY <2>1, <2>5, <3>0, <3>1, <3>3, <4>1, <4>2 DEF FlagsAreReal
      <4>3. CASE j \in OwnIn(w)
        <5>1. Owner[j] = h
          BY <3>0, <3>3, <4>3 DEF OwnIn
        <5>2. j \in vIFS[current] => j \in rIFS
          BY <2>1 DEF FlagsAreReal
        <5>3. QED
          BY <2>5, <3>1, <4>1, <5>1, <5>2
      <4>4. QED
        BY <4>2, <4>3
    <3>4. QED
      BY <3>2, <3>3
  <2>7. QED
    BY <2>6 DEF FlagsAreReal
<1>6. ASSUME NEW late \in BOOLEAN, GuestGHFC(late) \/ WriteCompare(late) \/ AccessCount(late)
      PROVE  FlagsAreReal'
  <2>1. /\ current \in Guests /\ rIFS' = rIFS
        /\ vIFS' = [vIFS EXCEPT ![current] = vIFS'[current]]
        /\ vIFS'[current] \subseteq vIFS[current] \cup {Timer}
    BY <1>6, TimerAccessFacts
  <2>2. \A h \in Guests \ {current} : vIFS'[h] = vIFS[h]
    BY <2>1 DEF TypeOK
  <2>3. QED
    BY <2>1, <2>2, Kinds DEF FlagsAreReal
<1>7. CASE CountMeetsCompare \/ ConsoleWrite(FALSE)
  BY <1>7 DEF CountMeetsCompare, ConsoleWrite, vmic, real, FlagsAreReal
<1>8. QED
  BY <1>1, <1>2, <1>3, <1>4, <1>5, <1>6, <1>7, StepKinds

LEMMA NextFlagsAreOffered ==
  ASSUME HooksSeeAll, TypeOK, FlagsAreOffered, [Next]_vars
  PROVE  FlagsAreOffered'
<1>1. CASE UNCHANGED Delivery
  BY <1>1 DEF Delivery, FlagsAreOffered
<1>2. ASSUME NEW i \in PassThrough, DeviceRaise(i) PROVE FlagsAreOffered'
  BY <1>2 DEF DeviceRaise, vmic, gtimer, FlagsAreOffered
<1>3. ASSUME NEW g \in Guests, NEW i \in Irqs, RaiseStep(g, i) PROVE FlagsAreOffered'
  <2>1. vIFS'[g] = vIFS[g] \cup {i} /\ \A h \in Guests \ {g} : vIFS'[h] = vIFS[h]
    BY <1>3, RaiseFacts DEF RaiseStep, TypeOK
  <2>2. i # ConTx /\ tx_on' = tx_on /\ (i = Timer => g_ti'[g])
        /\ \A h \in Guests : g_ti[h] => g_ti'[h]
    BY <1>3 DEF RaiseStep, HooksSeeAll, TypeOK
  <2>3. QED
    BY <2>1, <2>2 DEF FlagsAreOffered
<1>4. ASSUME NEW g \in Guests, Restart(g) PROVE FlagsAreOffered'
  BY <1>4, RestartFacts DEF FlagsAreOffered
<1>5. ASSUME NEW reg \in {"IFS", "IEC"}, NEW op \in WriteOps, NEW w \in Words,
             NEW v \in SUBSET w, GuestWrite(reg, op, w, v)
      PROVE  FlagsAreOffered'
  <2>1. current \in Guests /\ v \in SUBSET OwnIn(w) /\ UNCHANGED <<g_ti, tx_on>>
    BY <1>5, GuestWriteFacts
  <2>2. PICK ended \in SUBSET OwnIn(w), ifs \in SUBSET Irqs, iec \in SUBSET Irqs,
             s \in InjStates, t \in InjStates : Written(reg, op, w, v, ended, ifs, iec, s, t)
    BY <1>5, GuestWriteFacts
  <2>3. PICK after \in SUBSET Irqs : vIFS' = [vIFS EXCEPT ![current] = after]
    BY <1>5, GuestWriteFacts
  <2>4. vIFS'[current] = after /\ \A h \in Guests \ {current} : vIFS'[h] = vIFS[h]
    BY <2>1, <2>3 DEF TypeOK
  <2>5. /\ \A i \in after \ ifs : (i = Timer /\ g_ti[current]) \/ (i = ConTx /\ current \in tx_on)
        /\ ifs \ vIFS[current] \subseteq SelfRaised
    <3>1. StoredWords(reg, op, w, ended, ifs, iec)
      BY <2>1, <2>2, WrittenWords
    <3>2. QED
      BY <3>1, <2>4 DEF StoredWords
  <2>6. ConTx \notin after /\ (Timer \in after => g_ti[current])
    BY <2>1, <2>5, Kinds DEF FlagsAreOffered, HooksSeeAll
  <2>7. QED
    BY <2>1, <2>4, <2>6 DEF FlagsAreOffered
<1>6. ASSUME NEW late \in BOOLEAN, GuestGHFC(late) \/ WriteCompare(late) \/ AccessCount(late)
      PROVE  FlagsAreOffered'
  <2> DEFINE ifs == vIFS'[current]
             ti  == g_ti'[current]
  <2>1. /\ current \in Guests /\ tx_on' = tx_on
        /\ vIFS' = [vIFS EXCEPT ![current] = ifs] /\ ifs \subseteq vIFS[current] \cup {Timer}
        /\ g_ti' = [g_ti EXCEPT ![current] = ti]
        /\ (Timer \in vIFS[current] => g_ti[current]) => (Timer \in ifs => ti)
    BY <1>6, TimerAccessFacts
  <2>2. ConTx \notin ifs /\ (Timer \in ifs => ti)
    BY <2>1, Kinds DEF FlagsAreOffered
  <2>3. \A h \in Guests \ {current} : vIFS'[h] = vIFS[h] /\ g_ti'[h] = g_ti[h]
    BY <2>1 DEF TypeOK
  <2>4. QED
    BY <2>1, <2>2, <2>3 DEF FlagsAreOffered
<1>7. CASE CountMeetsCompare
  <2>1. UNCHANGED <<vIFS, tx_on>> /\ \A g \in Guests : g_ti[g] => g_ti'[g]
    BY <1>7 DEF CountMeetsCompare, TypeOK, vmic
  <2>2. QED
    BY <2>1 DEF FlagsAreOffered
<1>8. CASE ConsoleWrite(FALSE)
  BY <1>8 DEF ConsoleWrite, vmic, gtimer, FlagsAreOffered
<1>9. QED
  BY <1>1, <1>2, <1>3, <1>4, <1>5, <1>6, <1>7, <1>8, StepKinds

LEMMA NextRootWillInject ==
  ASSUME HooksSeeAll, TypeOK, Accounted, [Next]_vars
  PROVE  RootWillInject'
<1>0. \A i \in PassThrough : Owner[i] \in Guests /\ i \in Irqs
  BY IrqsAssumption DEF Irqs
<1>1. CASE UNCHANGED Delivery
  BY <1>1 DEF Delivery, Accounted, RootWillInject
<1>2. ASSUME NEW i \in PassThrough, DeviceRaise(i) PROVE RootWillInject'
  BY <1>2 DEF DeviceRaise, vmic, injection, Accounted, RootWillInject
<1>3. ASSUME NEW g \in Guests, NEW i \in Irqs, RaiseStep(g, i) PROVE RootWillInject'
  <2>1. /\ vIEC' = vIEC /\ vIFS'[g] = vIFS[g] \cup {i}
        /\ injected_irq[g] # NoIrq => injected_irq'[g] # NoIrq
        /\ i \in vIEC[g] => injected_irq'[g] # NoIrq
        /\ \A h \in Guests \ {g} : vIFS'[h] = vIFS[h] /\ injected_irq'[h] = injected_irq[h]
    BY <1>3, RaiseFacts DEF RaiseStep, TypeOK
  <2>2. /\ rIFS' = rIFS
        /\ i \in PassThrough => g = Owner[i] /\ rIEC' = rIEC \ {i}
        /\ i \notin PassThrough => rIEC' = rIEC
        /\ rIFS \subseteq PassThrough
    BY <1>3 DEF RaiseStep, TypeOK
  <2>3. ASSUME NEW h \in Guests, injected_irq'[h] = NoIrq,
               NEW j \in vIFS'[h] \cap vIEC'[h]
        PROVE  j \in rIFS' \cap rIEC'
    <3>1. CASE h = g
      <4>1. j \in vIFS[g] \cap vIEC[g] /\ j # i /\ injected_irq[g] = NoIrq
        BY <2>1, <2>3, <3>1
      <4>2. j \in rIFS \cap rIEC
        BY <4>1 DEF Accounted, RootWillInject
      <4>3. QED
        BY <2>2, <4>1, <4>2
    <3>2. CASE h # g
      <4>1. j \in vIFS[h] \cap vIEC[h] /\ j \in rIFS \cap rIEC
        BY <2>1, <2>3, <3>2 DEF Accounted, RootWillInject
      <4>2. Owner[j] = h
        BY <2>2, <4>1 DEF Accounted, FlagsAreReal
      <4>3. QED
        BY <2>2, <3>2, <4>1, <4>2
    <3>3. QED
      BY <3>1, <3>2
  <2>4. QED
    BY <2>3 DEF RootWillInject
<1>4. ASSUME NEW g \in Guests, Restart(g) PROVE RootWillInject'
  BY <1>4, RestartFacts DEF Accounted, RootWillInject
<1>5. ASSUME NEW reg \in {"IFS", "IEC"}, NEW op \in WriteOps, NEW w \in Words,
             NEW v \in SUBSET w, GuestWrite(reg, op, w, v)
      PROVE  RootWillInject'
  <2>1. /\ current \in Guests /\ v \in SUBSET OwnIn(w) /\ w \in SUBSET Irqs
        /\ UNCHANGED <<g_ti, tx_on>>
    BY <1>5, GuestWriteFacts
  <2>2. PICK ended \in SUBSET OwnIn(w), ifs \in SUBSET Irqs, iec \in SUBSET Irqs,
             s \in InjStates, t \in InjStates : Written(reg, op, w, v, ended, ifs, iec, s, t)
    BY <1>5, GuestWriteFacts
  <2>3. PICK after \in SUBSET Irqs : vIFS' = [vIFS EXCEPT ![current] = after]
    BY <1>5, GuestWriteFacts
  <2>4. vIFS'[current] = after /\ current \notin tx_on
    BY <2>1, <2>3 DEF TypeOK, Accounted, FlagsAreOffered
  <2> DEFINE offered == Offered(current, w, vIFS'[current], iec)
             was     == injected_irq[current]
             is      == injected_irq'[current]
             all     == IF was \in ended THEN Flagged(current, ifs) ELSE ifs
  <2>5. /\ injected_irq' = [injected_irq EXCEPT ![current] = is]
        /\ vIEC'[current] = iec
        /\ is = NoIrq => /\ offered = {}
                         /\ was \in ended => all \cap iec = {}
                         /\ was \notin ended => was = NoIrq
    <3>1. StoreInjects(w, ended, ifs, iec)
      BY <2>1, <2>2, WriteInjects
    <3>2. QED
      BY <3>1 DEF StoreInjects
  <2>6. vIEC' = [vIEC EXCEPT ![current] = iec] /\ after = all
    BY <2>2, <2>4 DEF Written
  <2>7. /\ \A h \in Guests \ {current} : /\ vIFS'[h] = vIFS[h] /\ vIEC'[h] = vIEC[h]
                                         /\ injected_irq'[h] = injected_irq[h]
    BY <2>3, <2>5, <2>6 DEF TypeOK
  <2>8. /\ w \cap Soft \cap after \cap iec \subseteq offered
        /\ g_ti[current] /\ Timer \in w \cap iec => Timer \in offered
        /\ ConRx \in w \cap after \cap iec => ConRx \in offered
    BY <2>1, <2>4, OfferedFacts
  <2>9. /\ op # "INV"
        /\ vIFS[current] \ ended \subseteq ifs
        /\ ifs \ vIFS[current] \subseteq SelfRaised
        /\ \A i \in Irqs \ OwnIn(w) : /\ (i \in ifs) <=> (i \in vIFS[current])
                                      /\ (i \in iec) <=> (i \in vIEC[current])
        /\ reg = "IFS" => iec = vIEC[current]
        /\ reg = "IEC" => ifs = vIFS[current]
    <3>1. StoredWords(reg, op, w, ended, ifs, iec)
      BY <2>1, <2>2, WrittenWords
    <3>2. QED
      BY <3>1 DEF StoredWords, HooksSeeAll, NeverInverts
  <2> HIDE DEF offered, is
  <2>10. ASSUME is = NoIrq, NEW j \in after \cap iec
         PROVE  j \in rIFS' \cap rIEC'
    <3>1. was = NoIrq /\ was \notin ended /\ offered = {} /\ j \in ifs /\ after = ifs
      BY <2>5, <2>6, <2>10
    <3>2. vIFS[current] \cap vIEC[current] \subseteq rIFS \cap rIEC
      BY <2>1, <3>1 DEF Accounted, RootWillInject
    <3>3. j \in PassThrough =>
            /\ j \notin OwnIn(w) => /\ j \in rIFS' <=> j \in rIFS
                                    /\ j \in rIEC' <=> j \in rIEC
            /\ reg = "IFS" /\ j \in ifs \ rIFS' => j \in vIFS[current] \ rIFS
            /\ reg = "IEC" /\ j \in iec \ rIEC' => j \in vIEC[current] \ rIEC
            /\ reg = "IFS" => (j \in rIEC' <=> IF j \in ended THEN j \in iec ELSE j \in rIEC)
            /\ reg = "IEC" => rIFS' = rIFS
      <4>1. j \in PassThrough => StoredBit(reg, op, w, ended, ifs, iec, j)
        BY <2>1, <2>2, WrittenBits
      <4>2. QED
        BY <2>9, <4>1 DEF StoredBit
    <3>4. CASE j \notin OwnIn(w)
      <4>1. j \in vIFS[current] \cap vIEC[current]
        BY <2>9, <2>10, <3>1, <3>4
      <4>2. j \in rIFS \cap rIEC /\ rIFS \subseteq PassThrough
        BY <3>2, <4>1 DEF TypeOK
      <4>3. QED
        BY <3>3, <3>4, <4>2
    <3>5. CASE j \in OwnIn(w) /\ j \in PassThrough
      <4>1. Owner[j] = current
        BY <3>5, Kinds DEF OwnIn, Emulated
      <4>2. j \in vIFS[current] => j \in rIFS
        BY <2>1, <3>5 DEF Accounted, FlagsAreReal
      <4>3. j \in vIEC[current] \ rIEC => j \in vIFS[current]
        BY <3>5, <4>1 DEF Accounted, NoStuckMask
      <4>4. CASE reg = "IFS"
        BY <2>9, <2>10, <3>1, <3>2, <3>3, <3>5, <4>2, <4>3, <4>4
      <4>5. CASE reg = "IEC"
        BY <2>9, <2>10, <3>1, <3>2, <3>3, <3>5, <4>2, <4>3, <4>5
      <4>6. QED
        BY <4>4, <4>5
    <3>6. CASE j \in OwnIn(w) /\ j \notin PassThrough
      <4>1. j \in w /\ j \in Soft \cup {Timer, ConRx, ConTx}
        BY <2>1, <3>6, Kinds DEF OwnIn
      <4>2. j # ConTx /\ (j = Timer => g_ti[current])
        BY <2>1, <2>9, <3>1 DEF HooksSeeAll, Accounted, FlagsAreOffered
      <4>3. j \in offered
        BY <2>8, <2>10, <3>1, <4>1, <4>2
      <4>4. QED
        BY <3>1, <4>3
    <3>7. QED
      BY <3>4, <3>5, <3>6
  <2>11. ASSUME NEW h \in Guests \ {current}, injected_irq'[h] = NoIrq,
                NEW j \in vIFS'[h] \cap vIEC'[h]
         PROVE  j \in rIFS' \cap rIEC'
    <3>1. j \in vIFS[h] /\ j \in rIFS \cap rIEC /\ rIFS \subseteq PassThrough
      BY <2>7, <2>11 DEF Accounted, RootWillInject, TypeOK
    <3>2. Owner[j] = h
      BY <3>1 DEF Accounted, FlagsAreReal
    <3>3. j \notin OwnIn(w) /\ j \in PassThrough
      BY <3>1, <3>2, Kinds DEF OwnIn, Emulated
    <3>4. (j \in rIFS' <=> j \in rIFS) /\ (j \in rIEC' <=> j \in rIEC)
      <4>1. StoredBit(reg, op, w, ended, ifs, iec, j)
        BY <2>1, <2>2, <3>3, WrittenBits
      <4>2. QED
        BY <3>3, <4>1 DEF StoredBit
    <3>5. QED
      BY <3>1, <3>4
  <2> HIDE DEF all, was
  <2>12. ASSUME NEW h \in Guests, injected_irq'[h] = NoIrq
         PROVE  vIFS'[h] \cap vIEC'[h] \subseteq rIFS' \cap rIEC'
    <3>1. CASE h = current
      BY <2>4, <2>5, <2>10, <2>12, <3>1 DEF is
    <3>2. CASE h # current
      BY <2>11, <2>12, <3>2
    <3>3. QED
      BY <3>1, <3>2
  <2>13. QED
    BY <2>12 DEF RootWillInject
<1>6. ASSUME NEW late \in BOOLEAN, GuestGHFC(late) \/ WriteCompare(late) \/ AccessCount(late)
      PROVE  RootWillInject'
  <2>1. /\ current \in Guests /\ UNCHANGED <<vIEC, rIFS, rIEC>>
        /\ vIFS' = [vIFS EXCEPT ![current] = vIFS'[current]]
        /\ injected_irq' = [injected_irq EXCEPT ![current] = injected_irq'[current]]
        /\ injected_irq'[current] = NoIrq =>
             /\ injected_irq[current] # NoIrq => vIFS'[current] \cap vIEC[current] = {}
             /\ vIFS'[current] \cap vIEC[current] \subseteq vIFS[current]
    BY <1>6, TimerAccessFacts
  <2>2. \A h \in Guests \ {current} : vIFS'[h] = vIFS[h] /\ injected_irq'[h] = injected_irq[h]
    BY <2>1 DEF TypeOK
  <2>3. ASSUME NEW h \in Guests, injected_irq'[h] = NoIrq
        PROVE  vIFS'[h] \cap vIEC[h] \subseteq rIFS \cap rIEC
    <3>1. CASE h = current
      BY <2>1, <2>3, <3>1 DEF Accounted, RootWillInject
    <3>2. CASE h # current
      BY <2>2, <2>3, <3>2 DEF Accounted, RootWillInject
    <3>3. QED
      BY <3>1, <3>2
  <2>4. QED
    BY <2>1, <2>3 DEF RootWillInject
<1>7. CASE CountMeetsCompare \/ ConsoleWrite(FALSE)
  BY <1>7 DEF CountMeetsCompare, ConsoleWrite, vmic, real, injection, Accounted, RootWillInject
<1>8. QED
  BY <1>1, <1>2, <1>3, <1>4, <1>5, <1>6, <1>7, StepKinds

(* A guest with an IRQ flagged and enabled has one injected, or the real     *)
(* controller is about to interrupt root for one: neither masks, cancels,    *)
(* acknowledgements and hooks nor their order drop the last one.             *)
THEOREM NoInterruptIsLost ==
  ASSUME HooksSeeAll PROVE Spec => []NoLostInterrupt
<1>1. Init => Accounted
  BY IrqsAssumption DEF Init, Accounted, NoStuckMask, FlagsAreReal, FlagsAreOffered, RootWillInject
<1>2. TypeOK /\ Accounted /\ [Next]_vars => Accounted'
  BY NextNoStuckMask, NextFlagsAreReal, NextFlagsAreOffered, NextRootWillInject
     DEF Accounted, HooksSeeAll
<1>3. TypeOK /\ Accounted => NoLostInterrupt
  <2> SUFFICES ASSUME TypeOK, Accounted, NEW g \in Guests, vIFS[g] \cap vIEC[g] # {},
                      injected_irq[g] = NoIrq
               PROVE  RealPending(g)
    BY DEF NoLostInterrupt
  <2>1. PICK i \in vIFS[g] : i \in rIFS \cap rIEC /\ i \in PassThrough
    BY DEF Accounted, RootWillInject, TypeOK
  <2>2. Owner[i] = g
    BY <2>1 DEF Accounted, FlagsAreReal
  <2>3. QED
    BY <2>1, <2>2 DEF RealPending
<1>4. QED
  BY <1>1, <1>2, <1>3, TypeCorrect, PTL DEF Spec

=============================================================================
