------------------------ MODULE ConsoleInput_proofs ------------------------
(***************************************************************************)
(* The console's input rings implement bounded queues (ConsoleInput refines *)
(* InputQueues), for any number of VMs and any ring size.                   *)
(***************************************************************************)
EXTENDS ConsoleInput, SequenceTheorems, TLAPS

\* What the readers and the input keep to, for the rings to be queues: a reader
\* looks whether a character is there, and only the numbers of vm_list follow the
\* escape character.  The code ensures neither (console.c:85, 208).
Disciplined == Careless = {} /\ Number \in [Chars -> 0 .. MaxThread]

Inv == TypeOK /\ console_rx_vmid \in Vms

-----------------------------------------------------------------------------
LEMMA VmsAreNat == Vms \subseteq Nat /\ 0 \in Vms /\ 0 \in 0 .. Size - 1
  BY ConsoleAssumption

LEMMA InvInit == Init => Inv
<1>. SUFFICES ASSUME Init PROVE Inv
  OBVIOUS
<1>1. console_buffer \in [Vms -> [0 .. Size - 1 -> Chars \cup {NoChar}]]
  BY DEF Init
<1>2. /\ console_buffer_start \in [Vms -> 0 .. Size - 1]
      /\ console_buffer_end \in [Vms -> 0 .. Size - 1]
  BY VmsAreNat DEF Init
<1>3. console_rx_vmid \in Nat /\ console_rx_vmid \in Vms
  BY VmsAreNat DEF Init
<1>4. /\ rx_flag \subseteq Vms /\ got \in [Vms -> Chars \cup {NoChar}]
      /\ console_esc \in BOOLEAN /\ bell \in BOOLEAN
  BY DEF Init
<1>5. typed \in 0 .. 1
  BY DEF Init
<1>6. QED
  BY <1>1, <1>2, <1>3, <1>4, <1>5 DEF Inv, TypeOK

LEMMA AfterInRange == \A p \in 0 .. Size - 1 : After(p) \in 0 .. Size - 1
<1>. SUFFICES ASSUME NEW p \in 0 .. Size - 1 PROVE After(p) \in 0 .. Size - 1
  OBVIOUS
<1>1. Size \in Nat /\ Size > 1
  BY ConsoleAssumption
<1>2. QED
  BY <1>1 DEF After

\* The positions of a ring, in the form the arithmetic below needs.
LEMMA Ends ==
  ASSUME TypeOK, NEW v \in Vms
  PROVE  /\ console_buffer_start[v] \in 0 .. Size - 1
         /\ console_buffer_end[v] \in 0 .. Size - 1
         /\ console_buffer[v] \in [0 .. Size - 1 -> Chars \cup {NoChar}]
  BY DEF TypeOK

\* Whatever is typed and whoever reads.
LEMMA TypeNext == ASSUME TypeOK, [Next]_vars PROVE TypeOK'
<1>1. CASE TypeEsc
  BY <1>1 DEF TypeEsc, TypeOK
<1>2. ASSUME NEW c \in Chars, TypeNumber(c) PROVE TypeOK'
  <2>1. Number[c] \in Nat /\ console_rx_vmid \in Nat
    BY ConsoleAssumption DEF TypeOK
  <2>2. Selected(c) \subseteq {Number[c], console_rx_vmid}
    BY DEF Selected
  <2>3. console_rx_vmid' \in Nat /\ console_esc' \in BOOLEAN
    BY <1>2, <2>1, <2>2 DEF TypeNumber
  <2>4. QED
    BY <1>2, <2>3 DEF TypeNumber, TypeOK
<1>3. ASSUME NEW c \in Chars, Type(c) PROVE TypeOK'
  <2>. DEFINE v == console_rx_vmid
  <2>1. v \in Vms
    BY <1>3 DEF Type
  <2>2. /\ console_buffer' \in [Vms -> [0 .. Size - 1 -> Chars \cup {NoChar}]]
        /\ console_buffer_end' \in [Vms -> 0 .. Size - 1]
    <3>1. CASE Full(v)
      BY <1>3, <3>1 DEF Type, console_input_char, TypeOK
    <3>2. CASE ~Full(v)
      <4>1. After(console_buffer_end[v]) \in 0 .. Size - 1
        BY <2>1, Ends, AfterInRange
      <4>2. console_buffer_end' \in [Vms -> 0 .. Size - 1]
        BY <1>3, <3>2, <4>1 DEF Type, console_input_char, TypeOK
      <4>3. console_buffer' = [console_buffer EXCEPT
                                 ![v] = [console_buffer[v] EXCEPT ![console_buffer_end[v]] = c]]
        BY <1>3, <3>2, <2>1 DEF Type, console_input_char, TypeOK
      <4>4. [console_buffer[v] EXCEPT ![console_buffer_end[v]] = c]
              \in [0 .. Size - 1 -> Chars \cup {NoChar}]
        BY <2>1, Ends
      <4>5. console_buffer' \in [Vms -> [0 .. Size - 1 -> Chars \cup {NoChar}]]
        BY <4>3, <4>4 DEF TypeOK
      <4>6. QED
        BY <4>2, <4>5
    <3>3. QED
      BY <3>1, <3>2
  <2>3. rx_flag' \subseteq Vms /\ bell' \in BOOLEAN /\ typed' \in 0 .. 1
    BY <1>3, <2>1 DEF Type, console_input_char, Full, TypeOK
  <2>4. QED
    BY <1>3, <2>2, <2>3 DEF Type, TypeOK
<1>4. ASSUME NEW v \in Vms, ReadChar(v) PROVE TypeOK'
  <2>1. After(console_buffer_start[v]) \in 0 .. Size - 1
    BY Ends, AfterInRange
  <2>2. console_buffer_start' \in [Vms -> 0 .. Size - 1]
    BY <1>4, <2>1 DEF ReadChar, Read, TypeOK
  <2>3. console_buffer[v][console_buffer_start[v]] \in Chars \cup {NoChar}
    BY Ends
  <2>4. got' \in [Vms -> Chars \cup {NoChar}]
    BY <1>4, <2>3 DEF ReadChar, Read, TypeOK
  <2>5. QED
    BY <1>4, <2>2, <2>4 DEF ReadChar, Read, TypeOK
<1>5. ASSUME NEW v \in Vms, Acknowledge(v) PROVE TypeOK'
  BY <1>5 DEF Acknowledge, TypeOK
<1>6. CASE UNCHANGED vars
  BY <1>6 DEF vars, TypeOK
<1>7. QED
  BY <1>1, <1>2, <1>3, <1>4, <1>5, <1>6 DEF Next

\* Under the discipline the selected VM is one that exists.
LEMMA InvNext == ASSUME Disciplined, Inv, [Next]_vars PROVE Inv'
<1>1. TypeOK'
  BY TypeNext DEF Inv
<1>2. ASSUME NEW c \in Chars, TypeNumber(c) PROVE console_rx_vmid' \in Vms
  BY <1>2 DEF TypeNumber, Selected, Disciplined, Inv
<1>3. ASSUME NEW c \in Chars, Type(c) PROVE console_rx_vmid' \in Vms
  BY <1>3 DEF Type, Inv
<1>4. ASSUME NEW v \in Vms, ReadChar(v) \/ Acknowledge(v) PROVE console_rx_vmid' \in Vms
  BY <1>4 DEF ReadChar, Acknowledge, Inv
<1>5. ASSUME TypeEsc \/ UNCHANGED vars PROVE console_rx_vmid' \in Vms
  BY <1>5 DEF TypeEsc, vars, Inv
<1>6. console_rx_vmid' \in Vms
  BY <1>2, <1>3, <1>4, <1>5 DEF Next
<1>7. QED
  BY <1>1, <1>6 DEF Inv

-----------------------------------------------------------------------------
(* The ring of one VM as a sequence                                         *)

LEMMA DistanceRange ==
  ASSUME NEW s \in 0 .. Size - 1, NEW e \in 0 .. Size - 1
  PROVE  /\ Distance(s, e) \in 0 .. Size - 1
         /\ (Distance(s, e) = 0) <=> (s = e)
         /\ (Distance(s, e) = Size - 1) => (s = After(e))
<1>1. Size \in Nat /\ Size > 1
  BY ConsoleAssumption
<1>2. QED
  BY <1>1 DEF Distance, After

\* A ring whose writer is one place behind the reader holds all it can.
LEMMA FullDistance ==
  ASSUME NEW e \in 0 .. Size - 1
  PROVE  Distance(After(e), e) = Size - 1
<1>1. Size \in Nat /\ Size > 1
  BY ConsoleAssumption
<1>2. QED
  BY <1>1 DEF Distance, After

LEMMA PlaceRange ==
  ASSUME NEW s \in 0 .. Size - 1, NEW e \in 0 .. Size - 1, NEW i \in 1 .. Distance(s, e)
  PROVE  Place(s, i) \in 0 .. Size - 1 /\ Place(s, i) # e
<1>1. Size \in Nat /\ Size > 1
  BY ConsoleAssumption
<1>2. QED
  BY <1>1 DEF Distance, Place

\* The ring grows at its end ...
LEMMA DistanceGrows ==
  ASSUME NEW s \in 0 .. Size - 1, NEW e \in 0 .. Size - 1, s # After(e)
  PROVE  /\ Distance(s, After(e)) = Distance(s, e) + 1
         /\ Place(s, Distance(s, e) + 1) = e
<1>1. Size \in Nat /\ Size > 1
  BY ConsoleAssumption
<1>2. Distance(s, After(e)) = Distance(s, e) + 1
  BY <1>1 DEF Distance, After
<1>3. Place(s, Distance(s, e) + 1) = e
  BY <1>1 DEF Distance, Place
<1>4. QED
  BY <1>2, <1>3

\* ... and shrinks at its start.
LEMMA DistanceShrinks ==
  ASSUME NEW s \in 0 .. Size - 1, NEW e \in 0 .. Size - 1, s # e
  PROVE  /\ Distance(After(s), e) = Distance(s, e) - 1
         /\ Place(s, 1) = s
         /\ \A i \in 1 .. Distance(s, e) - 1 : Place(After(s), i) = Place(s, i + 1)
<1>1. Size \in Nat /\ Size > 1
  BY ConsoleAssumption
<1>2. Distance(After(s), e) = Distance(s, e) - 1
  BY <1>1 DEF Distance, After
<1>3. Place(s, 1) = s
  BY <1>1 DEF Place
<1>4. ASSUME NEW i \in 1 .. Distance(s, e) - 1 PROVE Place(After(s), i) = Place(s, i + 1)
  <2>1. i \in Int /\ 1 <= i /\ i < Size
    BY <1>1, <1>4, DistanceRange
  <2>2. CASE s + 1 >= Size
    BY <1>1, <2>1, <2>2 DEF After, Place
  <2>3. CASE s + 1 < Size
    BY <1>1, <2>1, <2>3 DEF After, Place
  <2>4. QED
    BY <1>1, <2>2, <2>3
<1>5. QED
  BY <1>2, <1>3, <1>4

LEMMA ContentInSeq ==
  ASSUME Inv, NEW v \in Vms
  PROVE  /\ Count(v) \in 0 .. Size - 1
         /\ Content(v) \in Seq(Chars \cup {NoChar})
         /\ Len(Content(v)) = Count(v)
         /\ \A i \in 1 .. Count(v) :
              Content(v)[i] = console_buffer[v][Place(console_buffer_start[v], i)]
<1>0. Count(v) \in 0 .. Size - 1
  BY Ends, DistanceRange DEF Count, Inv
<1>1. Count(v) \in 0 .. Size - 1 /\ Count(v) \in Nat
  BY <1>0, ConsoleAssumption
<1>2. \A i \in 1 .. Count(v) :
        console_buffer[v][Place(console_buffer_start[v], i)] \in Chars \cup {NoChar}
  BY Ends, PlaceRange DEF Count, Inv
<1>3. QED
  BY <1>1, <1>2 DEF Content

\* Dropping nothing: a VM whose ring is not touched keeps its queue.
LEMMA ContentKept ==
  ASSUME Inv, NEW v \in Vms,
         console_buffer'[v] = console_buffer[v],
         console_buffer_start'[v] = console_buffer_start[v],
         console_buffer_end'[v] = console_buffer_end[v]
  PROVE  Content(v)' = Content(v)
  BY DEF Content, Count

LEMMA AppendIs ==
  ASSUME NEW S, NEW q \in Seq(S), NEW c \in S
  PROVE  Append(q, c) = [i \in 1 .. Len(q) + 1 |-> IF i = Len(q) + 1 THEN c ELSE q[i]]
<1>. DEFINE a == Append(q, c)
<1>1. /\ a \in Seq(S) /\ Len(a) = Len(q) + 1 /\ a[Len(q) + 1] = c
      /\ \A i \in 1 .. Len(q) : a[i] = q[i]
  BY AppendProperties
<1>2. Len(q) \in Nat /\ a \in [1 .. Len(q) + 1 -> S]
  BY <1>1, LenProperties
<1>. HIDE DEF a
<1>3. \A i \in 1 .. Len(q) + 1 : a[i] = IF i = Len(q) + 1 THEN c ELSE q[i]
  BY <1>1, <1>2
<1>4. a = [i \in 1 .. Len(q) + 1 |-> IF i = Len(q) + 1 THEN c ELSE q[i]]
  BY <1>2, <1>3
<1>5. QED
  BY <1>4 DEF a

LEMMA TailIs ==
  ASSUME NEW S, NEW q \in Seq(S), q # <<>>
  PROVE  Tail(q) = [i \in 1 .. Len(q) - 1 |-> q[i + 1]]
<1>. DEFINE a == Tail(q)
<1>1. /\ a \in Seq(S) /\ Len(a) = Len(q) - 1
      /\ \A i \in 1 .. Len(a) : a[i] = q[i + 1]
  BY HeadTailProperties
<1>2. a \in [1 .. Len(q) - 1 -> S]
  BY <1>1, LenProperties
<1>. HIDE DEF a
<1>3. a = [i \in 1 .. Len(q) - 1 |-> q[i + 1]]
  BY <1>1, <1>2
<1>4. QED
  BY <1>3 DEF a

LEMMA ContentAppended ==
  ASSUME Inv, NEW c \in Chars, NEW v \in Vms, ~Full(v),
         console_buffer' = [console_buffer EXCEPT ![v][console_buffer_end[v]] = c],
         console_buffer_end' = [console_buffer_end EXCEPT ![v] = After(@)],
         UNCHANGED console_buffer_start
  PROVE  Content(v)' = Append(Content(v), c)
<1>. DEFINE s == console_buffer_start[v]
            e == console_buffer_end[v]
            b == console_buffer'[v]
            n == Count(v)
<1>1. /\ s \in 0 .. Size - 1 /\ e \in 0 .. Size - 1 /\ s # After(e)
      /\ console_buffer[v] \in [0 .. Size - 1 -> Chars \cup {NoChar}]
  BY Ends DEF Full, Inv
<1>2. n = Distance(s, e) /\ n \in Nat
  BY ContentInSeq, ConsoleAssumption DEF Count
<1>3. console_buffer_end'[v] = After(e) /\ b = [console_buffer[v] EXCEPT ![e] = c]
  BY DEF Inv, TypeOK
<1>4. Content(v)' = [i \in 1 .. Distance(s, After(e)) |-> b[Place(s, i)]]
  BY <1>3 DEF Content, Count
<1>5. /\ Content(v) \in Seq(Chars \cup {NoChar}) /\ Len(Content(v)) = n
      /\ \A i \in 1 .. n : Content(v)[i] = console_buffer[v][Place(s, i)]
  BY ContentInSeq
<1>. HIDE DEF s, e, b, n
<1>6. Content(v)' = [i \in 1 .. n + 1 |-> b[Place(s, i)]]
  BY <1>1, <1>2, <1>4, DistanceGrows
<1>7. b[Place(s, n + 1)] = c
  BY <1>1, <1>2, <1>3, DistanceGrows
<1>8. \A i \in 1 .. n : b[Place(s, i)] = Content(v)[i]
  BY <1>1, <1>2, <1>3, <1>5, PlaceRange
<1>9. \A i \in 1 .. n + 1 : b[Place(s, i)] = IF i = n + 1 THEN c ELSE Content(v)[i]
  BY <1>2, <1>7, <1>8
<1>10. Append(Content(v), c) = [i \in 1 .. n + 1 |-> IF i = n + 1 THEN c ELSE Content(v)[i]]
  BY <1>5, AppendIs
<1>11. QED
  BY <1>6, <1>9, <1>10

LEMMA ContentRead ==
  ASSUME Inv, NEW v \in Vms, console_has_next_char(v),
         console_buffer_start' = [console_buffer_start EXCEPT ![v] = After(@)],
         UNCHANGED <<console_buffer, console_buffer_end>>
  PROVE  /\ Content(v) # <<>>
         /\ Head(Content(v)) = console_buffer[v][console_buffer_start[v]]
         /\ Content(v)' = Tail(Content(v))
<1>. DEFINE s == console_buffer_start[v]
            e == console_buffer_end[v]
            b == console_buffer[v]
            n == Count(v)
<1>1. s \in 0 .. Size - 1 /\ e \in 0 .. Size - 1 /\ s # e
  BY Ends DEF console_has_next_char, Inv
<1>2. n = Distance(s, e) /\ n \in 0 .. Size - 1
  BY ContentInSeq DEF Count
<1>3. console_buffer_start'[v] = After(s)
  BY DEF Inv, TypeOK
<1>4. Content(v)' = [i \in 1 .. Distance(After(s), e) |-> b[Place(After(s), i)]]
  BY <1>3 DEF Content, Count
<1>5. /\ Content(v) \in Seq(Chars \cup {NoChar}) /\ Len(Content(v)) = n
      /\ \A i \in 1 .. n : Content(v)[i] = b[Place(s, i)]
  BY ContentInSeq
<1>6. b[s] = console_buffer[v][console_buffer_start[v]]
  OBVIOUS
<1>. HIDE DEF s, e, b, n
<1>7. n \in Nat \ {0}
  BY <1>1, <1>2, DistanceRange, ConsoleAssumption
<1>8. Content(v)' = [i \in 1 .. n - 1 |-> b[Place(After(s), i)]]
  BY <1>1, <1>2, <1>4, DistanceShrinks
<1>9. \A i \in 1 .. n - 1 : b[Place(After(s), i)] = Content(v)[i + 1]
  BY <1>1, <1>2, <1>5, <1>7, DistanceShrinks
<1>10. Content(v) # <<>> /\ Head(Content(v)) = Content(v)[1]
  BY <1>5, <1>7
<1>11. Content(v)[1] = b[s]
  BY <1>1, <1>5, <1>7, DistanceShrinks
<1>12. Tail(Content(v)) = [i \in 1 .. n - 1 |-> Content(v)[i + 1]]
  BY <1>5, <1>10, TailIs
<1>13. Content(v)' = Tail(Content(v))
  BY <1>8, <1>9, <1>12
<1>14. QED
  BY <1>6, <1>10, <1>11, <1>13

-----------------------------------------------------------------------------
LEMMA QueuesInit == Init => Queues!Init
<1>. SUFFICES ASSUME Init PROVE Queues!Init
  OBVIOUS
<1>1. ASSUME NEW v \in Vms PROVE Content(v) = <<>>
  <2>1. Count(v) = 0
    BY DEF Init, Count, Distance
  <2>2. QED
    BY <2>1 DEF Content
<1>2. QED
  BY <1>1 DEF Init, Queues!Init

LEMMA QueuesNext ==
  ASSUME Disciplined, Inv, [Next]_vars
  PROVE  [Queues!Next]_Queues!vars
<1>. DEFINE queue == [v \in Vms |-> Content(v)]
<1>0. ASSUME UNCHANGED <<console_buffer, console_buffer_start, console_buffer_end>>
      PROVE  queue' = queue
  BY <1>0 DEF Content, Count
<1>1. CASE TypeEsc
  BY <1>1, <1>0 DEF TypeEsc, Queues!vars
<1>2. ASSUME NEW c \in Chars, TypeNumber(c) PROVE Queues!Next
  <2>1. console_rx_vmid' \in Vms
    BY <1>2 DEF TypeNumber, Selected, Disciplined, Inv
  <2>2. Queues!Direct(console_rx_vmid')
    BY <1>2, <1>0 DEF TypeNumber, Queues!Direct
  <2>3. QED
    BY <2>1, <2>2 DEF Queues!Next
<1>3. ASSUME NEW c \in Chars, Type(c) PROVE [Queues!Next]_Queues!vars
  <2>0. PICK v \in Vms : v = console_rx_vmid
    BY DEF Inv
  <2>1. CASE Full(v)
    <3>1. /\ UNCHANGED <<console_buffer, console_buffer_start, console_buffer_end>>
          /\ UNCHANGED <<console_rx_vmid, got>> /\ bell' = TRUE /\ typed' = 1 - typed
      BY <1>3, <2>0, <2>1 DEF Type, console_input_char
    <3>2. Len(queue[v]) = Size - 1
      <4>1. Len(Content(v)) = Count(v) /\ Count(v) = Size - 1
        BY <2>1, ContentInSeq, Ends, FullDistance DEF Count, Full, Inv
      <4>2. QED
        BY <4>1
    <3>3. Queues!Refuse
      BY <1>0, <2>0, <3>1, <3>2 DEF Queues!Refuse
    <3>4. QED
      BY <3>3 DEF Queues!Next
  <2>2. CASE ~Full(v)
    <3>1. /\ console_buffer' = [console_buffer EXCEPT ![v][console_buffer_end[v]] = c]
          /\ console_buffer_end' = [console_buffer_end EXCEPT ![v] = After(@)]
          /\ UNCHANGED <<console_buffer_start, console_rx_vmid, got>>
          /\ bell' = FALSE /\ typed' = 1 - typed
      BY <1>3, <2>0, <2>2 DEF Type, console_input_char
    <3>2. v \in Vms
      BY <2>0
    <3>3. Content(v)' = Append(Content(v), c)
      BY <2>2, <3>1, <3>2, ContentAppended
    <3>4. \A w \in Vms \ {v} : Content(w)' = Content(w)
      BY <3>1, ContentKept DEF Inv, TypeOK
    <3>5. queue' = [queue EXCEPT ![v] = Append(@, c)]
      <4>1. [queue EXCEPT ![v] = Append(@, c)]
              = [w \in Vms |-> IF w = v THEN Append(Content(v), c) ELSE Content(w)]
        BY <3>2
      <4>2. queue' = [w \in Vms |-> Content(w)']
        OBVIOUS
      <4>3. \A w \in Vms : Content(w)' = IF w = v THEN Append(Content(v), c) ELSE Content(w)
        BY <3>3, <3>4
      <4>4. QED
        BY <4>1, <4>2, <4>3
    <3>6. Len(queue[v]) < Size - 1
      <4>1. Len(Content(v)) = Count(v) /\ Count(v) \in 0 .. Size - 1 /\ Count(v) # Size - 1
        BY <2>2, ContentInSeq, Ends, DistanceRange DEF Count, Full, Inv
      <4>2. QED
        BY <4>1, ConsoleAssumption
    <3>7. Queues!Put(c)
      BY <2>0, <3>1, <3>5, <3>6 DEF Queues!Put
    <3>8. QED
      BY <3>7 DEF Queues!Next
  <2>3. QED
    BY <2>1, <2>2
<1>4. ASSUME NEW v \in Vms, ReadChar(v) PROVE Queues!Next
  <2>1. /\ console_has_next_char(v)
        /\ console_buffer_start' = [console_buffer_start EXCEPT ![v] = After(@)]
        /\ got' = [got EXCEPT ![v] = console_buffer[v][console_buffer_start[v]]]
        /\ UNCHANGED <<console_buffer, console_buffer_end, console_rx_vmid, bell, typed>>
    BY <1>4 DEF ReadChar, Read, Disciplined
  <2>2. /\ Content(v) # <<>>
        /\ Head(Content(v)) = console_buffer[v][console_buffer_start[v]]
        /\ Content(v)' = Tail(Content(v))
    BY <2>1, ContentRead
  <2>3. \A w \in Vms \ {v} : Content(w)' = Content(w)
    BY <2>1, ContentKept DEF Inv, TypeOK
  <2>4. queue' = [queue EXCEPT ![v] = Tail(@)]
    BY <2>2, <2>3
  <2>5. Queues!Get(v)
    BY <2>1, <2>2, <2>4 DEF Queues!Get
  <2>6. QED
    BY <2>5 DEF Queues!Next
<1>5. ASSUME NEW v \in Vms, Acknowledge(v) PROVE UNCHANGED Queues!vars
  BY <1>5, <1>0 DEF Acknowledge, Queues!vars
<1>6. CASE UNCHANGED vars
  BY <1>6, <1>0 DEF vars, Queues!vars
<1>7. QED
  BY <1>1, <1>2, <1>3, <1>4, <1>5, <1>6 DEF Next

(* Start and end of every ring stay inside it, whatever is typed and even     *)
(* when a guest reads an empty ring: the wrap of console_input_char and        *)
(* console_next_char never misses.                                             *)
THEOREM TypeCorrect == Spec => []TypeOK
<1>1. Init => TypeOK
  BY InvInit DEF Inv
<1>2. TypeOK /\ [Next]_vars => TypeOK'
  BY TypeNext
<1>3. QED
  BY <1>1, <1>2, PTL DEF Spec

(* The rings of console.c implement one bounded queue per VM: every VM reads *)
(* the characters typed for it once each and in order, and loses only those  *)
(* typed while its ring was full, provided that it looks at URXDA before it   *)
(* reads and that only numbers of the table follow the escape character.      *)
THEOREM RingsAreQueues == ASSUME Disciplined PROVE Spec => IsQueue
<1>1. Spec => []Inv
  BY InvInit, InvNext, PTL DEF Spec
<1>2. Init => Queues!Init
  BY QueuesInit
<1>3. Inv /\ [Next]_vars => [Queues!Next]_Queues!vars
  BY QueuesNext
<1>4. QED
  BY <1>1, <1>2, <1>3, PTL DEF Spec, IsQueue, Queues!Spec

=============================================================================
