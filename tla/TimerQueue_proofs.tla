-------------------------- MODULE TimerQueue_proofs --------------------------
(***************************************************************************)
(* Proofs about TimerQueue, for any number of guests, every time a guest     *)
(* asks for, and any latency of the handlers: the links are always one       *)
(* sorted ring, COMPARE stands for its head, and no timer is handled before  *)
(* its time or long after it.                                                *)
(***************************************************************************)
EXTENDS TimerQueue, FiniteSetTheorems, TLAPS

-----------------------------------------------------------------------------
(* Induction over Nat, on sets                                               *)

LEMMA LeastNat ==
  ASSUME NEW S \in SUBSET Nat, S # {}
  PROVE  \E n \in S : \A m \in S : n <= m
<1> DEFINE R == {ss \in Nat \X Nat : ss[1] < ss[2]}
<1>1. IsWellFoundedOn(R, Nat)
  BY NatLessThanWellFounded DEF OpToRel
<1>2. \A m, n \in Nat : m < n => <<m, n>> \in R
  OBVIOUS
<1> HIDE DEF R
<1>3. PICK n \in S : \A m \in S : ~(<<m, n>> \in R)
  BY <1>1, WFMin
<1>4. ASSUME NEW m \in S PROVE n <= m
  <2>1. m \in Nat /\ n \in Nat /\ ~(m < n)
    BY <1>2, <1>3
  <2>2. QED
    BY <2>1
<1>5. QED
  BY <1>4

LEMMA NatInd ==
  ASSUME NEW S, 0 \in S, \A n \in Nat : n \in S => n + 1 \in S
  PROVE  Nat \subseteq S
<1> SUFFICES ASSUME Nat \ S # {} PROVE FALSE
  OBVIOUS
<1>1. PICK n \in Nat \ S : \A m \in Nat \ S : n <= m
  BY LeastNat
<1>2. n # 0 /\ n - 1 \in Nat /\ n - 1 \in S
  BY <1>1
<1>3. QED
  BY <1>1, <1>2

-----------------------------------------------------------------------------
(* Where time_insert_timer stops                                             *)

Queues == [next : [Links -> Links], prev : [Links -> Links], active : SUBSET Timers,
           time : [Timers -> Nat], lcount : [Timers -> Nat]]

\* The loop of time_insert_timer ends at p.
Stops(q, x, p) == p = Q \/ q.time[p] > x

Through(q, x, f) == [p \in Links |-> IF p = Q \/ q.time[p] > x THEN p ELSE f[q.next[p]]]

\* The links from which the loop gets to e: the least set with e and all that
\* goes on to a member.
Closed(q, x, S) == \A p \in Links : ~Stops(q, x, p) /\ q.next[p] \in S => p \in S
Basin(q, x, e) == {p \in Links : \A S \in SUBSET Links : e \in S /\ Closed(q, x, S) => p \in S}
Ends(q, x, p) == {e \in Links : Stops(q, x, e) /\ p \in Basin(q, x, e)}

LEMMA BasinIsClosed ==
  ASSUME NEW q, NEW x, NEW e \in Links
  PROVE  e \in Basin(q, x, e) /\ Closed(q, x, Basin(q, x, e))
<1>1. e \in Basin(q, x, e)
  BY DEF Basin
<1>2. ASSUME NEW p \in Links, ~Stops(q, x, p), q.next[p] \in Basin(q, x, e),
             NEW S \in SUBSET Links, e \in S, Closed(q, x, S)
      PROVE  p \in S
  <2>1. q.next[p] \in S
    BY <1>2 DEF Basin
  <2>2. QED
    BY <1>2, <2>1 DEF Closed
<1>3. Closed(q, x, Basin(q, x, e))
  BY <1>2 DEF Closed, Basin
<1>4. QED
  BY <1>1, <1>3

LEMMA BasinIsLeast ==
  ASSUME NEW q, NEW x, NEW e \in Links, NEW r \in Basin(q, x, e), r # e
  PROVE  ~Stops(q, x, r) /\ q.next[r] \in Basin(q, x, e)
<1> DEFINE B == Basin(q, x, e)
           S == B \ {r}
<1>1. S \in SUBSET Links /\ e \in S /\ r \notin S /\ B \subseteq Links
  BY BasinIsClosed DEF Basin
<1>2. Closed(q, x, S) => r \in S
  BY <1>1 DEF Basin
<1>3. Closed(q, x, B)
  BY BasinIsClosed
<1> HIDE DEF B
<1>4. PICK p \in Links : ~Stops(q, x, p) /\ q.next[p] \in S /\ p \notin S
  BY <1>1, <1>2 DEF Closed
<1>5. p \in B
  BY <1>3, <1>4 DEF Closed
<1>6. p = r
  BY <1>4, <1>5
<1>7. QED
  BY <1>4, <1>6 DEF B

LEMMA PlaceExists ==
  ASSUME NEW q \in Queues, NEW x
  PROVE  \E f : f = Through(q, x, f)
<1> DEFINE f == [p \in Links |-> CHOOSE e : e \in Ends(q, x, p)]
<1>1. ASSUME NEW p \in Links, Stops(q, x, p) PROVE Ends(q, x, p) = {p}
  BY <1>1, BasinIsClosed, BasinIsLeast DEF Ends
<1>2. ASSUME NEW p \in Links, ~Stops(q, x, p) PROVE Ends(q, x, p) = Ends(q, x, q.next[p])
  <2>1. q.next[p] \in Links
    BY DEF Queues
  <2>2. ASSUME NEW e \in Links, Stops(q, x, e)
        PROVE  p \in Basin(q, x, e) <=> q.next[p] \in Basin(q, x, e)
    <3>1. p # e
      BY <1>2, <2>2
    <3>2. QED
      BY <1>2, <3>1, BasinIsClosed, BasinIsLeast DEF Closed
  <2>3. QED
    BY <2>2 DEF Ends
<1>3. ASSUME NEW p \in Links, Stops(q, x, p) PROVE f[p] = p
  BY <1>1, <1>3
<1>4. ASSUME NEW p \in Links, ~Stops(q, x, p) PROVE f[p] = f[q.next[p]]
  <2>1. q.next[p] \in Links
    BY DEF Queues
  <2>2. QED
    BY <1>2, <1>4, <2>1
<1>5. f = [p \in Links |-> f[p]]
  OBVIOUS
<1> HIDE DEF f
<1>6. f = Through(q, x, f)
  BY <1>3, <1>4, <1>5 DEF Through, Stops
<1>7. QED
  BY <1>6

LEMMA PlaceIs ==
  ASSUME NEW q \in Queues, NEW x
  PROVE  \E f : f = Through(q, x, f) /\ Place(q, x) = f[q.next[Q]]
<1>1. \E f : f = Through(q, x, f)
  BY PlaceExists
<1>2. QED
  BY <1>1 DEF Place, Through

-----------------------------------------------------------------------------
(* The ring                                                                  *)

\* What comes at place i of the ring of links e, 0 .. n.
Nth(n, e, i) == IF i = n + 1 THEN Q ELSE e[i]

\* The links of q are one ring, e, of its active timers, in the order of time.
RingOf(q, n, e) ==
  /\ n \in Nat /\ e \in [0 .. n -> Links] /\ e[0] = Q
  /\ \A i, j \in 0 .. n : e[i] = e[j] => i = j
  /\ \A t \in Links : t \in q.active <=> \E i \in 1 .. n : e[i] = t
  /\ \A i \in 0 .. n : q.next[e[i]] = Nth(n, e, i + 1) /\ q.prev[Nth(n, e, i + 1)] = e[i]
  /\ \A i, j \in 1 .. n : i <= j => q.time[e[i]] <= q.time[e[j]]

Ring(q) == \E n, e : RingOf(q, n, e)

\* A timer due at x belongs at place k.
Fits(q, n, e, x, k) ==
  /\ k \in 1 .. n + 1
  /\ \A i \in 1 .. n : (i < k => q.time[e[i]] <= x) /\ (i = k => q.time[e[i]] > x)

LEMMA QNotTimer ==
  Q \in Links /\ Q \notin Timers /\ Timers \subseteq Links /\ \A p \in Links : p # Q => p \in Timers
BY TimerQueueAssumption DEF Links, Timers

LEMMA SomePlaceFits ==
  ASSUME NEW q \in Queues, NEW n, NEW e, RingOf(q, n, e), NEW x \in Nat
  PROVE  \E k \in 1 .. n + 1 : Fits(q, n, e, x, k)
<1> DEFINE S == {i \in 1 .. n : q.time[e[i]] > x} \cup {n + 1}
<1>0. n \in Nat /\ \A i \in 1 .. n : q.time[e[i]] \in Nat
  BY QNotTimer DEF RingOf, Queues
<1>1. S \in SUBSET Nat /\ S # {}
  BY <1>0
<1>2. PICK k \in S : \A m \in S : k <= m
  <2> HIDE DEF S
  <2>1. QED BY <1>1, LeastNat
<1>3. k \in 1 .. n + 1
  BY <1>0
<1>4. ASSUME NEW i \in 1 .. n PROVE (i < k => q.time[e[i]] <= x) /\ (i = k => q.time[e[i]] > x)
  <2>1. i < k => i \notin S
    BY <1>0, <1>2, <1>3
  <2>2. i = k => i # n + 1
    BY <1>0
  <2>3. QED
    BY <2>1, <2>2, <1>0
<1>5. QED
  BY <1>3, <1>4 DEF Fits

LEMMA PlaceFits ==
  ASSUME NEW q \in Queues, NEW n, NEW e, RingOf(q, n, e), NEW x \in Nat
  PROVE  \E k \in 1 .. n + 1 : Fits(q, n, e, x, k) /\ Place(q, x) = Nth(n, e, k)
<1>0. n \in Nat /\ e \in [0 .. n -> Links] /\ e[0] = Q
  BY DEF RingOf
<1>1. PICK k \in 1 .. n + 1 : Fits(q, n, e, x, k)
  BY SomePlaceFits
<1>2. PICK f : f = Through(q, x, f) /\ Place(q, x) = f[q.next[Q]]
  BY PlaceIs
<1>3. \A p \in Links : f[p] = IF p = Q \/ q.time[p] > x THEN p ELSE f[q.next[p]]
  <2> DEFINE g == Through(q, x, f)
  <2>1. \A p \in Links : g[p] = IF p = Q \/ q.time[p] > x THEN p ELSE f[q.next[p]]
    BY DEF Through
  <2>2. g = f
    BY <1>2
  <2>3. QED
    BY <2>1, <2>2
<1> DEFINE S == {m \in Nat : m < k => f[q.next[Q]] = f[Nth(n, e, m + 1)]}
<1>4. 0 \in S
  BY <1>0 DEF RingOf
<1>5. ASSUME NEW m \in Nat, m \in S PROVE m + 1 \in S
  <2> SUFFICES ASSUME m + 1 < k PROVE f[q.next[Q]] = f[Nth(n, e, m + 2)]
    OBVIOUS
  <2>1. m + 1 \in 1 .. n /\ m + 1 < k
    BY <1>0
  <2>2. Nth(n, e, m + 1) = e[m + 1] /\ e[m + 1] # Q /\ e[m + 1] \in Links
    BY <2>1, <1>0 DEF Nth, RingOf
  <2>3. q.time[e[m + 1]] <= x /\ q.time[e[m + 1]] \in Nat
    BY <1>1, <2>1, <2>2, QNotTimer DEF Fits, Queues
  <2>4. q.next[e[m + 1]] = Nth(n, e, m + 2)
    BY <2>1, <1>0 DEF RingOf
  <2>5. f[e[m + 1]] = f[Nth(n, e, m + 2)]
    BY <1>3, <2>2, <2>3, <2>4
  <2>6. QED
    BY <1>5, <2>1, <2>2, <2>5
<1>6. Nat \subseteq S
  <2> HIDE DEF S
  <2>1. QED BY <1>4, <1>5, NatInd
<1>7. f[q.next[Q]] = f[Nth(n, e, k)]
  <2>1. k - 1 \in Nat /\ k - 1 < k /\ (k - 1) + 1 = k
    BY <1>0
  <2>2. k - 1 \in S
    BY <1>6, <2>1
  <2>3. QED
    BY <2>1, <2>2
<1>8. f[Nth(n, e, k)] = Nth(n, e, k)
  <2>1. CASE k = n + 1
    BY <1>3, <2>1, QNotTimer DEF Nth
  <2>2. CASE k # n + 1
    <3>1. k \in 1 .. n
      BY <1>0, <2>2
    <3>2. e[k] \in Links /\ q.time[e[k]] > x
      BY <1>0, <1>1, <3>1 DEF Fits
    <3>3. QED
      BY <1>3, <2>2, <3>2 DEF Nth
  <2>3. QED
    BY <2>1, <2>2
<1>9. QED
  BY <1>1, <1>2, <1>7, <1>8

\* The ring without place k, and with t at it.
Without(n, e, k) == [i \in 0 .. n - 1 |-> IF i < k THEN e[i] ELSE e[i + 1]]
With(n, e, k, t) == [i \in 0 .. n + 1 |-> IF i < k THEN e[i] ELSE IF i = k THEN t ELSE e[i - 1]]

LEMMA UnlinkedQueue ==
  ASSUME NEW q \in Queues, NEW t \in Timers
  PROVE  /\ Unlink(q, t) \in Queues
         /\ Unlink(q, t).next = [q.next EXCEPT ![q.prev[t]] = q.next[t]]
         /\ Unlink(q, t).prev = [q.prev EXCEPT ![q.next[t]] = q.prev[t]]
         /\ Unlink(q, t).active = q.active \ {t}
         /\ Unlink(q, t).time = q.time /\ Unlink(q, t).lcount = q.lcount
BY QNotTimer DEF Unlink, Queues

LEMMA UnlinkedRing ==
  ASSUME NEW q \in Queues, NEW n, NEW e, RingOf(q, n, e), NEW k \in 1 .. n
  PROVE  n - 1 \in Nat /\ RingOf(Unlink(q, e[k]), n - 1, Without(n, e, k))
<1> DEFINE t == e[k]
           r == Unlink(q, t)
           d == Without(n, e, k)
<1>1. n \in Nat /\ e \in [0 .. n -> Links] /\ e[0] = Q
      /\ \A i, j \in 0 .. n : e[i] = e[j] => i = j
  BY DEF RingOf
<1>2. t \in Timers /\ k \in 0 .. n /\ k - 1 \in 0 .. n
  <2>1. k \in 0 .. n /\ k - 1 \in 0 .. n /\ 0 \in 0 .. n /\ k # 0
    BY <1>1
  <2>2. e[k] # e[0]
    BY <1>1, <2>1
  <2>3. QED
    BY <1>1, <2>1, <2>2, QNotTimer
<1>3. n - 1 \in Nat /\ d \in [0 .. n - 1 -> Links]
  BY <1>1 DEF Without
<1>4. \A i \in 0 .. n - 1 : d[i] = IF i < k THEN e[i] ELSE e[i + 1]
  BY DEF Without
<1>5. q.prev[t] = e[k - 1] /\ q.next[t] = Nth(n, e, k + 1)
  <2>1. Nth(n, e, (k - 1) + 1) = t /\ (k - 1) + 1 = k
    BY <1>1, <1>2 DEF Nth
  <2>2. q.prev[Nth(n, e, (k - 1) + 1)] = e[k - 1]
    BY <1>2 DEF RingOf
  <2>3. QED
    BY <1>2, <2>1, <2>2 DEF RingOf
<1>6. /\ r.next = [q.next EXCEPT ![e[k - 1]] = Nth(n, e, k + 1)]
      /\ r.prev = [q.prev EXCEPT ![Nth(n, e, k + 1)] = e[k - 1]]
      /\ r.active = q.active \ {t} /\ r.time = q.time
  BY <1>2, <1>5, UnlinkedQueue
<1> HIDE DEF r, d, t
<1>7. d[0] = Q
  BY <1>1, <1>3, <1>4
<1>8. \A i, j \in 0 .. n - 1 : d[i] = d[j] => i = j
  BY <1>1, <1>3, <1>4
<1>9. ASSUME NEW p \in Links PROVE p \in r.active <=> \E i \in 1 .. n - 1 : d[i] = p
  <2>1. p \in q.active <=> \E i \in 1 .. n : e[i] = p
    BY DEF RingOf
  <2>2. ASSUME p \in r.active PROVE \E i \in 1 .. n - 1 : d[i] = p
    <3>1. PICK i \in 1 .. n : e[i] = p /\ i # k
      BY <1>6, <2>1, <2>2 DEF t
    <3>2. CASE i < k
      BY <1>1, <1>4, <3>1, <3>2
    <3>3. CASE i > k
      <4>1. i - 1 \in 1 .. n - 1 /\ ~(i - 1 < k) /\ (i - 1) + 1 = i
        BY <1>1, <3>3
      <4>2. QED
        BY <1>4, <3>1, <4>1
    <3>4. QED
      BY <1>1, <3>1, <3>2, <3>3
  <2>3. ASSUME NEW i \in 1 .. n - 1, d[i] = p PROVE p \in r.active
    <3>1. PICK j \in 1 .. n : d[i] = e[j] /\ j # k
      BY <1>1, <1>4
    <3>2. j \in 0 .. n /\ e[j] # e[k]
      BY <1>1, <1>2, <3>1
    <3>3. QED
      BY <1>6, <2>1, <2>3, <3>1, <3>2 DEF t
  <2>4. QED
    BY <2>2, <2>3
<1>10. ASSUME NEW i \in 0 .. n - 1
       PROVE  r.next[d[i]] = Nth(n - 1, d, i + 1) /\ r.prev[Nth(n - 1, d, i + 1)] = d[i]
  <2>0. /\ q.next \in [Links -> Links] /\ q.prev \in [Links -> Links] /\ Q \in Links
        /\ \A j \in 0 .. n : e[j] \in Links /\ (j # 0 => e[j] # Q)
    <3>1. 0 \in 0 .. n
      BY <1>1
    <3>2. QED
      BY <1>1, <3>1, QNotTimer DEF Queues
  <2>1. CASE i < k - 1
    <3>1. i \in 0 .. n /\ i + 1 \in 0 .. n /\ i + 1 # n + 1 /\ i + 1 # n - 1 + 1 /\ i + 1 \in 0 .. n - 1
          /\ i + 1 < k /\ i # k - 1 /\ i + 1 # k
      BY <1>1, <2>1
    <3>2. d[i] = e[i] /\ Nth(n - 1, d, i + 1) = e[i + 1] /\ Nth(n, e, i + 1) = e[i + 1]
      BY <1>1, <1>4, <3>1 DEF Nth
    <3>3. e[i] # e[k - 1] /\ e[i + 1] # Nth(n, e, k + 1)
      BY <1>1, <1>2, <2>0, <3>1 DEF Nth
    <3>4. q.next[e[i]] = e[i + 1] /\ q.prev[e[i + 1]] = e[i]
      BY <3>1, <3>2 DEF RingOf
    <3>5. QED
      BY <1>6, <2>0, <3>1, <3>2, <3>3, <3>4
  <2>2. CASE i = k - 1
    <3>1. d[i] = e[k - 1] /\ Nth(n - 1, d, i + 1) = Nth(n, e, k + 1)
      BY <1>1, <1>4, <2>2 DEF Nth
    <3>2. e[k - 1] \in Links /\ Nth(n, e, k + 1) \in Links
      BY <1>1, <1>2, <2>0 DEF Nth
    <3>3. QED
      BY <1>6, <2>0, <3>1, <3>2
  <2>3. CASE i > k - 1
    <3>1. i + 1 \in 0 .. n /\ ~(i < k) /\ i + 1 # k - 1 /\ i + 1 # n + 1
      BY <1>1, <2>3
    <3>2. d[i] = e[i + 1] /\ Nth(n - 1, d, i + 1) = Nth(n, e, i + 2)
      BY <1>1, <1>4, <2>3, <3>1 DEF Nth
    <3>3. e[i + 1] # e[k - 1]
      BY <1>1, <1>2, <3>1
    <3>4. Nth(n, e, i + 2) # Nth(n, e, k + 1) /\ Nth(n, e, i + 2) \in Links
      BY <1>1, <1>2, <2>0, <2>3, <3>1 DEF Nth
    <3>5. q.next[e[i + 1]] = Nth(n, e, i + 2) /\ q.prev[Nth(n, e, i + 2)] = e[i + 1]
      <4>1. (i + 1) + 1 = i + 2
        BY <1>1
      <4>2. QED
        BY <3>1, <4>1 DEF RingOf
    <3>6. QED
      BY <1>6, <2>0, <3>1, <3>2, <3>3, <3>4, <3>5
  <2>4. QED
    BY <1>1, <2>1, <2>2, <2>3
<1>11. \A i, j \in 1 .. n - 1 : i <= j => r.time[d[i]] <= r.time[d[j]]
  <2> SUFFICES ASSUME NEW i \in 1 .. n - 1, NEW j \in 1 .. n - 1, i <= j
               PROVE  q.time[d[i]] <= q.time[d[j]]
    BY <1>6
  <2>1. PICK a \in 1 .. n, b \in 1 .. n : a <= b /\ d[i] = e[a] /\ d[j] = e[b]
    BY <1>1, <1>4
  <2>2. QED
    BY <2>1 DEF RingOf
<1>12. QED
  BY <1>3, <1>7, <1>8, <1>9, <1>10, <1>11 DEF RingOf, r, d, t

\* Timer t, due at time x and count c, put in before link p.
Linked(q, t, p, x, c) ==
  [q EXCEPT !.next = [@ EXCEPT ![t] = p, ![q.prev[p]] = t],
            !.prev = [@ EXCEPT ![t] = q.prev[p], ![p] = t],
            !.active = @ \cup {t}, !.time[t] = x, !.lcount[t] = c]

IsLinked(q, t, p, x, c, r) ==
  /\ r \in Queues
  /\ r.next = [q.next EXCEPT ![t] = p, ![q.prev[p]] = t]
  /\ r.prev = [q.prev EXCEPT ![t] = q.prev[p], ![p] = t]
  /\ r.active = q.active \cup {t}
  /\ r.time = [q.time EXCEPT ![t] = x]
  /\ r.lcount = [q.lcount EXCEPT ![t] = c]

LEMMA LinkedQueue ==
  ASSUME NEW q \in Queues, NEW t \in Timers, NEW p \in Links, NEW x \in Nat, NEW c \in Nat
  PROVE  IsLinked(q, t, p, x, c, Linked(q, t, p, x, c))
BY QNotTimer DEF Linked, Queues, IsLinked

LEMMA LinkedRing ==
  ASSUME NEW q \in Queues, NEW n, NEW e, RingOf(q, n, e),
         NEW t \in Timers \ q.active, NEW x \in Nat, NEW c \in Nat,
         NEW k \in 1 .. n + 1, Fits(q, n, e, x, k)
  PROVE  n + 1 \in Nat /\ RingOf(Linked(q, t, Nth(n, e, k), x, c), n + 1, With(n, e, k, t))
<1> DEFINE p == Nth(n, e, k)
           r == Linked(q, t, p, x, c)
           d == With(n, e, k, t)
<1>1. n \in Nat /\ e \in [0 .. n -> Links] /\ e[0] = Q
      /\ \A i, j \in 0 .. n : e[i] = e[j] => i = j
  BY DEF RingOf
<1>2. /\ q.next \in [Links -> Links] /\ q.prev \in [Links -> Links] /\ Q \in Links
      /\ \A j \in 0 .. n : e[j] \in Links /\ (j # 0 => e[j] # Q)
      /\ q.time \in [Timers -> Nat] /\ t \in Links /\ t # Q
  <2>1. 0 \in 0 .. n
    BY <1>1
  <2>2. QED
    BY <1>1, <2>1, QNotTimer DEF Queues
<1>3. \A j \in 0 .. n : e[j] # t
  <2> SUFFICES ASSUME NEW j \in 0 .. n, e[j] = t PROVE FALSE
    OBVIOUS
  <2>1. j \in 1 .. n
    BY <1>1, <1>2
  <2>2. QED
    BY <1>2, <2>1 DEF RingOf
<1>4. p \in Links /\ p # t /\ q.prev[p] = e[k - 1] /\ k - 1 \in 0 .. n
  <2>1. k - 1 \in 0 .. n /\ (k - 1) + 1 = k
    BY <1>1
  <2>2. q.prev[Nth(n, e, (k - 1) + 1)] = e[k - 1]
    BY <2>1 DEF RingOf
  <2>3. p \in Links /\ p # t
    BY <1>1, <1>2, <1>3 DEF Nth
  <2>4. QED
    BY <2>1, <2>2, <2>3
<1>5. /\ r.next = [q.next EXCEPT ![t] = p, ![e[k - 1]] = t]
      /\ r.prev = [q.prev EXCEPT ![t] = e[k - 1], ![p] = t]
      /\ r.active = q.active \cup {t} /\ r.time = [q.time EXCEPT ![t] = x]
  <2>1. t \in Timers /\ p \in Links /\ q.prev[p] = e[k - 1]
    BY <1>4
  <2> HIDE DEF p
  <2>2. IsLinked(q, t, p, x, c, r)
    BY <2>1, LinkedQueue
  <2> HIDE DEF r
  <2>3. QED
    BY <2>1, <2>2 DEF IsLinked
<1>6. n + 1 \in Nat /\ d \in [0 .. n + 1 -> Links]
  BY <1>1, <1>2 DEF With
<1>7. \A i \in 0 .. n + 1 : d[i] = IF i < k THEN e[i] ELSE IF i = k THEN t ELSE e[i - 1]
  BY DEF With
<1> HIDE DEF r, d
<1>8. d[0] = Q
  BY <1>1, <1>6, <1>7
<1>9. \A i, j \in 0 .. n + 1 : d[i] = d[j] => i = j
  <2> SUFFICES ASSUME NEW i \in 0 .. n + 1, NEW j \in 0 .. n + 1, d[i] = d[j] PROVE i = j
    OBVIOUS
  <2>1. CASE i = k \/ j = k
    BY <1>1, <1>3, <1>7, <2>1
  <2>2. CASE i # k /\ j # k
    BY <1>1, <1>7, <2>2
  <2>3. QED
    BY <2>1, <2>2
<1>10. ASSUME NEW s \in Links PROVE s \in r.active <=> \E i \in 1 .. n + 1 : d[i] = s
  <2>1. s \in q.active <=> \E i \in 1 .. n : e[i] = s
    BY DEF RingOf
  <2>2. ASSUME s \in q.active PROVE \E i \in 1 .. n + 1 : d[i] = s
    <3>1. PICK i \in 1 .. n : e[i] = s
      BY <2>1, <2>2
    <3>2. CASE i < k
      BY <1>1, <1>7, <3>1, <3>2
    <3>3. CASE i >= k
      <4>1. i + 1 \in 1 .. n + 1 /\ ~(i + 1 < k) /\ i + 1 # k /\ (i + 1) - 1 = i
        BY <1>1, <3>3
      <4>2. QED
        BY <1>7, <3>1, <4>1
    <3>4. QED
      BY <1>1, <3>1, <3>2, <3>3
  <2>3. d[k] = t /\ k \in 1 .. n + 1
    BY <1>1, <1>7
  <2>4. ASSUME NEW i \in 1 .. n + 1, d[i] = s, s # t PROVE s \in q.active
    <3>1. \E j \in 1 .. n : e[j] = d[i]
      BY <1>1, <1>7, <2>4
    <3>2. QED
      BY <2>1, <2>4, <3>1
  <2>5. QED
    BY <1>5, <2>2, <2>3, <2>4
<1>11. ASSUME NEW i \in 0 .. n + 1
       PROVE  r.next[d[i]] = Nth(n + 1, d, i + 1) /\ r.prev[Nth(n + 1, d, i + 1)] = d[i]
  <2>1. CASE i < k - 1
    <3>1. i \in 0 .. n /\ i + 1 \in 0 .. n /\ i + 1 # n + 1 /\ i + 1 # n + 1 + 1 /\ i + 1 \in 0 .. n + 1
          /\ i + 1 < k /\ i # k - 1 /\ i + 1 # k
      BY <1>1, <2>1
    <3>2. d[i] = e[i] /\ Nth(n + 1, d, i + 1) = e[i + 1] /\ Nth(n, e, i + 1) = e[i + 1]
      BY <1>1, <1>7, <3>1 DEF Nth
    <3>3. e[i] # e[k - 1] /\ e[i + 1] # p /\ e[i] # t /\ e[i + 1] # t
      BY <1>1, <1>2, <1>3, <1>4, <3>1 DEF Nth
    <3>4. q.next[e[i]] = e[i + 1] /\ q.prev[e[i + 1]] = e[i]
      BY <3>1, <3>2 DEF RingOf
    <3>5. QED
      BY <1>2, <1>5, <3>1, <3>2, <3>3, <3>4
  <2>2. CASE i = k - 1
    <3>1. i \in 0 .. n + 1 /\ i < k /\ i + 1 = k /\ i + 1 # n + 1 + 1 /\ k \in 0 .. n + 1
      BY <1>1, <2>2
    <3>2. d[i] = e[k - 1] /\ Nth(n + 1, d, i + 1) = t
      BY <1>1, <1>7, <2>2, <3>1 DEF Nth
    <3>3. e[k - 1] \in Links /\ e[k - 1] # t
      BY <1>2, <1>3, <1>4
    <3>4. QED
      BY <1>2, <1>4, <1>5, <3>2, <3>3
  <2>3. CASE i = k
    <3>1. d[i] = t /\ Nth(n + 1, d, i + 1) = p
      <4>1. CASE k = n + 1
        BY <1>1, <1>7, <2>3, <4>1 DEF Nth
      <4>2. CASE k # n + 1
        <5>1. k + 1 \in 0 .. n + 1 /\ k + 1 # n + 1 + 1 /\ ~(k + 1 < k) /\ k + 1 # k /\ (k + 1) - 1 = k
          BY <1>1, <4>2
        <5>2. d[k + 1] = e[k]
          BY <1>7, <5>1
        <5>3. QED
          BY <1>7, <2>3, <4>2, <5>1, <5>2 DEF Nth
      <4>3. QED
        BY <4>1, <4>2
    <3>2. e[k - 1] # t
      BY <1>3, <1>4
    <3>3. QED
      BY <1>2, <1>4, <1>5, <3>1, <3>2
  <2>4. CASE i > k
    <3>1. i - 1 \in 0 .. n /\ ~(i < k) /\ i # k /\ i - 1 # k - 1 /\ i - 1 # 0
      BY <1>1, <2>4
    <3>2. d[i] = e[i - 1] /\ Nth(n + 1, d, i + 1) = Nth(n, e, i)
      <4>1. CASE i = n + 1
        BY <1>1, <1>7, <3>1, <4>1 DEF Nth
      <4>2. CASE i # n + 1
        <5>1. i + 1 \in 0 .. n + 1 /\ i + 1 # n + 1 + 1 /\ ~(i + 1 < k) /\ i + 1 # k /\ (i + 1) - 1 = i
          BY <1>1, <2>4, <4>2
        <5>2. QED
          BY <1>7, <3>1, <4>2, <5>1 DEF Nth
      <4>3. QED
        BY <4>1, <4>2
    <3>3. e[i - 1] # e[k - 1] /\ e[i - 1] # t /\ e[i - 1] \in Links
      BY <1>1, <1>2, <1>3, <1>4, <3>1
    <3>4. Nth(n, e, i) # p /\ Nth(n, e, i) # t /\ Nth(n, e, i) \in Links
      BY <1>1, <1>2, <1>3, <2>4, <3>1 DEF Nth
    <3>5. q.next[e[i - 1]] = Nth(n, e, i) /\ q.prev[Nth(n, e, i)] = e[i - 1]
      <4>1. (i - 1) + 1 = i
        BY <1>1
      <4>2. QED
        BY <3>1, <4>1 DEF RingOf
    <3>6. QED
      BY <1>2, <1>4, <1>5, <3>2, <3>3, <3>4, <3>5
  <2>5. QED
    BY <1>1, <2>1, <2>2, <2>3, <2>4
<1>12. \A i, j \in 1 .. n + 1 : i <= j => r.time[d[i]] <= r.time[d[j]]
  <2> SUFFICES ASSUME NEW i \in 1 .. n + 1, NEW j \in 1 .. n + 1, i <= j
               PROVE  r.time[d[i]] <= r.time[d[j]]
    OBVIOUS
  <2>1. ASSUME NEW a \in 1 .. n
        PROVE  e[a] # t /\ e[a] \in Timers /\ r.time[e[a]] = q.time[e[a]] /\ q.time[e[a]] \in Nat
    <3>1. a \in 0 .. n /\ a # 0
      BY <1>1
    <3>2. QED
      BY <1>2, <1>3, <1>5, <3>1, QNotTimer
  <2>2. r.time[t] = x /\ d[k] = t
    BY <1>1, <1>2, <1>5, <1>7
  <2>3. ASSUME NEW a \in 1 .. n + 1, a # k
        PROVE  \E b \in 1 .. n : d[a] = e[b] /\ (a < k => b = a) /\ (a > k => b = a - 1)
    BY <1>1, <1>7, <2>3
  <2>4. CASE i = k /\ j = k
    BY <2>2, <2>4
  <2>5. CASE i = k /\ j # k
    <3>1. PICK b \in 1 .. n : d[j] = e[b] /\ b = j - 1
      BY <1>1, <2>3, <2>5
    <3>2. k \in 1 .. n /\ k <= b
      BY <1>1, <2>5, <3>1
    <3>3. q.time[e[k]] > x /\ q.time[e[k]] <= q.time[e[b]]
      BY <3>1, <3>2 DEF Fits, RingOf
    <3>4. QED
      BY <2>1, <2>2, <2>5, <3>1, <3>2, <3>3
  <2>6. CASE i # k /\ j = k
    <3>1. PICK b \in 1 .. n : d[i] = e[b] /\ b = i /\ i < k
      BY <1>1, <2>3, <2>6
    <3>2. q.time[e[b]] <= x
      BY <3>1 DEF Fits
    <3>3. QED
      BY <2>1, <2>2, <2>6, <3>1, <3>2
  <2>7. CASE i # k /\ j # k
    <3>1. PICK a \in 1 .. n : d[i] = e[a] /\ (i < k => a = i) /\ (i > k => a = i - 1)
      BY <2>3, <2>7
    <3>2. PICK b \in 1 .. n : d[j] = e[b] /\ (j < k => b = j) /\ (j > k => b = j - 1)
      BY <2>3, <2>7
    <3>3. a <= b
      BY <1>1, <2>7, <3>1, <3>2
    <3>4. q.time[e[a]] <= q.time[e[b]]
      BY <3>3 DEF RingOf
    <3>5. QED
      BY <2>1, <3>1, <3>2, <3>4
  <2>8. QED
    BY <2>4, <2>5, <2>6, <2>7
<1>13. QED
  BY <1>6, <1>8, <1>9, <1>10, <1>11, <1>12 DEF RingOf, r, d

LEMMA RingLinks ==
  ASSUME NEW q \in Queues, Ring(q)
  PROVE  /\ \A p \in q.active \cup {Q} : q.next[p] \in q.active \cup {Q} /\ q.prev[q.next[p]] = p
         /\ \A t \in q.active : q.next[Q] \in q.active /\ q.time[q.next[Q]] <= q.time[t]
<1>1. PICK n, e : RingOf(q, n, e) /\ n \in Nat /\ e \in [0 .. n -> Links]
  BY DEF Ring, RingOf
<1>2. ASSUME NEW p \in q.active \cup {Q} PROVE \E i \in 0 .. n : e[i] = p
  <2>1. CASE p = Q
    BY <1>1, <2>1 DEF RingOf
  <2>2. CASE p # Q
    <3>1. p \in q.active /\ p \in Links
      BY <1>2, <2>2, QNotTimer DEF Queues
    <3>2. \E i \in 1 .. n : e[i] = p
      BY <1>1, <3>1 DEF RingOf
    <3>3. QED
      BY <3>2
  <2>3. QED
    BY <2>1, <2>2
<1>3. ASSUME NEW i \in 1 .. n + 1 PROVE Nth(n, e, i) \in q.active \cup {Q}
  <2>1. CASE i = n + 1
    BY <2>1 DEF Nth
  <2>2. CASE i # n + 1
    <3>1. i \in 1 .. n /\ e[i] \in Links
      BY <1>1, <2>2
    <3>2. QED
      BY <1>1, <2>2, <3>1 DEF Nth, RingOf
  <2>3. QED
    BY <2>1, <2>2
<1>4. ASSUME NEW p \in q.active \cup {Q}
      PROVE  q.next[p] \in q.active \cup {Q} /\ q.prev[q.next[p]] = p
  <2>1. PICK i \in 0 .. n : e[i] = p
    BY <1>2, <1>4
  <2>2. q.next[p] = Nth(n, e, i + 1) /\ q.prev[Nth(n, e, i + 1)] = p
    BY <1>1, <2>1 DEF RingOf
  <2>3. i + 1 \in 1 .. n + 1
    BY <1>1, <2>1
  <2>4. QED
    BY <1>3, <2>2, <2>3
<1>5. ASSUME NEW t \in q.active
      PROVE  q.next[Q] \in q.active /\ q.time[q.next[Q]] <= q.time[t]
  <2>1. t \in Links
    BY <1>5, QNotTimer DEF Queues
  <2>2. PICK i \in 1 .. n : e[i] = t
    BY <1>1, <2>1, <1>5 DEF RingOf
  <2>3. 0 \in 0 .. n /\ 1 \in 1 .. n /\ 1 <= i /\ e[0] = Q /\ e[1] \in Links /\ 1 # n + 1
    BY <1>1, <2>2 DEF RingOf
  <2>4. q.next[Q] = Nth(n, e, 0 + 1) /\ Nth(n, e, 0 + 1) = e[1]
    BY <1>1, <2>3 DEF RingOf, Nth
  <2>5. e[1] \in q.active /\ q.time[e[1]] <= q.time[e[i]]
    BY <1>1, <2>3 DEF RingOf
  <2>6. QED
    BY <2>2, <2>4, <2>5
<1>6. QED
  BY <1>4, <1>5

\* What the operations on the queue leave, r.
Removed(q, t, r) ==
  /\ r \in Queues /\ Ring(r)
  /\ r.active = q.active \ {t} /\ r.time = q.time /\ r.lcount = q.lcount
  /\ q.next[Q] = t => q.next[t] = r.next[Q]

Inserted(q, t, x, c, r) ==
  /\ r \in Queues /\ Ring(r)
  /\ r.active = q.active \cup {t}
  /\ r.time = [q.time EXCEPT ![t] = x] /\ r.lcount = [q.lcount EXCEPT ![t] = c]
  /\ r.next[t] = Q \/ (r.next[t] \in r.active \ {t} /\ q.time[r.next[t]] > x)

LEMMA UnlinkRemoves ==
  ASSUME NEW q \in Queues, Ring(q), NEW t \in q.active
  PROVE  Removed(q, t, Unlink(q, t))
<1> DEFINE r == Unlink(q, t)
<1>1. t \in Timers /\ t \in Links
  BY QNotTimer DEF Queues
<1>2. /\ r \in Queues /\ r.next = [q.next EXCEPT ![q.prev[t]] = q.next[t]]
      /\ r.active = q.active \ {t} /\ r.time = q.time /\ r.lcount = q.lcount
  BY <1>1, UnlinkedQueue
<1>3. Ring(r)
  <2>1. PICK n, e : RingOf(q, n, e) /\ n \in Nat /\ e \in [0 .. n -> Links]
    BY DEF Ring, RingOf
  <2>2. PICK k \in 1 .. n : e[k] = t
    BY <1>1, <2>1 DEF RingOf
  <2>3. n - 1 \in Nat /\ RingOf(r, n - 1, Without(n, e, k))
    BY <2>1, <2>2, UnlinkedRing
  <2> HIDE DEF r
  <2>4. QED
    BY <2>3 DEF Ring
<1>4. q.next[Q] = t => q.next[t] = r.next[Q]
  <2> HIDE DEF r
  <2>1. q.prev[q.next[Q]] = Q /\ Q \in Links /\ q.next \in [Links -> Links]
    BY RingLinks, QNotTimer DEF Queues
  <2>2. QED
    BY <1>2, <2>1
<1>5. QED
  BY <1>2, <1>3, <1>4 DEF Removed

LEMMA LinkInserts ==
  ASSUME NEW q \in Queues, Ring(q), NEW t \in Timers \ q.active, NEW x \in Nat, NEW c \in Nat
  PROVE  Inserted(q, t, x, c, Linked(q, t, Place(q, x), x, c))
<1> DEFINE r == Linked(q, t, Place(q, x), x, c)
<1>1. PICK n, e : RingOf(q, n, e) /\ n \in Nat /\ e \in [0 .. n -> Links]
  BY DEF Ring, RingOf
<1>2. PICK k \in 1 .. n + 1 : Fits(q, n, e, x, k) /\ Place(q, x) = Nth(n, e, k)
  BY <1>1, PlaceFits
<1>3. n + 1 \in Nat /\ RingOf(r, n + 1, With(n, e, k, t))
  BY <1>1, <1>2, LinkedRing
<1>4. Place(q, x) = Q \/ (Place(q, x) \in q.active /\ q.time[Place(q, x)] > x)
  <2>1. CASE k = n + 1
    BY <1>2, <2>1 DEF Nth
  <2>2. CASE k # n + 1
    <3>1. k \in 1 .. n /\ e[k] \in Links /\ Place(q, x) = e[k]
      BY <1>1, <1>2, <2>2 DEF Nth
    <3>2. e[k] \in q.active /\ q.time[e[k]] > x
      BY <1>1, <1>2, <3>1 DEF RingOf, Fits
    <3>3. QED
      BY <3>1, <3>2
  <2>3. QED
    BY <2>1, <2>2
<1>5. Place(q, x) \in Links /\ Place(q, x) # t
  BY <1>4, QNotTimer DEF Queues
<1>6. IsLinked(q, t, Place(q, x), x, c, r)
  BY <1>5, LinkedQueue
<1> HIDE DEF r
<1>7. Ring(r)
  BY <1>3 DEF Ring
<1>8. r.next[t] = Place(q, x)
  <2>1. t \in Links /\ q.next \in [Links -> Links] /\ q.prev[Place(q, x)] # t
    <3>1. q.prev \in [Links -> Links] /\ q.next \in [Links -> Links] /\ t \in Links /\ t # Q
      BY QNotTimer DEF Queues
    <3>2. k - 1 \in 0 .. n /\ (k - 1) + 1 = k
      BY <1>1
    <3>3. q.prev[Place(q, x)] = e[k - 1]
      BY <1>1, <1>2, <3>2 DEF RingOf
    <3>4. e[k - 1] = Q \/ e[k - 1] \in q.active
      <4>1. CASE k - 1 = 0
        BY <1>1, <4>1 DEF RingOf
      <4>2. CASE k - 1 # 0
        <5>1. k - 1 \in 1 .. n /\ e[k - 1] \in Links
          BY <1>1, <3>2, <4>2
        <5>2. QED
          BY <1>1, <5>1 DEF RingOf
      <4>3. QED
        BY <4>1, <4>2
    <3>5. QED
      BY <3>1, <3>3, <3>4
  <2>2. QED
    BY <1>6, <2>1 DEF IsLinked
<1>9. Inserted(q, t, x, c, r)
  BY <1>4, <1>5, <1>6, <1>7, <1>8 DEF Inserted, IsLinked
<1>10. QED
  BY <1>9 DEF r

LEMMA InsertInserts ==
  ASSUME NEW q \in Queues, Ring(q), NEW t \in Timers, NEW x \in Nat, NEW c \in Nat
  PROVE  Inserted(q, t, x, c, Insert(q, t, x, c))
<1> DEFINE o == Out(q, t)
<1>1. /\ o \in Queues /\ Ring(o) /\ o.active = q.active \ {t}
      /\ o.time = q.time /\ o.lcount = q.lcount
  <2>1. CASE t \in q.active
    BY <2>1, UnlinkRemoves DEF Out, Removed
  <2>2. CASE t \notin q.active
    BY <2>2 DEF Out
  <2>3. QED
    BY <2>1, <2>2
<1>2. Insert(q, t, x, c) = Linked(o, t, Place(o, x), x, c)
  BY DEF Insert, Linked
<1> HIDE DEF o
<1>3. Inserted(o, t, x, c, Insert(q, t, x, c))
  BY <1>1, <1>2, LinkInserts
<1>4. QED
  BY <1>1, <1>3 DEF Inserted

\* The chain of links from timerQ on.
Chain(n, f) == [i \in 0 .. n + 1 |-> IF i = 0 THEN Q ELSE next[f[i - 1]]]

SortedBy(n, f) ==
  /\ {f[i] : i \in 1 .. n} = active /\ f[n + 1] = Q
  /\ \A p \in active \cup {Q} : prev[next[p]] = p
  /\ \A i \in 1 .. n - 1 : time[f[i]] <= time[f[i + 1]]

LEMMA ChainIsRing ==
  ASSUME NEW n, NEW e, RingOf(Queue, n, e), NEW f, f = Chain(n, f)
  PROVE  \A i \in 0 .. n + 1 : f[i] = Nth(n, e, i)
<1>1. n \in Nat /\ e[0] = Q
  BY DEF RingOf
<1>2. f[0] = Q /\ \A i \in 0 .. n : f[i + 1] = next[f[i]]
  <2> DEFINE c == Chain(n, f)
  <2>1. c[0] = Q
    BY <1>1 DEF Chain
  <2>2. ASSUME NEW i \in 0 .. n PROVE c[i + 1] = next[f[i]]
    <3>1. i + 1 \in 0 .. n + 1 /\ i + 1 # 0 /\ (i + 1) - 1 = i
      BY <1>1
    <3>2. QED
      BY <3>1 DEF Chain
  <2>3. c = f
    OBVIOUS
  <2> HIDE DEF c
  <2>4. QED
    BY <2>1, <2>2, <2>3
<1>3. \A i \in 0 .. n : next[e[i]] = Nth(n, e, i + 1)
  BY DEF RingOf, Queue
<1> DEFINE S == {i \in Nat : i <= n + 1 => f[i] = Nth(n, e, i)}
<1>4. 0 \in S
  BY <1>1, <1>2 DEF Nth
<1>5. ASSUME NEW i \in Nat, i \in S PROVE i + 1 \in S
  <2> SUFFICES ASSUME i + 1 <= n + 1 PROVE f[i + 1] = Nth(n, e, i + 1)
    OBVIOUS
  <2>1. i \in 0 .. n /\ i <= n + 1 /\ i # n + 1
    BY <1>1
  <2>2. f[i] = e[i]
    BY <1>5, <2>1 DEF Nth
  <2>3. QED
    BY <1>2, <1>3, <2>1, <2>2
<1>6. Nat \subseteq S
  <2> HIDE DEF S
  <2>1. QED BY <1>4, <1>5, NatInd
<1>7. QED
  BY <1>1, <1>6

LEMMA RingIsSorted ==
  ASSUME Queue \in Queues, Ring(Queue)
  PROVE  QueueIsSorted
<1>0. Queue.next = next /\ Queue.prev = prev /\ Queue.active = active /\ Queue.time = time
  BY DEF Queue
<1>1. PICK n, e : RingOf(Queue, n, e)
  BY DEF Ring
<1>2. n \in Nat /\ e \in [0 .. n -> Links] /\ active \subseteq Timers
  BY <1>0, <1>1 DEF RingOf, Queues
<1>3. active = {e[i] : i \in 1 .. n}
  <2>1. \A t \in Links : t \in active <=> \E i \in 1 .. n : e[i] = t
    BY <1>0, <1>1 DEF RingOf
  <2>2. \A i \in 1 .. n : e[i] \in Links
    BY <1>2
  <2>3. QED
    BY <1>2, <2>1, <2>2, QNotTimer
<1>4. Cardinality(active) = n
  <2> DEFINE b == [i \in 1 .. n |-> e[i]]
  <2>1. \A i, j \in 1 .. n : b[i] = b[j] => i = j
    BY <1>1, <1>2 DEF RingOf
  <2>2. b \in [1 .. n -> active] /\ \A t \in active : \E i \in 1 .. n : b[i] = t
    BY <1>3
  <2> HIDE DEF b
  <2>3. b \in Bijection(1 .. n, active)
    BY <2>1, <2>2 DEF Bijection, Injection, Surjection, IsInjective
  <2>4. ExistsBijection(1 .. n, active)
    BY <2>3 DEF ExistsBijection
  <2>5. IsFiniteSet(1 .. n) /\ Cardinality(1 .. n) = n
    BY <1>2, FS_Interval
  <2>6. QED
    BY <2>4, <2>5, FS_Bijection
<1>5. \E f : f = Chain(n, f)
  <2> DEFINE f == [i \in 0 .. n + 1 |-> Nth(n, e, i)]
  <2>1. ASSUME NEW i \in 0 .. n + 1 PROVE f[i] = IF i = 0 THEN Q ELSE next[f[i - 1]]
    <3>1. CASE i = 0
      BY <1>1, <1>2, <3>1 DEF Nth, RingOf
    <3>2. CASE i # 0
      <4>1. i - 1 \in 0 .. n /\ i - 1 \in 0 .. n + 1 /\ i - 1 # n + 1 /\ (i - 1) + 1 = i
        BY <1>2, <3>2
      <4>2. next[e[i - 1]] = Nth(n, e, i)
        BY <1>0, <1>1, <4>1 DEF RingOf
      <4>3. QED
        BY <3>2, <4>1, <4>2 DEF Nth
    <3>3. QED
      BY <3>1, <3>2
  <2>2. f = [i \in 0 .. n + 1 |-> f[i]]
    OBVIOUS
  <2> HIDE DEF f
  <2>3. f = Chain(n, f)
    BY <2>1, <2>2 DEF Chain
  <2>4. QED
    BY <2>3
<1>6. ASSUME NEW f, f = Chain(n, f) PROVE SortedBy(n, f)
  <2>1. \A i \in 0 .. n + 1 : f[i] = Nth(n, e, i)
    BY <1>1, <1>6, ChainIsRing
  <2>2. \A i \in 1 .. n : f[i] = e[i]
    BY <1>2, <2>1 DEF Nth
  <2>3. f[n + 1] = Q
    BY <1>2, <2>1 DEF Nth
  <2>4. \A p \in active \cup {Q} : prev[next[p]] = p
    BY <1>0, RingLinks
  <2>5. ASSUME NEW i \in 1 .. n - 1 PROVE time[f[i]] <= time[f[i + 1]]
    <3>1. i \in 1 .. n /\ i + 1 \in 1 .. n /\ i <= i + 1
      BY <1>2
    <3>2. time[e[i]] <= time[e[i + 1]]
      BY <1>0, <1>1, <3>1 DEF RingOf
    <3>3. QED
      BY <2>2, <3>1, <3>2
  <2>6. QED
    BY <1>3, <2>2, <2>3, <2>4, <2>5 DEF SortedBy
<1>7. PICK f : f = Chain(n, f) /\ f = CHOOSE g : g = Chain(n, g)
  BY <1>5
<1>8. SortedBy(n, CHOOSE g : g = Chain(n, g))
  BY <1>6, <1>7
<1>9. QED
  BY <1>4, <1>8 DEF QueueIsSorted, SortedBy, Chain

-----------------------------------------------------------------------------
(* Counts and times                                                          *)

LEMMA Widths ==
  /\ Wrap \in Nat /\ Wrap > 0 /\ Mult \in Nat /\ Mult > 0 /\ TickTime \in Nat /\ TickTime > 0
  /\ FuncTime \in Nat /\ FuncTime > 0 /\ FirstTime \in Nat /\ FirstTime > 0
  /\ Margin \in Nat /\ Margin > 0
  /\ Start \in Nat /\ Latency \in Nat /\ Spend \in Nat /\ Pause \in Nat /\ Horizon \in Nat
  /\ Spend < Margin /\ Spend <= Pause /\ TickTime <= FirstTime
BY TimerQueueAssumption

LEMMA DivMod ==
  ASSUME NEW m \in Nat, m > 0, NEW x \in Int
  PROVE  x \div m \in Int /\ x % m \in 0 .. m - 1 /\ x = m * (x \div m) + (x % m)
OBVIOUS

LEMMA ModIsRest ==
  ASSUME NEW m \in Nat, m > 0, NEW k \in Int, NEW c \in 0 .. m - 1
  PROVE  (m * k + c) % m = c
OBVIOUS

LEMMA Multiples ==
  ASSUME NEW m \in Nat, m > 0, NEW p \in Int, NEW q \in Int
  PROVE  /\ m * p \in Int /\ m * q \in Int
         /\ p >= q => m * p >= m * q
         /\ p >= q + 1 => m * p >= m * q + m
         /\ m * (q + 1) = m * q + m /\ m * (p + q) = m * p + m * q
         /\ m * (p - q) = m * p - m * q
         /\ p * m = m * p
OBVIOUS

\* Extend gives COUNT when less than a wrap went by since base.
LEMMA ExtendIsNow ==
  ASSUME NEW base \in Int, NEW x \in Int, base <= x
  PROVE  /\ Extend(base, x % Wrap) \in Int
         /\ base <= Extend(base, x % Wrap) /\ Extend(base, x % Wrap) <= x
         /\ x < base + Wrap => Extend(base, x % Wrap) = x
<1> DEFINE b == base \div Wrap
           p == x \div Wrap
<1>1. /\ b \in Int /\ base % Wrap \in 0 .. Wrap - 1 /\ base = Wrap * b + (base % Wrap)
      /\ p \in Int /\ x % Wrap \in 0 .. Wrap - 1 /\ x = Wrap * p + (x % Wrap)
  BY Widths, DivMod
<1> HIDE DEF b, p
<1>2. /\ Wrap * b \in Int /\ Wrap * p \in Int
      /\ p >= b => Wrap * p >= Wrap * b
      /\ p >= b + 1 => Wrap * p >= Wrap * b + Wrap
      /\ p >= (b + 1) + 1 => Wrap * p >= Wrap * (b + 1) + Wrap
      /\ b >= p + 1 => Wrap * b >= Wrap * p + Wrap
      /\ Wrap * (b + 1) = Wrap * b + Wrap
  BY <1>1, Widths, Multiples
<1>3. Extend(base, x % Wrap)
        = IF x % Wrap >= base % Wrap THEN Wrap * b + (x % Wrap) ELSE Wrap * b + Wrap + (x % Wrap)
  BY <1>1, <1>2, Widths DEF Extend
<1>4. p >= b
  BY <1>1, <1>2, Widths
<1>5. p = b => x % Wrap >= base % Wrap
  BY <1>1, <1>2, Widths
<1>6. CASE p = b
  BY <1>1, <1>2, <1>3, <1>5, <1>6, Widths
<1>7. CASE p = b + 1
  BY <1>1, <1>2, <1>3, <1>7, Widths
<1>8. CASE p >= (b + 1) + 1
  BY <1>1, <1>2, <1>3, <1>8, Widths
<1>9. QED
  BY <1>1, <1>4, <1>6, <1>7, <1>8

\* Counts from k to the next that COMPARE c matches.
To(c, k) == 1 + ((c - k - 1) % Wrap)

LEMMA MatchComes ==
  ASSUME NEW c \in 0 .. Wrap - 1, NEW k \in Int
  PROVE  /\ To(c, k) \in Nat /\ To(c, k) >= 1
         /\ (k + 1) % Wrap # c => To(c, k) >= 2 /\ To(c, k + 1) = To(c, k) - 1
<1> DEFINE x == c - k - 1
           d == x \div Wrap
           r == x % Wrap
<1>1. x \in Int /\ d \in Int /\ r \in 0 .. Wrap - 1 /\ x = Wrap * d + r
  <2>1. x \in Int
    BY Widths
  <2> HIDE DEF x
  <2>2. QED
    BY <2>1, Widths, DivMod
<1>2. To(c, k) = 1 + r
  BY DEF To
<1>3. To(c, k + 1) = 1 + ((x - 1) % Wrap)
  <2>1. c - (k + 1) - 1 = x - 1
    BY Widths
  <2> HIDE DEF x
  <2>2. QED
    BY <2>1 DEF To
<1>4. x = c - k - 1
  OBVIOUS
<1> HIDE DEF x, d, r
<1>5. ASSUME (k + 1) % Wrap # c PROVE r # 0
  <2> SUFFICES ASSUME r = 0 PROVE FALSE
    OBVIOUS
  <2>1. Wrap * d \in Int /\ Wrap * (0 - d) \in Int /\ Wrap * (0 - d) = Wrap * 0 - Wrap * d /\ Wrap * 0 = 0
    BY <1>1, Widths, Multiples
  <2>2. k + 1 = Wrap * (0 - d) + c
    BY <1>1, <1>4, <2>1, Widths
  <2>3. (Wrap * (0 - d) + c) % Wrap = c
    BY <1>1, Widths, ModIsRest
  <2>4. QED
    BY <1>5, <2>2, <2>3
<1>6. ASSUME r # 0 PROVE (x - 1) % Wrap = r - 1
  <2>1. r - 1 \in 0 .. Wrap - 1 /\ Wrap * d \in Int
    BY <1>1, <1>6, Widths, Multiples
  <2>2. x - 1 = Wrap * d + (r - 1)
    BY <1>1, <2>1
  <2>3. (Wrap * d + (r - 1)) % Wrap = r - 1
    BY <1>1, <2>1, Widths, ModIsRest
  <2>4. QED
    BY <2>2, <2>3
<1>7. QED
  BY <1>1, <1>2, <1>3, <1>5, <1>6, Widths

LEMMA MatchBy ==
  ASSUME NEW a \in Int, NEW k \in Int, k < a
  PROVE  a % Wrap \in 0 .. Wrap - 1 /\ To(a % Wrap, k) <= a - k
<1> DEFINE r == a % Wrap
           d == a \div Wrap
           y == a - k - 1
           e == y \div Wrap
<1>1. y \in Nat
  OBVIOUS
<1>2. r \in 0 .. Wrap - 1 /\ d \in Int /\ a = Wrap * d + r
  BY Widths, DivMod
<1>3. y = a - k - 1
  OBVIOUS
<1> HIDE DEF r, d, y
<1>4. y % Wrap \in 0 .. Wrap - 1 /\ e \in Int /\ y = Wrap * e + (y % Wrap)
  BY <1>1, Widths, DivMod
<1> HIDE DEF e
<1>5. /\ Wrap * e \in Int /\ Wrap * d \in Int /\ Wrap * (e - d) = Wrap * e - Wrap * d
      /\ e >= 0 => Wrap * e >= Wrap * 0
      /\ 0 >= e + 1 => Wrap * 0 >= Wrap * e + Wrap
      /\ Wrap * 0 = 0
  BY <1>2, <1>4, Widths, Multiples
<1>6. e >= 0 /\ y % Wrap <= y
  BY <1>1, <1>4, <1>5, Widths
<1>7. r - k - 1 = Wrap * (e - d) + (y % Wrap)
  BY <1>2, <1>3, <1>4, <1>5, Widths
<1>8. (Wrap * (e - d) + (y % Wrap)) % Wrap = y % Wrap
  <2> DEFINE s == y % Wrap
             u == e - d
  <2>1. s \in 0 .. Wrap - 1 /\ u \in Int
    BY <1>2, <1>4
  <2> HIDE DEF s, u
  <2>2. (Wrap * u + s) % Wrap = s
    BY <2>1, Widths, ModIsRest
  <2>3. QED
    BY <2>2 DEF s, u
<1>9. To(r, k) = 1 + (y % Wrap)
  BY <1>7, <1>8 DEF To
<1>10. QED
  BY <1>2, <1>3, <1>4, <1>6, <1>9, Widths DEF r

LEMMA TimesDiffer ==
  ASSUME NEW a \in Int, NEW b \in Int
  PROVE  /\ TimeOf(a) \in Int /\ TimeOf(b) \in Int
         /\ a <= b <=> TimeOf(a) <= TimeOf(b)
         /\ a < b <=> TimeOf(a) < TimeOf(b)
         /\ a < b => TimeOf(a) + Mult <= TimeOf(b)
         /\ TimeOf(b) = TimeOf(a) + (b - a) * Mult
         /\ TimeOf(Start) = 0
<1>1. /\ Mult * a \in Int /\ Mult * b \in Int /\ Mult * Start \in Int
      /\ a >= b => Mult * a >= Mult * b
      /\ b >= a => Mult * b >= Mult * a
      /\ b >= a + 1 => Mult * b >= Mult * a + Mult
      /\ a >= b + 1 => Mult * a >= Mult * b + Mult
      /\ Mult * (b - a) = Mult * b - Mult * a
      /\ a * Mult = Mult * a /\ b * Mult = Mult * b /\ (b - a) * Mult = Mult * (b - a)
      /\ Start * Mult = Mult * Start
  BY Widths, Multiples
<1>2. TimeOf(a) = Mult * a - Mult * Start /\ TimeOf(b) = Mult * b - Mult * Start
      /\ TimeOf(Start) = Mult * Start - Mult * Start
  BY <1>1 DEF TimeOf, InitialWallTime
<1>3. QED
  BY <1>1, <1>2, Widths

LEMMA TimesGrow ==
  ASSUME NEW a \in Int, NEW b \in Int
  PROVE  /\ TimeOf(a) \in Int /\ TimeOf(b) \in Int
         /\ a <= b <=> TimeOf(a) <= TimeOf(b)
         /\ a < b <=> TimeOf(a) < TimeOf(b)
         /\ a < b => TimeOf(a) + Mult <= TimeOf(b)
         /\ TimeOf(Start) = 0
BY TimesDiffer

LEMMA CountIsFirst ==
  ASSUME NEW x \in Nat
  PROVE  /\ CountOf(x) \in Nat
         /\ TimeOf(CountOf(x)) >= x /\ TimeOf(CountOf(x) - 1) < x
<1> DEFINE y == x + InitialWallTime + Mult - 1
           c == y \div Mult
           r == y % Mult
<1>1. InitialWallTime \in Nat
  BY Widths DEF InitialWallTime
<1>2. y \in Nat /\ y = x + InitialWallTime + Mult - 1
  BY <1>1, Widths
<1>3. CountOf(x) = c
  BY DEF CountOf
<1> HIDE DEF y
<1>4. c \in Int /\ r \in 0 .. Mult - 1 /\ y = Mult * c + r
  <2>1. y \in Int /\ Mult \in Nat /\ Mult > 0
    BY <1>2, Widths
  <2>2. QED
    BY <2>1, DivMod
<1> HIDE DEF c, r
<1>5. /\ Mult * c \in Int /\ c * Mult = Mult * c /\ (c - 1) * Mult = Mult * (c - 1)
      /\ Mult * (c - 1) = Mult * c - Mult
      /\ 0 >= c + 1 => Mult * 0 >= Mult * c + Mult
      /\ Mult * 0 = 0
  <2>1. Mult * (c - 1) = Mult * c - Mult * 1 /\ Mult * 1 = Mult
    BY <1>4, Widths, Multiples
  <2>2. QED
    BY <1>4, <2>1, Widths, Multiples
<1>6. c \in Nat
  BY <1>2, <1>4, <1>5, Widths
<1>7. TimeOf(c) = Mult * c - InitialWallTime /\ TimeOf(c - 1) = Mult * c - Mult - InitialWallTime
  BY <1>5 DEF TimeOf
<1>8. QED
  BY <1>1, <1>2, <1>3, <1>4, <1>5, <1>6, <1>7, Widths

-----------------------------------------------------------------------------
(* The invariant                                                             *)

Numbers ==
  /\ current_wall_time \in Nat /\ current_lcount \in Nat /\ count \in Nat
  /\ compare \in 0 .. Wrap - 1 /\ armed \in 0 .. Wrap - 1
  /\ irq \in BOOLEAN
  /\ pc \in {"idle", "request", "pass", "arm"} /\ then \in {"idle", "pass"}
  /\ late \in 0 .. Latency /\ since \in 0 .. Pause

IsRing == Queue \in Queues /\ Ring(Queue)

\* The wall time is that of current_lcount, and the tick is due soon after.
Clock ==
  /\ current_wall_time = TimeOf(current_lcount)
  /\ Start <= current_lcount /\ current_lcount <= count
  /\ Tick \in active /\ time[Tick] <= current_wall_time + 1 + TickTime

\* A queued timer's count is the first at which its time has come.
Dates ==
  /\ \A t \in active : TimeOf(lcount[t]) >= time[t] /\ TimeOf(lcount[t] - 1) < time[t]
  /\ lcount[Func] = 0 <=> Func \notin active

Serving == pc = "pass" \/ (pc = "arm" /\ then = "pass")

\* time_irq is at the head of the queue, or at its end for now.
Loop ==
  /\ at \in Links
  /\ Serving => at \in active \cup {Q} /\ (at = next[Q] \/ ~Due(at))

Inv == Numbers /\ IsRing /\ Clock /\ Dates /\ Loop

LEMMA QueueFields ==
  ASSUME IsRing
  PROVE  /\ next \in [Links -> Links] /\ prev \in [Links -> Links] /\ active \subseteq Timers
         /\ time \in [Timers -> Nat] /\ lcount \in [Timers -> Nat]
         /\ next[Q] \in active \cup {Q}
         /\ \A t \in active : next[Q] \in active /\ time[next[Q]] <= time[t]
         /\ \A t \in active \cup {Q} : next[t] \in active \cup {Q}
<1>1. /\ Queue.next = next /\ Queue.prev = prev /\ Queue.active = active
      /\ Queue.time = time /\ Queue.lcount = lcount
  BY DEF Queue
<1>2. /\ next \in [Links -> Links] /\ prev \in [Links -> Links] /\ active \subseteq Timers
      /\ time \in [Timers -> Nat] /\ lcount \in [Timers -> Nat]
  BY <1>1 DEF IsRing, Queues
<1>3. QED
  BY <1>1, <1>2, RingLinks DEF IsRing

LEMMA QueueFieldsNext ==
  ASSUME IsRing'
  PROVE  /\ active' \subseteq Timers /\ next' \in [Links -> Links]
         /\ time' \in [Timers -> Nat] /\ lcount' \in [Timers -> Nat]
         /\ next'[Q] \in active' \cup {Q}
         /\ \A t \in active' : next'[Q] \in active' /\ time'[next'[Q]] <= time'[t]
<1>1. /\ Queue'.next = next' /\ Queue'.active = active'
      /\ Queue'.time = time' /\ Queue'.lcount = lcount'
  BY DEF Queue
<1>2. Queue' \in Queues /\ Ring(Queue')
  BY DEF IsRing
<1>3. /\ next' \in [Links -> Links] /\ active' \subseteq Timers
      /\ time' \in [Timers -> Nat] /\ lcount' \in [Timers -> Nat]
  BY <1>1, <1>2 DEF Queues
<1>4. /\ Queue'.next[Q] \in Queue'.active \cup {Q}
      /\ \A t \in Queue'.active : Queue'.next[Q] \in Queue'.active
                                 /\ Queue'.time[Queue'.next[Q]] <= Queue'.time[t]
  BY <1>2, RingLinks
<1>5. QED
  BY <1>1, <1>3, <1>4

LEMMA Becomes ==
  ASSUME NEW q \in Queues, Become(q)
  PROVE  Queue' = q
BY DEF Become, Queue, Queues

\* Timer t is queued once, due at x, which is count c.
Put(t, x, c) ==
  /\ t \in Timers /\ x \in Nat /\ c \in Nat
  /\ IsRing'
  /\ active' = active \cup {t}
  /\ time' = [time EXCEPT ![t] = x] /\ lcount' = [lcount EXCEPT ![t] = c]
  /\ next'[t] = Q \/ (next'[t] \in active \ {t} /\ time[next'[t]] > x)

\* Timer t is taken out.
Taken(t) ==
  /\ IsRing'
  /\ active' = active \ {t} /\ time' = time /\ lcount' = lcount
  /\ next[Q] = t => next[t] = next'[Q]

LEMMA InsertPuts ==
  ASSUME IsRing, NEW t \in Timers, NEW x \in Nat, NEW c \in Nat, Become(Insert(Queue, t, x, c))
  PROVE  Put(t, x, c)
<1>1. Inserted(Queue, t, x, c, Insert(Queue, t, x, c))
  BY InsertInserts DEF IsRing
<1>2. Queue' = Insert(Queue, t, x, c)
  BY <1>1, Becomes DEF Inserted
<1>3. Inserted(Queue, t, x, c, Queue')
  BY <1>1, <1>2
<1>4. /\ Queue.active = active /\ Queue.time = time /\ Queue.lcount = lcount
      /\ Queue'.active = active' /\ Queue'.time = time' /\ Queue'.lcount = lcount'
      /\ Queue'.next = next'
  BY DEF Queue
<1>5. QED
  BY <1>3, <1>4 DEF Inserted, Put, IsRing

LEMMA UnlinkTakes ==
  ASSUME IsRing, NEW t \in active, Become(Unlink(Queue, t))
  PROVE  Taken(t)
<1>0. /\ Queue.active = active /\ Queue.time = time /\ Queue.lcount = lcount /\ Queue.next = next
      /\ Queue'.active = active' /\ Queue'.time = time' /\ Queue'.lcount = lcount'
      /\ Queue'.next = next'
  BY DEF Queue
<1>1. Removed(Queue, t, Unlink(Queue, t))
  BY <1>0, UnlinkRemoves DEF IsRing
<1>2. Queue' = Unlink(Queue, t)
  BY <1>1, Becomes DEF Removed
<1>3. Removed(Queue, t, Queue')
  BY <1>1, <1>2
<1>4. QED
  BY <1>0, <1>3 DEF Removed, Taken, IsRing

LEMMA PutBackPuts ==
  ASSUME IsRing, NEW t \in active, NEW x \in Nat, NEW c \in Nat,
         Become(Insert(Unlink(Queue, t), t, x, c))
  PROVE  Put(t, x, c)
<1> DEFINE o == Unlink(Queue, t)
<1>0. /\ Queue.active = active /\ Queue.time = time /\ Queue.lcount = lcount /\ Queue.next = next
      /\ Queue'.active = active' /\ Queue'.time = time' /\ Queue'.lcount = lcount'
      /\ Queue'.next = next'
  BY DEF Queue
<1>1. t \in Timers /\ active \subseteq Timers
  BY QueueFields
<1>2. Removed(Queue, t, o)
  BY <1>0, UnlinkRemoves DEF IsRing
<1> HIDE DEF o
<1>3. Inserted(o, t, x, c, Insert(o, t, x, c))
  BY <1>1, <1>2, InsertInserts DEF Removed
<1>4. Queue' = Insert(o, t, x, c)
  BY <1>3, Becomes DEF Inserted, o
<1>5. Inserted(o, t, x, c, Queue')
  BY <1>3, <1>4
<1>6. o.active = active \ {t} /\ o.time = time /\ o.lcount = lcount
  BY <1>0, <1>2 DEF Removed
<1>7. QED
  BY <1>0, <1>1, <1>5, <1>6 DEF Inserted, Put, IsRing

LEMMA NowIsBetween ==
  ASSUME Numbers, Clock
  PROVE  /\ time_get_lcount \in Nat /\ current_lcount <= time_get_lcount
         /\ time_get_lcount <= count
         /\ count < current_lcount + Wrap => time_get_lcount = count
<1>1. current_lcount \in Nat /\ current_lcount \in Int /\ count \in Int /\ current_lcount <= count
  BY DEF Numbers, Clock
<1> DEFINE n == Extend(current_lcount, count % Wrap)
<1>2. /\ n \in Int /\ current_lcount <= n /\ n <= count
      /\ count < current_lcount + Wrap => n = count
  BY <1>1, ExtendIsNow
<1>3. time_get_lcount = n
  BY DEF time_get_lcount
<1> HIDE DEF n
<1>4. QED
  BY <1>1, <1>2, <1>3

\* The wall time after a step that may bring it up to date.
Updated ==
  /\ current_lcount' \in {current_lcount, time_get_lcount}
  /\ current_lcount' \in Nat /\ current_wall_time' \in Nat
  /\ current_lcount <= current_lcount' /\ current_lcount' <= count
  /\ current_wall_time' = TimeOf(current_lcount')
  /\ current_wall_time <= current_wall_time'

LEMMA WallTimeUpdated ==
  ASSUME Numbers, Clock, UpdateWallTime \/ UNCHANGED wall
  PROVE  Updated /\ (UpdateWallTime => current_lcount' = time_get_lcount)
<1>1. CASE UNCHANGED wall
  BY <1>1, NowIsBetween DEF Numbers, Clock, wall, Updated, UpdateWallTime
<1>2. CASE UpdateWallTime
  <2> DEFINE n == time_get_lcount
  <2>1. n \in Nat /\ current_lcount <= n /\ n <= count /\ current_lcount' = n
        /\ current_wall_time' = current_wall_time + (n - current_lcount) * Mult
    BY <1>2, NowIsBetween DEF UpdateWallTime
  <2>2. n = time_get_lcount
    OBVIOUS
  <2> HIDE DEF n
  <2>3. /\ TimeOf(n) \in Int /\ TimeOf(n) = TimeOf(current_lcount) + (n - current_lcount) * Mult
        /\ TimeOf(current_lcount) <= TimeOf(n) /\ TimeOf(Start) <= TimeOf(n) /\ TimeOf(Start) = 0
    <3>1. n \in Int /\ current_lcount \in Int /\ Start \in Int /\ Start <= n
      BY <2>1, Widths DEF Numbers, Clock
    <3>2. /\ TimeOf(n) \in Int /\ TimeOf(n) = TimeOf(current_lcount) + (n - current_lcount) * Mult
          /\ TimeOf(current_lcount) <= TimeOf(n)
      BY <2>1, <3>1, TimesGrow, TimesDiffer
    <3>3. TimeOf(Start) <= TimeOf(n) /\ TimeOf(Start) = 0
      BY <3>1, TimesGrow
    <3>4. QED
      BY <3>2, <3>3
  <2>4. QED
    BY <2>1, <2>2, <2>3 DEF Updated, Clock, Numbers
<1>3. QED
  BY <1>1, <1>2

LEMMA NextTickIsNext ==
  ASSUME Numbers, Clock, time[Tick] \in Nat, Due(Tick)
  PROVE  /\ NextTick \in Nat /\ current_wall_time + 1 < NextTick
         /\ NextTick <= current_wall_time + 1 + TickTime
<1> DEFINE y == current_wall_time + 1 - time[Tick]
           d == y \div TickTime
           r == y % TickTime
<1>1. y \in Nat /\ y >= 1 /\ y = current_wall_time + 1 - time[Tick]
  BY DEF Due, Numbers
<1>2. NextTick = time[Tick] + TickTime * (1 + d)
  BY DEF NextTick
<1> HIDE DEF y
<1>3. d \in Int /\ r \in 0 .. TickTime - 1 /\ y = TickTime * d + r
  <2>1. y \in Int /\ TickTime \in Nat /\ TickTime > 0
    BY <1>1, Widths
  <2>2. QED
    BY <2>1, DivMod
<1> HIDE DEF d, r
<1>4. TickTime * d \in Int /\ TickTime * (d + 1) = TickTime * d + TickTime /\ d + 1 = 1 + d
  BY <1>3, Widths, Multiples
<1>5. NextTick = time[Tick] + TickTime * d + TickTime
  BY <1>2, <1>4, Widths DEF Numbers
<1>6. QED
  BY <1>1, <1>3, <1>4, <1>5, Widths DEF Numbers

LEMMA ArmsWithin ==
  ASSUME Numbers, Clock, NEW q, NEW n \in Nat, NEW back \in {"idle", "pass"},
         q.lcount[q.next[Q]] \in Int, Arm(q, n, back)
  PROVE  armed' \in 0 .. Wrap - 1 /\ pc' = "arm" /\ then' = back /\ since' = 0
<1>1. Soon(q.lcount[q.next[Q]], n) \in Int
  BY Widths DEF Soon
<1>2. QED
  BY <1>1, DivMod, Widths DEF Arm

-----------------------------------------------------------------------------
(* What the actions on the queue do                                          *)

LEMMA Names ==
  /\ Tick \in Timers /\ Func \in Timers /\ Guests \subseteq Timers
  /\ Tick # Func /\ Tick \notin Guests /\ Func \notin Guests
  /\ Delays \subseteq Nat
BY TimerQueueAssumption DEF Timers

LEMMA GuestTimerFacts ==
  ASSUME Inv, NEW g \in Guests, NEW d \in Delays, GuestTimer(g, d)
  PROVE  /\ Put(g, TimeOf(time_get_lcount + d), time_get_lcount + d)
         /\ Updated /\ current_lcount' = time_get_lcount
         /\ pc = "request" /\ UNCHANGED <<count, compare, irq, at, late>>
         /\ armed' = Soon(lcount'[next'[Q]], time_get_lcount) % Wrap
         /\ pc' = "arm" /\ then' = "idle" /\ since' = 0
<1> DEFINE c == time_get_lcount + d
           q == Insert(Queue, g, TimeOf(c), c)
<1>1. Updated /\ current_lcount' = time_get_lcount
  BY WallTimeUpdated DEF GuestTimer, Inv
<1>2. time_get_lcount \in Nat /\ d \in Nat /\ g \in Timers /\ Start <= time_get_lcount
  BY NowIsBetween, Names, Widths DEF Inv, Clock, Numbers
<1>3. c \in Nat /\ Start <= c
  BY <1>2, Widths
<1>4. Become(q) /\ Arm(q, time_get_lcount, "idle") /\ pc = "request"
      /\ UNCHANGED <<count, compare, irq, at, late>>
  BY DEF GuestTimer
<1> HIDE DEF c
<1>5. TimeOf(c) \in Nat
  <2>1. c \in Int /\ Start \in Int
    BY <1>3, Widths
  <2>2. TimeOf(c) \in Int /\ TimeOf(Start) <= TimeOf(c) /\ TimeOf(Start) = 0
    BY <1>3, <2>1, TimesGrow
  <2>3. QED
    BY <2>2
<1>6. Put(g, TimeOf(c), c)
  BY <1>2, <1>3, <1>4, <1>5, InsertPuts DEF Inv
<1>7. q.lcount = lcount' /\ q.next = next'
  BY <1>4 DEF Become
<1>8. armed' = Soon(lcount'[next'[Q]], time_get_lcount) % Wrap
      /\ pc' = "arm" /\ then' = "idle" /\ since' = 0
  BY <1>4, <1>7 DEF Arm
<1>9. QED
  BY <1>1, <1>4, <1>6, <1>8 DEF c

LEMMA FuncRequestFacts ==
  ASSUME Inv, FuncRequest
  PROVE  /\ Put(Func, current_wall_time' + FirstTime, CountOf(current_wall_time' + FirstTime))
         /\ Updated /\ lcount[Func] = 0
         /\ pc = "request" /\ UNCHANGED <<count, compare, irq, at, late>>
         /\ armed' = Soon(lcount'[next'[Q]], time_get_lcount) % Wrap
         /\ pc' = "arm" /\ then' = "idle" /\ since' = 0
<1> DEFINE x == current_wall_time' + FirstTime
           q == Insert(Queue, Func, x, CountOf(x))
<1>1. Updated /\ lcount[Func] = 0
  BY WallTimeUpdated DEF FuncRequest, Inv
<1>2. x \in Nat
  BY <1>1, Widths DEF Updated
<1>3. Become(q) /\ Arm(q, time_get_lcount, "idle") /\ pc = "request"
      /\ UNCHANGED <<count, compare, irq, at, late>>
  BY DEF FuncRequest
<1> HIDE DEF x
<1>4. Put(Func, x, CountOf(x))
  BY <1>2, <1>3, CountIsFirst, InsertPuts, Names DEF Inv
<1>5. q.lcount = lcount' /\ q.next = next'
  BY <1>3 DEF Become
<1>6. armed' = Soon(lcount'[next'[Q]], time_get_lcount) % Wrap
      /\ pc' = "arm" /\ then' = "idle" /\ since' = 0
  BY <1>3, <1>5 DEF Arm
<1>7. QED
  BY <1>1, <1>3, <1>4, <1>6 DEF x

LEMMA HandleTickFacts ==
  ASSUME Inv, HandleTick
  PROVE  /\ Put(Tick, NextTick, CountOf(NextTick))
         /\ at = Tick /\ Due(Tick) /\ pc = "pass" /\ at' = next'[Tick]
         /\ current_wall_time + 1 < NextTick
         /\ NextTick <= current_wall_time + 1 + TickTime
         /\ UNCHANGED <<wall, count, compare, irq, pc, armed, then, late, since>>
<1> DEFINE q == Insert(Unlink(Queue, Tick), Tick, NextTick, CountOf(NextTick))
<1>1. Become(q) /\ at = Tick /\ Due(Tick) /\ pc = "pass" /\ at' = q.next[Tick]
      /\ UNCHANGED <<wall, count, compare, irq, pc, armed, then, late, since>>
  BY DEF HandleTick
<1>2. time[Tick] \in Nat /\ Tick \in active
  BY QueueFields, Names DEF Inv, Clock
<1>3. NextTick \in Nat /\ current_wall_time + 1 < NextTick
      /\ NextTick <= current_wall_time + 1 + TickTime
  BY <1>1, <1>2, NextTickIsNext DEF Inv
<1>4. Put(Tick, NextTick, CountOf(NextTick))
  BY <1>1, <1>2, <1>3, CountIsFirst, PutBackPuts DEF Inv
<1>5. at' = next'[Tick]
  BY <1>1 DEF Become
<1>6. QED
  BY <1>1, <1>3, <1>4, <1>5

LEMMA HandleFuncFacts ==
  ASSUME Inv, HandleFunc
  PROVE  /\ Put(Func, current_wall_time + FuncTime, CountOf(current_wall_time + FuncTime))
         /\ at = Func /\ Due(Func) /\ pc = "pass" /\ at' = next'[Func] /\ Func \in active
         /\ armed' = Soon(lcount'[next'[Q]], time_get_lcount) % Wrap
         /\ pc' = "arm" /\ then' = "pass" /\ since' = 0
         /\ UNCHANGED <<wall, count, compare, irq, late>>
<1> DEFINE x == current_wall_time + FuncTime
           q == Insert(Unlink(Queue, Func), Func, x, CountOf(x))
<1>1. Become(q) /\ at = Func /\ Due(Func) /\ pc = "pass" /\ at' = q.next[Func]
      /\ Arm(q, time_get_lcount, "pass")
      /\ UNCHANGED <<wall, count, compare, irq, late>>
  BY DEF HandleFunc
<1>2. Func \in active
  BY <1>1, Names, QNotTimer DEF Inv, Loop, Serving
<1>3. x \in Nat
  BY Widths DEF Inv, Numbers
<1> HIDE DEF x
<1>4. Put(Func, x, CountOf(x))
  BY <1>1, <1>2, <1>3, CountIsFirst, PutBackPuts DEF Inv
<1>5. q.lcount = lcount' /\ q.next = next'
  BY <1>1 DEF Become
<1>6. armed' = Soon(lcount'[next'[Q]], time_get_lcount) % Wrap
      /\ pc' = "arm" /\ then' = "pass" /\ since' = 0 /\ at' = next'[Func]
  BY <1>1, <1>5 DEF Arm
<1>7. QED
  BY <1>1, <1>2, <1>4, <1>6 DEF x

LEMMA HandleGuestFacts ==
  ASSUME Inv, HandleGuest
  PROVE  /\ at \in Guests \cap active /\ Due(at) /\ pc = "pass"
         /\ Taken(at) /\ at = next[Q] /\ at' = next'[Q]
         /\ UNCHANGED <<wall, count, compare, irq, pc, armed, then, late, since>>
<1>1. /\ pc = "pass" /\ at \in Guests /\ Due(at) /\ Become(Unlink(Queue, at)) /\ at' = next[at]
      /\ UNCHANGED <<wall, count, compare, irq, pc, armed, then, late, since>>
  BY DEF HandleGuest
<1>2. at \in active /\ at = next[Q]
  BY <1>1, Names, QNotTimer DEF Inv, Loop, Serving
<1>3. Taken(at)
  BY <1>1, <1>2, UnlinkTakes DEF Inv
<1>4. QED
  BY <1>1, <1>2, <1>3 DEF Taken

-----------------------------------------------------------------------------
(* The invariant is kept                                                     *)

LEMMA PutKeeps ==
  ASSUME Inv, NEW t, NEW x, NEW c, Put(t, x, c),
         TimeOf(c) >= x, TimeOf(c - 1) < x, t = Func => c # 0,
         current_wall_time' \in Nat, current_wall_time <= current_wall_time',
         t = Tick => x <= current_wall_time' + 1 + TickTime
  PROVE  Dates' /\ Tick \in active' /\ time'[Tick] <= current_wall_time' + 1 + TickTime
<1>1. /\ t \in Timers /\ x \in Nat /\ c \in Nat /\ active' = active \cup {t}
      /\ time' = [time EXCEPT ![t] = x] /\ lcount' = [lcount EXCEPT ![t] = c]
  BY DEF Put
<1>2. time \in [Timers -> Nat] /\ lcount \in [Timers -> Nat] /\ active \subseteq Timers
  BY QueueFields DEF Inv
<1>3. ASSUME NEW s \in active'
      PROVE  TimeOf(lcount'[s]) >= time'[s] /\ TimeOf(lcount'[s] - 1) < time'[s]
  <2>1. CASE s = t
    <3>1. lcount'[s] = c /\ time'[s] = x
      BY <1>1, <1>2, <2>1
    <3>2. QED
      BY <3>1
  <2>2. CASE s # t
    <3>1. lcount'[s] = lcount[s] /\ time'[s] = time[s] /\ s \in active
      BY <1>1, <1>2, <1>3, <2>2
    <3>2. QED
      BY <3>1 DEF Inv, Dates
  <2>3. QED
    BY <2>1, <2>2
<1>4. lcount'[Func] = 0 <=> Func \notin active'
  <2>1. CASE t = Func
    BY <1>1, <1>2, <2>1
  <2>2. CASE t # Func
    BY <1>1, <1>2, <2>2, Names DEF Inv, Dates
  <2>3. QED
    BY <2>1, <2>2
<1>5. time'[Tick] <= current_wall_time' + 1 + TickTime
  <2>1. CASE t = Tick
    BY <1>1, <1>2, <2>1
  <2>2. CASE t # Tick
    <3>1. time'[Tick] = time[Tick] /\ time[Tick] \in Nat
      BY <1>1, <1>2, <2>2, Names
    <3>2. QED
      BY <3>1, Widths DEF Inv, Clock, Numbers
  <2>3. QED
    BY <2>1, <2>2
<1>6. Tick \in active'
  BY <1>1 DEF Inv, Clock
<1>7. QED
  BY <1>3, <1>4, <1>5, <1>6 DEF Dates

LEMMA ExactDates ==
  ASSUME NEW c \in Int
  PROVE  TimeOf(c) >= TimeOf(c) /\ TimeOf(c - 1) < TimeOf(c)
<1>1. c - 1 \in Int /\ c - 1 < c
  OBVIOUS
<1>2. QED
  BY <1>1, TimesGrow

LEMMA CeilDates ==
  ASSUME NEW x \in Nat
  PROVE  /\ TimeOf(CountOf(x)) >= x /\ TimeOf(CountOf(x) - 1) < x /\ CountOf(x) \in Nat
         /\ \A a \in Int : TimeOf(a) < x => a < CountOf(x)
<1>1. CountOf(x) \in Nat /\ TimeOf(CountOf(x)) >= x /\ TimeOf(CountOf(x) - 1) < x
  BY CountIsFirst
<1>2. ASSUME NEW a \in Int, TimeOf(a) < x PROVE a < CountOf(x)
  <2>1. TimeOf(a) \in Int /\ TimeOf(CountOf(x)) \in Int /\ CountOf(x) \in Int
    BY <1>1, TimesGrow
  <2>2. TimeOf(a) < TimeOf(CountOf(x))
    BY <1>1, <1>2, <2>1
  <2>3. CountOf(x) <= a => TimeOf(CountOf(x)) <= TimeOf(a)
    BY <2>1, TimesGrow
  <2>4. QED
    BY <2>1, <2>2, <2>3
<1>3. QED
  BY <1>1, <1>2

LEMMA FuncCountIsSet ==
  ASSUME NEW w \in Nat, NEW f \in Nat, f > 0
  PROVE  CountOf(w + f) # 0
<1>1. w + f \in Nat /\ w + f > 0
  OBVIOUS
<1>2. TimeOf(0) <= 0
  <2>1. TimeOf(0) <= TimeOf(Start) /\ TimeOf(Start) = 0
    BY Widths, TimesGrow
  <2>2. QED
    BY <2>1
<1>3. TimeOf(0) \in Int
  BY TimesGrow
<1>4. TimeOf(0) < w + f
  BY <1>1, <1>2, <1>3
<1>5. 0 < CountOf(w + f)
  BY <1>1, <1>4, CeilDates
<1>6. QED
  BY <1>5

\* Nothing but the place in the loop and COUNT changes.
LEMMA StillKeeps ==
  ASSUME Inv, UNCHANGED links, count' \in {count, count + 1}, Updated \/ UNCHANGED wall
  PROVE  IsRing' /\ Clock' /\ Dates'
<1>1. /\ next' = next /\ prev' = prev /\ active' = active /\ time' = time /\ lcount' = lcount
  BY DEF links
<1>2. Queue' = Queue
  BY <1>1 DEF Queue
<1>3. IsRing'
  BY <1>2 DEF Inv, IsRing
<1>4. Dates'
  BY <1>1 DEF Inv, Dates
<1>5. Updated
  BY WallTimeUpdated DEF Inv
<1>6. time[Tick] \in Nat
  BY QueueFields, Names DEF Inv
<1>7. Clock'
  BY <1>1, <1>5, <1>6, Widths DEF Inv, Clock, Updated, Numbers
<1>8. QED
  BY <1>3, <1>4, <1>7

LEMMA NextInv ==
  ASSUME Inv, [Next]_vars
  PROVE  Inv'
<1>0. late \in 0 .. Latency /\ since \in 0 .. Pause /\ Latency \in Nat /\ Pause \in Nat
  BY Widths DEF Inv, Numbers
<1>1. CASE UNCHANGED vars
  <2>1. UNCHANGED links /\ UNCHANGED wall /\ count' = count
    BY <1>1 DEF vars
  <2>2. IsRing' /\ Clock' /\ Dates'
    BY <2>1, StillKeeps
  <2>3. Numbers' /\ Loop'
    BY <1>1 DEF vars, links, wall, Inv, Numbers, Loop, Serving, Due
  <2>4. QED
    BY <2>2, <2>3 DEF Inv
<1>2. CASE Count
  <2>1. UNCHANGED links /\ UNCHANGED wall /\ count' = count + 1 /\ UNCHANGED <<compare, pc, at, armed, then>>
    BY <1>2 DEF Count
  <2>2. IsRing' /\ Clock' /\ Dates'
    BY <2>1, StillKeeps
  <2>3. late' \in 0 .. Latency /\ since' \in 0 .. Pause /\ irq' \in BOOLEAN
    BY <1>0, <1>2 DEF Count
  <2>4. Numbers'
    BY <2>1, <2>3 DEF wall, Inv, Numbers
  <2>5. Loop'
    BY <2>1 DEF wall, links, Inv, Loop, Serving, Due
  <2>6. QED
    BY <2>2, <2>4, <2>5 DEF Inv
<1>3. CASE WriteCompare
  <2>1. UNCHANGED links /\ UNCHANGED wall /\ count' = count
    BY <1>3 DEF WriteCompare
  <2>2. IsRing' /\ Clock' /\ Dates'
    BY <2>1, StillKeeps
  <2>3. Numbers'
    <3>1. /\ compare' = armed /\ irq' = FALSE /\ pc' = then /\ late' \in {0, late}
          /\ UNCHANGED <<armed, then, since>>
      BY <1>3 DEF WriteCompare
    <3>2. irq' \in BOOLEAN
      BY <3>1
    <3>3. UNCHANGED <<current_wall_time, current_lcount, count>>
      BY <2>1 DEF wall
    <3>4. late' \in 0 .. Latency /\ since' \in 0 .. Pause
      BY <1>0, <3>1
    <3>5. pc' \in {"idle", "request", "pass", "arm"} /\ then' \in {"idle", "pass"}
          /\ compare' \in 0 .. Wrap - 1 /\ armed' \in 0 .. Wrap - 1
      BY <3>1 DEF Inv, Numbers
    <3>6. QED
      BY <3>2, <3>3, <3>4, <3>5 DEF Inv, Numbers
  <2>4. Loop'
    BY <1>3 DEF WriteCompare, wall, links, Inv, Loop, Serving, Due, Numbers
  <2>5. QED
    BY <2>2, <2>3, <2>4 DEF Inv
<1>4. CASE EnterRequest
  <2>1. UNCHANGED links /\ UNCHANGED wall /\ count' = count
    BY <1>4 DEF EnterRequest
  <2>2. IsRing' /\ Clock' /\ Dates'
    BY <2>1, StillKeeps
  <2>3. Numbers'
    BY <1>0, <1>4 DEF EnterRequest, wall, Inv, Numbers
  <2>4. Loop'
    BY <1>4 DEF EnterRequest, Inv, Loop, Serving
  <2>5. QED
    BY <2>2, <2>3, <2>4 DEF Inv
<1>5. CASE TimeIrq
  <2>1. UNCHANGED links /\ Updated /\ count' = count
    BY <1>5, WallTimeUpdated DEF TimeIrq, Inv
  <2>2. IsRing' /\ Clock' /\ Dates'
    BY <2>1, StillKeeps
  <2>3. Numbers'
    BY <1>0, <1>5, <2>1 DEF TimeIrq, Updated, Inv, Numbers
  <2>4. next[Q] \in active \cup {Q} /\ active \subseteq Timers
    BY QueueFields DEF Inv
  <2>5. Loop'
    BY <1>5, <2>4, QNotTimer DEF TimeIrq, links, Loop, Serving
  <2>6. QED
    BY <2>2, <2>3, <2>5 DEF Inv
<1>6. CASE EndPass
  <2>1. UNCHANGED links /\ UNCHANGED wall /\ count' = count
    BY <1>6 DEF EndPass
  <2>2. IsRing' /\ Clock' /\ Dates'
    BY <2>1, StillKeeps
  <2>3. lcount[next[Q]] \in Int
    BY QueueFields DEF Inv, Clock
  <2>4. Queue.lcount = lcount /\ Queue.next = next /\ time_get_lcount \in Nat
    BY NowIsBetween DEF Queue, Inv
  <2>5. armed' \in 0 .. Wrap - 1 /\ pc' = "arm" /\ then' = "idle" /\ since' = 0
    BY <1>6, <2>3, <2>4, ArmsWithin DEF EndPass, Inv
  <2>6. Numbers'
    BY <1>0, <1>6, <2>5 DEF EndPass, wall, Inv, Numbers
  <2>7. Loop'
    BY <1>6, <2>5 DEF EndPass, Inv, Loop, Serving
  <2>8. QED
    BY <2>2, <2>6, <2>7 DEF Inv
<1>7. ASSUME NEW n \in Nat, NEW c \in Nat, IsRing', Tick \in active', c = lcount'[next'[Q]],
             armed' = Soon(lcount'[next'[Q]], n) % Wrap
      PROVE  armed' \in 0 .. Wrap - 1
  <2>1. Soon(c, n) \in Int
    BY Widths DEF Soon
  <2>2. QED
    BY <1>7, <2>1, DivMod, Widths
<1>8. ASSUME IsRing', Tick \in active' PROVE lcount'[next'[Q]] \in Nat /\ active' \subseteq Timers
  BY <1>8, QueueFieldsNext
<1>9. ASSUME NEW g \in Guests, NEW d \in Delays, GuestTimer(g, d) PROVE Inv'
  <2> DEFINE c == time_get_lcount + d
  <2>1. /\ Put(g, TimeOf(c), c) /\ Updated
        /\ UNCHANGED <<count, compare, irq, at, late>>
        /\ armed' = Soon(lcount'[next'[Q]], time_get_lcount) % Wrap
        /\ pc' = "arm" /\ then' = "idle" /\ since' = 0
    BY <1>9, GuestTimerFacts
  <2>2. time_get_lcount \in Nat /\ c \in Nat /\ d \in Nat
    BY NowIsBetween, Names DEF Inv
  <2> HIDE DEF c
  <2>3. TimeOf(c) >= TimeOf(c) /\ TimeOf(c - 1) < TimeOf(c)
    BY <2>2, ExactDates
  <2>4. Dates' /\ Tick \in active' /\ time'[Tick] <= current_wall_time' + 1 + TickTime
    BY <2>1, <2>3, PutKeeps, Names DEF Updated
  <2>5. Clock'
    BY <2>1, <2>4, Widths DEF Clock, Updated, Inv, Numbers
  <2>6. IsRing'
    BY <2>1 DEF Put
  <2>7. armed' \in 0 .. Wrap - 1
    BY <1>7, <1>8, <2>1, <2>2, <2>4, <2>6
  <2>8. Numbers'
    BY <1>0, <2>1, <2>7 DEF Updated, Inv, Numbers
  <2>9. Loop'
    BY <2>1 DEF Inv, Loop, Serving
  <2>10. QED
    BY <2>4, <2>5, <2>6, <2>8, <2>9 DEF Inv
<1>10. CASE FuncRequest
  <2> DEFINE x == current_wall_time' + FirstTime
  <2>1. /\ Put(Func, x, CountOf(x)) /\ Updated
        /\ UNCHANGED <<count, compare, irq, at, late>>
        /\ armed' = Soon(lcount'[next'[Q]], time_get_lcount) % Wrap
        /\ pc' = "arm" /\ then' = "idle" /\ since' = 0
    BY <1>10, FuncRequestFacts
  <2>2. time_get_lcount \in Nat /\ x \in Nat
    BY <2>1, NowIsBetween, Widths DEF Inv, Updated
  <2>3. CountOf(x) # 0
    BY <2>1, FuncCountIsSet, Widths DEF Updated
  <2> HIDE DEF x
  <2>4. Dates' /\ Tick \in active' /\ time'[Tick] <= current_wall_time' + 1 + TickTime
    BY <2>1, <2>2, <2>3, CeilDates, PutKeeps, Names DEF Updated
  <2>5. Clock'
    BY <2>1, <2>4, Widths DEF Clock, Updated, Inv, Numbers
  <2>6. IsRing'
    BY <2>1 DEF Put
  <2>7. armed' \in 0 .. Wrap - 1
    BY <1>7, <1>8, <2>1, <2>2, <2>4, <2>6
  <2>8. Numbers'
    BY <1>0, <2>1, <2>7 DEF Updated, Inv, Numbers
  <2>9. Loop'
    BY <2>1 DEF Inv, Loop, Serving
  <2>10. QED
    BY <2>4, <2>5, <2>6, <2>8, <2>9 DEF Inv
<1>11. CASE HandleTick
  <2>1. /\ Put(Tick, NextTick, CountOf(NextTick))
        /\ at' = next'[Tick] /\ current_wall_time + 1 < NextTick
        /\ NextTick <= current_wall_time + 1 + TickTime
        /\ UNCHANGED <<wall, count, compare, irq, pc, armed, then, late, since>>
    BY <1>11, HandleTickFacts
  <2>2. current_wall_time' = current_wall_time /\ current_lcount' = current_lcount
    BY <2>1 DEF wall
  <2>3. NextTick \in Nat /\ Tick # Func /\ current_wall_time \in Nat
    BY <2>1, Names DEF Put, Inv, Numbers
  <2>4. Dates' /\ Tick \in active' /\ time'[Tick] <= current_wall_time' + 1 + TickTime
    BY <2>1, <2>2, <2>3, CeilDates, PutKeeps
  <2>5. Clock' /\ Numbers'
    BY <2>1, <2>2, <2>4 DEF Clock, Inv, Numbers
  <2>6. IsRing' /\ active' = active \cup {Tick} /\ active \subseteq Timers
        /\ time' = [time EXCEPT ![Tick] = NextTick] /\ time \in [Timers -> Nat]
        /\ (next'[Tick] = Q \/ (next'[Tick] \in active \ {Tick} /\ time[next'[Tick]] > NextTick))
    BY <2>1, QueueFields DEF Put, Inv
  <2>7. at' \in active' \cup {Q} /\ (at' = Q \/ ~(time'[at'] <= current_wall_time'))
    <3>1. CASE next'[Tick] = Q
      BY <2>1, <3>1
    <3>2. CASE next'[Tick] # Q
      <4>1. at' \in active \ {Tick} /\ time[at'] > NextTick /\ at' \in Timers
        BY <2>1, <2>6, <3>2
      <4>2. time'[at'] = time[at'] /\ time[at'] \in Nat
        BY <2>6, <4>1
      <4>3. QED
        BY <2>1, <2>2, <2>3, <2>6, <4>1, <4>2 DEF Inv, Numbers
    <3>3. QED
      BY <3>1, <3>2
  <2>8. Loop'
    BY <2>6, <2>7, QNotTimer, QueueFieldsNext DEF Loop, Due
  <2>9. QED
    BY <2>4, <2>5, <2>6, <2>8 DEF Inv
<1>12. CASE HandleFunc
  <2> DEFINE x == current_wall_time + FuncTime
  <2>1. /\ Put(Func, x, CountOf(x)) /\ at' = next'[Func]
        /\ UNCHANGED <<wall, count, compare, irq, late>>
        /\ armed' = Soon(lcount'[next'[Q]], time_get_lcount) % Wrap
        /\ pc' = "arm" /\ then' = "pass" /\ since' = 0
    BY <1>12, HandleFuncFacts
  <2>2. time_get_lcount \in Nat /\ x \in Nat /\ current_wall_time \in Nat /\ x > current_wall_time
        /\ current_wall_time' = current_wall_time /\ current_lcount' = current_lcount
    BY <2>1, NowIsBetween, Widths DEF Inv, Numbers, wall
  <2>3. CountOf(x) # 0
    BY <2>2, FuncCountIsSet, Widths
  <2> HIDE DEF x
  <2>4. Dates' /\ Tick \in active' /\ time'[Tick] <= current_wall_time' + 1 + TickTime
    BY <2>1, <2>2, <2>3, CeilDates, PutKeeps, Names
  <2>5. Clock'
    BY <2>1, <2>2, <2>4 DEF Clock, Inv
  <2>6. IsRing' /\ active' = active \cup {Func} /\ active \subseteq Timers
        /\ time' = [time EXCEPT ![Func] = x] /\ time \in [Timers -> Nat]
        /\ (next'[Func] = Q \/ (next'[Func] \in active \ {Func} /\ time[next'[Func]] > x))
    BY <2>1, QueueFields DEF Put, Inv
  <2>7. armed' \in 0 .. Wrap - 1
    BY <1>7, <1>8, <2>1, <2>2, <2>4, <2>6
  <2>8. Numbers'
    BY <1>0, <2>1, <2>2, <2>7 DEF Inv, Numbers
  <2>9. at' \in active' \cup {Q} /\ (at' = Q \/ ~(time'[at'] <= current_wall_time'))
    <3>1. CASE next'[Func] = Q
      BY <2>1, <3>1
    <3>2. CASE next'[Func] # Q
      <4>1. at' \in active \ {Func} /\ time[at'] > x /\ at' \in Timers
        BY <2>1, <2>6, <3>2
      <4>2. time'[at'] = time[at'] /\ time[at'] \in Nat
        BY <2>6, <4>1
      <4>3. QED
        BY <2>1, <2>2, <2>3, <2>6, <4>1, <4>2 DEF Inv, Numbers
    <3>3. QED
      BY <3>1, <3>2
  <2>10. Loop'
    BY <2>6, <2>9, QNotTimer, QueueFieldsNext DEF Loop, Due
  <2>11. QED
    BY <2>4, <2>5, <2>6, <2>8, <2>10 DEF Inv
<1>13. CASE HandleGuest
  <2>1. /\ at \in Guests \cap active /\ Taken(at) /\ at' = next'[Q]
        /\ UNCHANGED <<wall, count, compare, irq, pc, armed, then, late, since>>
    BY <1>13, HandleGuestFacts
  <2>2. IsRing' /\ active' = active \ {at} /\ time' = time /\ lcount' = lcount
    BY <2>1 DEF Taken
  <2>3. Numbers' /\ Clock' /\ Dates'
    BY <2>1, <2>2, Names DEF wall, Inv, Numbers, Clock, Dates
  <2>4. next'[Q] \in active' \cup {Q} /\ active' \subseteq Timers
    BY <2>2, QueueFieldsNext
  <2>5. Loop'
    BY <2>1, <2>4, QNotTimer DEF Loop
  <2>6. QED
    BY <2>2, <2>3, <2>5 DEF Inv
<1>14. QED
  BY <1>1, <1>2, <1>3, <1>4, <1>5, <1>6, <1>9, <1>10, <1>11, <1>12, <1>13 DEF Next

LEMMA InitRing ==
  ASSUME Init PROVE IsRing
<1> DEFINE e == [i \in 0 .. 1 |-> IF i = 0 THEN Q ELSE Tick]
           self == [p \in Links |-> p]
<1>1. Q \in Links /\ Tick \in Links /\ Tick # Q /\ Tick \in Timers
  BY Names, QNotTimer
<1>2. /\ next = [self EXCEPT ![Q] = Tick, ![Tick] = Q] /\ prev = next /\ active = {Tick}
      /\ time = [t \in Timers |-> IF t = Tick THEN TickTime ELSE 0]
      /\ lcount = [t \in Timers |-> IF t = Tick THEN CountOf(TickTime) ELSE 0]
  BY DEF Init
<1>3. next \in [Links -> Links] /\ next[Q] = Tick /\ next[Tick] = Q
  BY <1>1, <1>2
<1>4. CountOf(TickTime) \in Nat
  BY CountIsFirst, Widths
<1>5. time \in [Timers -> Nat] /\ lcount \in [Timers -> Nat]
  BY <1>2, <1>4, Widths
<1>6. Queue \in Queues
  BY <1>1, <1>2, <1>3, <1>5 DEF Queue, Queues
<1>7. /\ Queue.next = next /\ Queue.prev = next /\ Queue.active = {Tick} /\ Queue.time = time
  BY <1>2 DEF Queue
<1>8. 1 \in Nat /\ e \in [0 .. 1 -> Links] /\ e[0] = Q /\ e[1] = Tick
  BY <1>1
<1> HIDE DEF e
<1>9. \A i, j \in 0 .. 1 : e[i] = e[j] => i = j
  BY <1>1, <1>8
<1>10. \A t \in Links : t \in Queue.active <=> \E i \in 1 .. 1 : e[i] = t
  BY <1>7, <1>8
<1>11. \A i \in 0 .. 1 : Queue.next[e[i]] = Nth(1, e, i + 1) /\ Queue.prev[Nth(1, e, i + 1)] = e[i]
  <2>1. Nth(1, e, 0 + 1) = Tick /\ Nth(1, e, 1 + 1) = Q
    BY <1>8 DEF Nth
  <2>2. Queue.next[e[0]] = Tick /\ Queue.prev[Tick] = e[0] /\ Queue.next[e[1]] = Q /\ Queue.prev[Q] = e[1]
    BY <1>3, <1>7, <1>8
  <2>3. \A i \in 0 .. 1 : i = 0 \/ i = 1
    OBVIOUS
  <2>4. QED
    BY <2>1, <2>2, <2>3
<1>12. \A i, j \in 1 .. 1 : i <= j => Queue.time[e[i]] <= Queue.time[e[j]]
  <2>1. \A i \in 1 .. 1 : i = 1
    OBVIOUS
  <2>2. time[Tick] <= time[Tick]
    BY <1>1, <1>5
  <2>3. QED
    BY <1>7, <1>8, <2>1, <2>2
<1>13. RingOf(Queue, 1, e)
  BY <1>8, <1>9, <1>10, <1>11, <1>12 DEF RingOf
<1>14. QED
  BY <1>6, <1>13 DEF IsRing, Ring

LEMMA InitInv ==
  ASSUME Init PROVE Inv
<1> DEFINE c == CountOf(TickTime)
<1>1. c \in Nat /\ TimeOf(c) >= TickTime /\ TimeOf(c - 1) < TickTime
  BY CountIsFirst, Widths
<1>2. /\ time = [t \in Timers |-> IF t = Tick THEN TickTime ELSE 0]
      /\ lcount = [t \in Timers |-> IF t = Tick THEN c ELSE 0]
      /\ compare = Soon(c, Start) % Wrap /\ active = {Tick}
      /\ current_wall_time = 0 /\ current_lcount = Start /\ count = Start
      /\ irq = FALSE /\ pc = "idle" /\ at = Q /\ armed = 0 /\ then = "idle" /\ late = 0 /\ since = 0
  BY DEF Init
<1> HIDE DEF c
<1>3. compare \in 0 .. Wrap - 1
  <2>1. Soon(c, Start) \in Int
    BY <1>1, Widths DEF Soon
  <2>2. QED
    BY <1>2, <2>1, DivMod, Widths
<1>4. Numbers
  <2>1. irq \in BOOLEAN
    BY <1>2
  <2>2. QED
    BY <1>2, <1>3, <2>1, Widths DEF Numbers
<1>5. TimeOf(Start) = 0
  BY TimesGrow, Widths
<1>6. time[Tick] = TickTime /\ lcount[Tick] = c /\ lcount[Func] = 0
  BY <1>2, Names
<1>7. Clock
  BY <1>2, <1>5, <1>6, Widths DEF Clock
<1>8. Dates
  BY <1>1, <1>2, <1>6, Names DEF Dates
<1>9. Loop
  BY <1>2, QNotTimer DEF Loop, Serving
<1>10. QED
  BY <1>4, <1>7, <1>8, <1>9, InitRing DEF Inv

-----------------------------------------------------------------------------
(* Theorems that hold for all constants                                      *)

LEMMA InvAlways == Spec => []Inv
<1>1. Init => Inv
  BY InitInv
<1>2. Inv /\ [Next]_vars => Inv'
  BY NextInv
<1>3. QED
  BY <1>1, <1>2, PTL DEF Spec

(* Links, times and registers have their types, and the count of a queued    *)
(* timer is the first at which its wall time has come (time_insert_timer).   *)
THEOREM TypeCorrect == Spec => []TypeOK
<1>1. Inv => TypeOK
  BY QueueFields DEF Inv, Numbers, Dates, Loop, TypeOK
<1>2. QED
  BY <1>1, InvAlways, PTL

(* However requests and passes of time_irq are mixed, also those made from   *)
(* inside its loop, the links are one sorted ring of the active timers.      *)
THEOREM QueueStaysSorted == Spec => []QueueIsSorted
<1>1. Inv => QueueIsSorted
  BY RingIsSorted DEF Inv, IsRing
<1>2. QED
  BY <1>1, InvAlways, PTL

(* No timer is taken by time_irq before its time, by COUNT itself.           *)
THEOREM NoTimerIsEarly == Spec => NeverEarly
<1>1. ASSUME Inv, NEW t \in active, Due(t) PROVE count >= lcount[t]
  <2>1. /\ lcount[t] \in Nat /\ time[t] \in Nat /\ current_lcount \in Nat /\ count \in Nat
        /\ current_lcount <= count /\ current_wall_time = TimeOf(current_lcount)
        /\ time[t] <= current_wall_time /\ TimeOf(lcount[t] - 1) < time[t]
    BY <1>1, QueueFields DEF Inv, Numbers, Clock, Dates, Due
  <2>2. lcount[t] - 1 \in Int /\ current_lcount \in Int
    BY <2>1
  <2>3. TimeOf(lcount[t] - 1) \in Int /\ TimeOf(current_lcount) \in Int
        /\ (lcount[t] - 1 < current_lcount <=> TimeOf(lcount[t] - 1) < TimeOf(current_lcount))
    BY <2>2, TimesGrow
  <2>4. QED
    BY <2>1, <2>3
<1>2. ASSUME Inv, [Next]_vars, NEW t \in active,
             t \notin active' \/ (pc = "pass" /\ lcount'[t] # lcount[t])
      PROVE  count >= lcount[t]
  <2>0. active \subseteq Timers /\ lcount \in [Timers -> Nat]
    BY <1>2, QueueFields DEF Inv
  <2>1. CASE UNCHANGED links
    BY <1>2, <2>1 DEF links
  <2>2. ASSUME NEW g \in Guests, NEW d \in Delays, GuestTimer(g, d) PROVE FALSE
    BY <1>2, <2>2, GuestTimerFacts DEF Put
  <2>3. CASE FuncRequest
    BY <1>2, <2>3, FuncRequestFacts DEF Put
  <2>4. CASE HandleTick
    BY <1>1, <1>2, <2>0, <2>4, HandleTickFacts DEF Put
  <2>5. CASE HandleFunc
    BY <1>1, <1>2, <2>0, <2>5, HandleFuncFacts DEF Put
  <2>6. CASE HandleGuest
    BY <1>1, <1>2, <2>0, <2>6, HandleGuestFacts DEF Taken
  <2>7. QED
    BY <1>2, <2>1, <2>2, <2>3, <2>4, <2>5, <2>6
       DEF Next, Count, WriteCompare, EnterRequest, TimeIrq, EndPass, vars
<1>3. Inv /\ [Next]_vars
        => [\A t \in active : (t \notin active' \/ (pc = "pass" /\ lcount'[t] # lcount[t]))
              => count >= lcount[t]]_vars
  BY <1>2
<1>4. QED
  BY <1>3, InvAlways, PTL DEF Spec, NeverEarly

-----------------------------------------------------------------------------
(* COMPARE stands for the head                                               *)

\* The function timer is asked for once with a wall time that may be old.
Reach == IF lcount[Func] = 0 THEN Ahead ELSE Ahead + Latency + Margin

LEMMA Spans ==
  /\ TickCounts \in Nat /\ Ahead \in Nat /\ TickCounts <= Ahead /\ Margin + Latency <= Ahead
  /\ Reach \in Nat /\ Ahead <= Reach /\ Reach <= Ahead + Latency + Margin
<1>1. TickTime \div Mult \in Nat
  <2>1. TickTime \in Int /\ TickTime \div Mult \in Int /\ TickTime % Mult \in 0 .. Mult - 1
        /\ TickTime = Mult * (TickTime \div Mult) + (TickTime % Mult)
    BY Widths, DivMod
  <2> DEFINE d == TickTime \div Mult
             r == TickTime % Mult
  <2>2. d \in Int /\ r \in 0 .. Mult - 1 /\ TickTime = Mult * d + r
    BY <2>1
  <2> HIDE DEF d, r
  <2>3. 0 >= d + 1 => Mult * 0 >= Mult * d + Mult
    BY <2>2, Widths, Multiples
  <2>4. d \in Nat
    BY <2>2, <2>3, Widths
  <2>5. QED
    BY <2>4 DEF d
<1>2. TickCounts \in Nat
  BY <1>1 DEF TickCounts
<1>3. QED
  BY <1>2, Widths DEF Ahead, Reach

HeadFacts ==
  /\ active \subseteq Timers /\ next[Q] \in active
  /\ \A t \in active : lcount[t] \in Nat /\ time[t] \in Nat
                     /\ lcount[next[Q]] <= lcount[t] /\ time[next[Q]] <= time[t]
                     /\ (lcount[t] <= current_lcount => time[t] <= current_wall_time)
  /\ lcount[Tick] <= current_lcount + TickCounts

LEMMA HeadIsFirst == Inv => HeadFacts
<1> SUFFICES ASSUME Inv PROVE HeadFacts
  OBVIOUS
<1>1. /\ active \subseteq Timers /\ time \in [Timers -> Nat] /\ lcount \in [Timers -> Nat]
      /\ Tick \in active /\ next[Q] \in active /\ \A t \in active : time[next[Q]] <= time[t]
  BY QueueFields DEF Inv, Clock
<1>2. ASSUME NEW s \in active, NEW t \in active, time[s] <= time[t] PROVE lcount[s] <= lcount[t]
  <2>1. lcount[s] \in Nat /\ lcount[t] \in Nat /\ time[s] \in Nat /\ time[t] \in Nat
    BY <1>1
  <2>2. TimeOf(lcount[s] - 1) < time[s] /\ time[t] <= TimeOf(lcount[t])
    BY DEF Inv, Dates
  <2>3. lcount[s] - 1 \in Int /\ lcount[t] \in Int
    BY <2>1
  <2>4. TimeOf(lcount[s] - 1) \in Int /\ TimeOf(lcount[t]) \in Int
        /\ (lcount[s] - 1 < lcount[t] <=> TimeOf(lcount[s] - 1) < TimeOf(lcount[t]))
    BY <2>3, TimesGrow
  <2>5. QED
    BY <1>2, <2>1, <2>2, <2>4
<1>3. ASSUME NEW t \in active, lcount[t] <= current_lcount PROVE time[t] <= current_wall_time
  <2>1. lcount[t] \in Nat /\ time[t] \in Nat /\ time[t] <= TimeOf(lcount[t])
    BY <1>1 DEF Inv, Dates
  <2>2. lcount[t] \in Int /\ current_lcount \in Int /\ current_wall_time = TimeOf(current_lcount)
    BY <2>1 DEF Inv, Clock, Numbers
  <2>3. TimeOf(lcount[t]) \in Int /\ TimeOf(current_lcount) \in Int
        /\ TimeOf(lcount[t]) <= TimeOf(current_lcount)
    BY <1>3, <2>2, TimesGrow
  <2>4. QED
    BY <2>1, <2>2, <2>3
<1>4. lcount[Tick] <= current_lcount + TickCounts
  <2> DEFINE a == lcount[Tick] - 1
             k == a - current_lcount
             d == TickTime \div Mult
             r == TickTime % Mult
  <2>1. a \in Int /\ current_lcount \in Int /\ lcount[Tick] \in Nat /\ time[Tick] \in Nat
    BY <1>1 DEF Inv, Numbers
  <2>2. TimeOf(a) < time[Tick] /\ time[Tick] <= TimeOf(current_lcount) + 1 + TickTime
    BY <1>1 DEF Inv, Dates, Clock
  <2>3. a = lcount[Tick] - 1 /\ k = a - current_lcount
    OBVIOUS
  <2> HIDE DEF a
  <2>4. TimeOf(a) \in Int /\ TimeOf(current_lcount) \in Int
        /\ TimeOf(a) = TimeOf(current_lcount) + (a - current_lcount) * Mult
    BY <2>1, TimesDiffer
  <2>5. k \in Int /\ k * Mult < 1 + TickTime
    BY <2>1, <2>2, <2>3, <2>4, Widths
  <2> HIDE DEF k
  <2>6. d \in Int /\ r \in 0 .. Mult - 1 /\ TickTime = Mult * d + r /\ TickCounts = 1 + d
    BY Widths, DivMod DEF TickCounts
  <2> HIDE DEF d, r
  <2>7. k * Mult = Mult * k /\ Mult * k \in Int /\ Mult * d \in Int
        /\ (k >= d + 1 => Mult * k >= Mult * d + Mult)
    BY <2>5, <2>6, Widths, Multiples
  <2>8. k <= d
    BY <2>5, <2>6, <2>7, Widths
  <2>9. QED
    BY <2>1, <2>3, <2>6, <2>8 DEF Inv, Numbers
<1>5. QED
  BY <1>1, <1>2, <1>3, <1>4 DEF HeadFacts

\* The value a that is about to be written, in full: far enough from COUNT,
\* and not behind the head unless that is too close.
Meant(a) ==
  /\ a \in Int /\ a % Wrap = armed
  /\ count + Margin <= a + since
  /\ a + since <= count + Margin \/ a <= lcount[next[Q]]
  /\ then = "idle" => a <= current_lcount + Reach

\* COUNT never gets a wrap ahead of current_lcount.
KeepsUp ==
  /\ pc = "idle" /\ ~irq => count + ToMatch <= current_lcount + Reach
  /\ (pc = "idle" /\ irq) \/ pc = "request" => count <= current_lcount + Reach + late
  /\ Serving => count <= current_lcount + late

Arming == pc = "arm" => since <= Spend /\ \E a : Meant(a)

Armed ==
  pc = "idle" /\ ~irq => ToMatch + since <= Margin \/ ToMatch <= lcount[next[Q]] - count

Timely == KeepsUp /\ Arming /\ Armed

LEMMA MatchFacts ==
  ASSUME Numbers
  PROVE  /\ ToMatch \in Nat /\ ToMatch >= 1
         /\ ToMatch = To(compare, count)
<1>1. ToMatch = To(compare, count)
  BY DEF ToMatch, To
<1>2. QED
  BY <1>1, MatchComes DEF Numbers

LEMMA NowIsCount ==
  ASSUME WrapIsLong, Inv, KeepsUp, (pc = "idle" /\ irq) \/ pc \in {"request", "pass"}
  PROVE  time_get_lcount = count /\ count \in Nat /\ current_lcount <= count
<1>1. count < current_lcount + Wrap
  <2>1. late <= Latency /\ late \in Nat /\ count \in Nat /\ current_lcount \in Nat
    BY Widths DEF Inv, Numbers
  <2>2. count <= current_lcount + Reach + late
    BY <2>1, Spans DEF KeepsUp, Serving
  <2>3. QED
    BY <2>1, <2>2, Spans, Widths DEF WrapIsLong
<1>2. QED
  BY <1>1, NowIsBetween DEF Inv, Numbers, Clock

LEMMA SoonIsMeant ==
  ASSUME NEW c \in Nat, NEW n \in Nat
  PROVE  /\ Soon(c, n) \in Int /\ n + Margin <= Soon(c, n)
         /\ Soon(c, n) = n + Margin \/ Soon(c, n) = c
BY Widths DEF Soon

\* Numbers of the state, as the arithmetic below needs them.
Sizes ==
  /\ count \in Nat /\ current_lcount \in Nat /\ ToMatch \in Nat /\ ToMatch >= 1
  /\ late \in Nat /\ late <= Latency /\ since \in Nat /\ since <= Pause
  /\ Reach \in Nat /\ Ahead <= Reach /\ Reach <= Ahead + Latency + Margin
  /\ lcount[next[Q]] \in Nat /\ lcount[next[Q]] <= current_lcount + TickCounts
  /\ current_lcount <= count
  /\ compare \in 0 .. Wrap - 1

LEMMA SizesHold == Inv => Sizes
<1> SUFFICES ASSUME Inv PROVE Sizes
  OBVIOUS
<1>1. HeadFacts
  BY HeadIsFirst
<1>2. Tick \in active
  BY DEF Inv, Clock
<1>3. lcount[next[Q]] \in Nat /\ lcount[Tick] \in Nat /\ lcount[next[Q]] <= lcount[Tick]
      /\ lcount[Tick] <= current_lcount + TickCounts
  BY <1>1, <1>2 DEF HeadFacts
<1>4. Numbers
  BY DEF Inv
<1>5. ToMatch \in Nat /\ ToMatch >= 1
  BY <1>4, MatchFacts
<1>6. /\ count \in Nat /\ current_lcount \in Nat /\ late \in Nat /\ late <= Latency
      /\ since \in Nat /\ since <= Pause /\ compare \in 0 .. Wrap - 1
  BY <1>4, Widths DEF Numbers
<1>7. Reach \in Nat /\ Ahead <= Reach /\ Reach <= Ahead + Latency + Margin
  BY Spans
<1>8. current_lcount <= count
  BY DEF Inv, Clock
<1>9. lcount[next[Q]] <= current_lcount + TickCounts
  BY <1>3, <1>6, Spans
<1>10. QED
  BY <1>3, <1>5, <1>6, <1>7, <1>8, <1>9 DEF Sizes

LEMMA SoonIsWithin ==
  ASSUME NEW c \in Nat, NEW n \in Nat, NEW r \in Int
  PROVE  \E a \in Int : /\ a = Soon(c, n) /\ n + Margin <= a + 0
                         /\ (a + 0 <= n + Margin \/ a <= c)
                         /\ (n + Margin <= r /\ c <= r => a <= r)
<1>1. PICK a \in Int : a = Soon(c, n)
  BY SoonIsMeant
<1>2. n + Margin <= a /\ (a = n + Margin \/ a = c)
  BY <1>1, SoonIsMeant
<1>3. QED
  BY <1>1, <1>2, Widths

LEMMA ArmIsMeant ==
  ASSUME Sizes', since' = 0,
         armed' = Soon(lcount'[next'[Q]], count') % Wrap,
         then' = "idle" => /\ count' + Margin <= current_lcount' + Reach'
                           /\ lcount'[next'[Q]] <= current_lcount' + Reach'
  PROVE  Arming'
<1>1. PICK h \in Nat : h = lcount'[next'[Q]]
  BY DEF Sizes
<1>2. PICK n \in Nat : n = count'
  BY DEF Sizes
<1>3. PICK r \in Int : r = current_lcount' + Reach'
  <2>1. PICK k \in Nat, p \in Nat : k = current_lcount' /\ p = Reach'
    BY DEF Sizes
  <2>2. k + p \in Int
    OBVIOUS
  <2>3. k + p = current_lcount' + Reach'
    BY <2>1
  <2>4. QED
    BY <2>2, <2>3
<1>4. PICK a \in Int : /\ a = Soon(h, n) /\ n + Margin <= a + 0
                       /\ (a + 0 <= n + Margin \/ a <= h)
                       /\ (n + Margin <= r /\ h <= r => a <= r)
  BY SoonIsWithin
<1>5. a % Wrap = armed'
  BY <1>1, <1>2, <1>4
<1>6. /\ count' + Margin <= a + since'
      /\ (a + since' <= count' + Margin \/ a <= lcount'[next'[Q]])
      /\ (then' = "idle" => a <= current_lcount' + Reach')
  BY <1>1, <1>2, <1>3, <1>4
<1>7. Meant(a)'
  BY <1>5, <1>6 DEF Meant
<1>8. since' <= Spend
  BY Widths
<1>9. QED
  BY <1>7, <1>8 DEF Arming

LEMMA CountTimely ==
  ASSUME Inv, Sizes, Sizes', Timely, Count
  PROVE  Timely'
<1>1. /\ count' = count + 1 /\ irq' = (irq \/ (count + 1) % Wrap = compare)
      /\ late' = IF irq \/ pc # "idle" THEN late + 1 ELSE 0
      /\ since' = IF since < Pause THEN since + 1 ELSE since
      /\ pc = "arm" => since < Spend
      /\ UNCHANGED <<next, active, time, lcount, current_lcount, compare, pc, armed, then>>
  BY DEF Count, links, wall
<1>2. Reach' = Reach /\ lcount'[next'[Q]] = lcount[next[Q]]
  BY <1>1 DEF Reach
<1>3. ASSUME pc = "idle", ~irq'
      PROVE  ~irq /\ ToMatch' = ToMatch - 1
  <2>1. ~irq /\ (count + 1) % Wrap # compare
    BY <1>1, <1>3
  <2>2. To(compare, count + 1) = To(compare, count) - 1
    BY <2>1, MatchComes DEF Sizes
  <2>3. ToMatch' = To(compare, count + 1) /\ ToMatch = To(compare, count)
    BY <1>1 DEF ToMatch, To
  <2>4. QED
    BY <2>1, <2>2, <2>3
<1>4. KeepsUp'
  <2>1. ASSUME pc = "idle", ~irq' PROVE count' + ToMatch' <= current_lcount' + Reach'
    BY <1>1, <1>2, <1>3, <2>1 DEF Timely, KeepsUp, Sizes
  <2>2. ASSUME pc = "idle", irq' PROVE count' <= current_lcount' + Reach' + late'
    <3>1. CASE irq
      BY <1>1, <1>2, <2>2, <3>1 DEF Timely, KeepsUp, Sizes
    <3>2. CASE ~irq
      BY <1>1, <1>2, <2>2, <3>2 DEF Timely, KeepsUp, Sizes
    <3>3. QED
      BY <3>1, <3>2
  <2>3. ASSUME pc = "request" PROVE count' <= current_lcount' + Reach' + late'
    BY <1>1, <1>2, <2>3 DEF Timely, KeepsUp, Sizes
  <2>4. ASSUME Serving PROVE count' <= current_lcount' + late'
    BY <1>1, <1>2, <2>4 DEF Timely, KeepsUp, Sizes, Serving
  <2>5. Serving' <=> Serving
    BY <1>1 DEF Serving
  <2>6. QED
    BY <1>1, <2>1, <2>2, <2>3, <2>4, <2>5 DEF KeepsUp
<1>5. Arming'
  <2> SUFFICES ASSUME pc = "arm" PROVE since' <= Spend /\ \E a : Meant(a)'
    BY <1>1 DEF Arming
  <2>1. since < Spend /\ since' = since + 1
    BY <1>1, Widths DEF Sizes
  <2>2. PICK a : Meant(a)
    BY DEF Timely, Arming
  <2>3. a \in Int /\ a % Wrap = armed /\ count + Margin <= a + since
        /\ (a + since <= count + Margin \/ a <= lcount[next[Q]])
        /\ (then = "idle" => a <= current_lcount + Reach)
    BY <2>2 DEF Meant
  <2>4. /\ a % Wrap = armed' /\ count' + Margin <= a + since'
        /\ a + since' <= count' + Margin \/ a <= lcount'[next'[Q]]
        /\ then' = "idle" => a <= current_lcount' + Reach'
    BY <1>1, <1>2, <2>1, <2>3, Widths DEF Sizes
  <2>5. Meant(a)'
    BY <2>3, <2>4 DEF Meant
  <2>6. QED
    BY <2>1, <2>5, Widths DEF Sizes
<1>6. Armed'
  <2> SUFFICES ASSUME pc = "idle", ~irq'
               PROVE  ToMatch' + since' <= Margin \/ ToMatch' <= lcount'[next'[Q]] - count'
    BY <1>1 DEF Armed
  <2>1. ToMatch + since <= Margin \/ ToMatch <= lcount[next[Q]] - count
    BY <1>3 DEF Timely, Armed
  <2>2. since' <= since + 1 /\ since' \in Nat
    BY <1>1 DEF Sizes
  <2>3. QED
    BY <1>1, <1>2, <1>3, <2>1, <2>2, Widths DEF Sizes
<1>7. QED
  BY <1>4, <1>5, <1>6 DEF Timely

LEMMA WriteTimely ==
  ASSUME Inv, Sizes, Sizes', Timely, WriteCompare
  PROVE  Timely'
<1>1. /\ pc = "arm" /\ compare' = armed /\ irq' = FALSE /\ pc' = then
      /\ late' = (IF then = "idle" THEN 0 ELSE late)
      /\ UNCHANGED <<next, active, time, lcount, current_lcount, count, then, since>>
  BY DEF WriteCompare, links, wall
<1>2. Reach' = Reach /\ lcount'[next'[Q]] = lcount[next[Q]]
  BY <1>1 DEF Reach
<1>3. then \in {"idle", "pass"}
  BY DEF Inv, Numbers
<1>4. PICK a : Meant(a)
  BY <1>1 DEF Timely, Arming
<1>5. a \in Int /\ a % Wrap = armed /\ count + Margin <= a + since
      /\ (a + since <= count + Margin \/ a <= lcount[next[Q]])
      /\ (then = "idle" => a <= current_lcount + Reach)
  BY <1>4 DEF Meant
<1>13. /\ count + Margin <= a + since /\ (a + since <= count + Margin \/ a <= lcount[next[Q]])
       /\ (then = "idle" => a <= current_lcount + Reach) /\ a \in Int
  BY <1>5
<1>6. since <= Spend
  BY <1>1 DEF Timely, Arming
<1>0. /\ count \in Nat /\ current_lcount \in Nat /\ Reach \in Nat /\ since \in Nat
      /\ lcount[next[Q]] \in Nat
  BY DEF Sizes
<1>14. PICK m \in Nat : m = ToMatch'
  BY DEF Sizes
<1>7. count < a /\ count \in Int
  BY <1>0, <1>13, <1>6, Widths
<1>8. ToMatch' <= a - count
  <2>1. To(a % Wrap, count) <= a - count
    BY <1>5, <1>7, MatchBy
  <2>2. ToMatch' = To(a % Wrap, count)
    BY <1>1, <1>5 DEF ToMatch, To
  <2>3. QED
    BY <2>1, <2>2
<1>15. m <= a - count
  BY <1>8, <1>14
<1>9. KeepsUp'
  <2>1. CASE then = "idle"
    <3>1. count + m <= current_lcount + Reach
      BY <1>0, <1>13, <1>15, <2>1
    <3>2. count' + ToMatch' <= current_lcount' + Reach'
      BY <1>1, <1>2, <1>14, <3>1
    <3>3. QED
      BY <1>1, <2>1, <3>2 DEF KeepsUp, Serving
  <2>2. CASE then = "pass"
    BY <1>1, <2>2 DEF Timely, KeepsUp, Serving
  <2>3. QED
    BY <1>3, <2>1, <2>2
<1>10. Arming'
  BY <1>1, <1>3 DEF Arming
<1>11. Armed'
  <2>1. m + since <= Margin \/ m <= lcount[next[Q]] - count
    BY <1>0, <1>13, <1>15, Widths
  <2>2. ToMatch' + since' <= Margin \/ ToMatch' <= lcount'[next'[Q]] - count'
    BY <1>1, <1>2, <1>14, <2>1
  <2>3. QED
    BY <2>2 DEF Armed
<1>12. QED
  BY <1>9, <1>10, <1>11 DEF Timely

LEMMA RequestTimely ==
  ASSUME WrapIsLong, Inv, Inv', Sizes, Sizes', Timely,
         FuncRequest \/ \E g \in Guests, d \in Delays : GuestTimer(g, d)
  PROVE  Timely' /\ time_get_lcount = count
<1>1. pc = "request"
  BY DEF FuncRequest, GuestTimer
<1>2. time_get_lcount = count
  BY <1>1, NowIsCount DEF Timely
<1>3. /\ Updated /\ count' = count /\ since' = 0 /\ pc' = "arm" /\ then' = "idle"
      /\ armed' = Soon(lcount'[next'[Q]], count') % Wrap
  <2>1. CASE FuncRequest
    BY <1>2, <2>1, FuncRequestFacts
  <2>2. ASSUME NEW g \in Guests, NEW d \in Delays, GuestTimer(g, d)
        PROVE  /\ Updated /\ count' = count /\ since' = 0 /\ pc' = "arm" /\ then' = "idle"
               /\ armed' = Soon(lcount'[next'[Q]], count') % Wrap
    BY <1>2, <2>2, GuestTimerFacts
  <2>3. QED
    BY <2>1, <2>2
<1>0. /\ count \in Nat /\ current_lcount \in Nat /\ late \in Nat /\ late <= Latency
  BY DEF Sizes
<1>8. PICK r \in Nat : r = Reach' /\ Ahead <= r
  BY DEF Sizes
<1>9. PICK k \in Nat : k = current_lcount'
  BY DEF Sizes
<1>4. lcount'[next'[Q]] <= current_lcount' + Reach'
  BY Spans DEF Sizes
<1>5. count' + Margin <= current_lcount' + Reach'
  <2>1. CASE FuncRequest
    <3>1. lcount[Func] = 0 /\ Func \in active'
      BY <2>1, FuncRequestFacts DEF Put
    <3>2. lcount'[Func] # 0
      BY <3>1 DEF Inv, Dates
    <3>3. Reach = Ahead /\ Reach' = Ahead + Latency + Margin
      BY <3>1, <3>2 DEF Reach
    <3>4. count <= current_lcount + Ahead + Latency
      BY <1>1, <3>3, Spans, Widths DEF Timely, KeepsUp, Sizes
    <3>5. current_lcount <= k
      BY <1>3, <1>9 DEF Updated
    <3>6. r = Ahead + Latency + Margin
      BY <1>8, <3>3
    <3>7. count + Margin <= k + r
      BY <1>0, <3>4, <3>5, <3>6, Spans, Widths
    <3>8. QED
      BY <1>3, <1>8, <1>9, <3>7
  <2>2. ASSUME NEW g \in Guests, NEW d \in Delays, GuestTimer(g, d)
        PROVE  count' + Margin <= current_lcount' + Reach'
    <3>1. current_lcount' = count
      BY <1>2, <2>2, GuestTimerFacts
    <3>2. Ahead <= r /\ count + Margin <= count + r
      <4>1. Ahead <= r
        BY <1>8
      <4>2. QED
        BY <1>0, <4>1, Spans, Widths
    <3>3. QED
      BY <1>3, <1>8, <3>1, <3>2
  <2>3. QED
    BY <2>1, <2>2
<1>6. Arming'
  BY <1>3, <1>4, <1>5, ArmIsMeant DEF Sizes
<1>7. QED
  BY <1>2, <1>3, <1>6 DEF Timely, KeepsUp, Serving, Armed

LEMMA PassTimely ==
  ASSUME WrapIsLong, Inv, Inv', Sizes, Sizes', Timely, HandleFunc \/ EndPass
  PROVE  Timely' /\ time_get_lcount = count
<1>1. pc = "pass" /\ Serving
  BY DEF HandleFunc, EndPass, Serving
<1>2. time_get_lcount = count
  BY <1>1, NowIsCount DEF Timely
<1>3. count <= current_lcount + late
  BY <1>1 DEF Timely, KeepsUp
<1>4. /\ UNCHANGED <<current_lcount, count, late>> /\ since' = 0 /\ pc' = "arm"
      /\ armed' = Soon(lcount'[next'[Q]], count') % Wrap
  <2>1. CASE HandleFunc
    BY <1>2, <2>1, HandleFuncFacts DEF wall
  <2>2. CASE EndPass
    <3>1. Queue.lcount = lcount /\ Queue.next = next
      BY DEF Queue
    <3>2. /\ UNCHANGED links /\ UNCHANGED wall /\ UNCHANGED <<count, late>> /\ since' = 0 /\ pc' = "arm"
          /\ armed' = Soon(lcount[next[Q]], time_get_lcount) % Wrap
      BY <2>2, <3>1 DEF EndPass, Arm
    <3>3. QED
      BY <1>2, <3>2 DEF links, wall
  <2>3. QED
    BY <2>1, <2>2
<1>0. /\ count \in Nat /\ current_lcount \in Nat /\ late \in Nat /\ late <= Latency
  BY DEF Sizes
<1>10. PICK r \in Nat : r = Reach' /\ Ahead <= r
  BY DEF Sizes
<1>11. Ahead <= r
  BY <1>10
<1>5. lcount'[next'[Q]] <= current_lcount' + Reach'
  BY Spans DEF Sizes
<1>6. count' + Margin <= current_lcount' + Reach'
  <2>1. count + Margin <= current_lcount + r
    BY <1>0, <1>3, <1>11, Spans, Widths
  <2>2. QED
    BY <1>4, <1>10, <2>1
<1>7. Arming'
  BY <1>4, <1>5, <1>6, ArmIsMeant DEF Sizes
<1>8. KeepsUp'
  BY <1>3, <1>4 DEF KeepsUp
<1>9. QED
  BY <1>2, <1>4, <1>7, <1>8 DEF Timely, Armed

LEMMA NextTimely ==
  ASSUME WrapIsLong, Inv, Inv', Timely, [Next]_vars
  PROVE  Timely'
<1>1. Sizes /\ Sizes'
  BY SizesHold, PTL
<1>2. CASE UNCHANGED vars
  <2>1. /\ UNCHANGED <<next, lcount, current_lcount, count, compare, irq, pc, armed, then, late, since>>
    BY <1>2 DEF vars, links, wall
  <2>2. Reach' = Reach /\ ToMatch' = ToMatch /\ (Serving' <=> Serving)
    BY <2>1 DEF Reach, ToMatch, Serving
  <2>3. \A a : Meant(a)' <=> Meant(a)
    BY <2>1, <2>2 DEF Meant
  <2>4. QED
    BY <2>1, <2>2, <2>3 DEF Timely, KeepsUp, Arming, Armed
<1>3. CASE EnterRequest
  <2>1. /\ pc = "idle" /\ ~irq /\ pc' = "request" /\ late' = 0
        /\ UNCHANGED <<next, lcount, current_lcount, count>>
    BY <1>3 DEF EnterRequest, links, wall
  <2>2. Reach' = Reach
    BY <2>1 DEF Reach
  <2>3. count' <= current_lcount' + Reach' + late'
    BY <1>1, <2>1, <2>2 DEF Timely, KeepsUp, Sizes
  <2>4. QED
    BY <2>1, <2>3 DEF Timely, KeepsUp, Arming, Armed, Serving
<1>4. CASE TimeIrq
  <2>1. pc = "idle" /\ irq /\ pc' = "pass" /\ late' = 0 /\ count' = count
        /\ current_lcount' = time_get_lcount
    BY <1>4 DEF TimeIrq, UpdateWallTime
  <2>2. time_get_lcount = count
    BY <2>1, NowIsCount DEF Timely
  <2>3. QED
    BY <1>1, <2>1, <2>2 DEF Timely, KeepsUp, Arming, Armed, Sizes
<1>5. CASE HandleTick \/ HandleGuest
  <2>1. pc = "pass" /\ UNCHANGED <<current_lcount, count, irq, pc, late>>
    BY <1>5 DEF HandleTick, HandleGuest, wall
  <2>2. QED
    BY <2>1 DEF Timely, KeepsUp, Arming, Armed, Serving
<1>6. QED
  BY <1>1, <1>2, <1>3, <1>4, <1>5, CountTimely, WriteTimely, RequestTimely, PassTimely DEF Next

LEMMA InitTimely == Init => Timely
<1> SUFFICES ASSUME Init PROVE Timely
  OBVIOUS
<1>1. Inv /\ Sizes
  BY InitInv, SizesHold
<1> DEFINE c == CountOf(TickTime)
<1>2. /\ compare = Soon(c, Start) % Wrap
      /\ current_lcount = Start /\ count = Start /\ irq = FALSE /\ pc = "idle" /\ since = 0
      /\ next[Q] = Tick /\ lcount[Tick] = c
  BY Names, QNotTimer DEF Init, Links
<1>3. c \in Nat
  BY CountIsFirst, Widths
<1> HIDE DEF c
<1>4. Start \in Nat /\ Soon(c, Start) \in Int /\ Start + Margin <= Soon(c, Start)
      /\ (Soon(c, Start) = Start + Margin \/ Soon(c, Start) = c)
  BY <1>3, SoonIsMeant, Widths
<1>5. ToMatch <= Soon(c, Start) - Start
  <2>1. To(Soon(c, Start) % Wrap, Start) <= Soon(c, Start) - Start
    BY <1>4, MatchBy, Widths
  <2>2. QED
    BY <1>2, <2>1 DEF ToMatch, To
<1>6. count + ToMatch <= current_lcount + Reach
  BY <1>1, <1>2, <1>3, <1>4, <1>5, Spans, Widths DEF Sizes
<1>7. ToMatch + since <= Margin \/ ToMatch <= lcount[next[Q]] - count
  BY <1>1, <1>2, <1>3, <1>4, <1>5, Widths DEF Sizes
<1>8. QED
  BY <1>2, <1>6, <1>7 DEF Timely, KeepsUp, Arming, Armed, Serving

(* Outside the handlers COMPARE stands for the head of the queue, whatever   *)
(* COUNT did between reading it and writing COMPARE, as long as a tick and   *)
(* its handling take less than a wrap of COUNT.                              *)
THEOREM HeadStaysArmed == ASSUME WrapIsLong PROVE Spec => []HeadIsArmed
<1>1. Init => Timely
  BY InitTimely
<1>2. Inv /\ Inv' /\ Timely /\ [Next]_vars => Timely'
  BY NextTimely
<1>3. Inv /\ Timely => HeadIsArmed
  <2> SUFFICES ASSUME Inv, Timely, pc = "idle", ~irq
               PROVE  AtMost(ToMatch, Margin, lcount[next[Q]] - count)
    BY DEF HeadIsArmed
  <2>1. Sizes
    BY SizesHold
  <2>2. ToMatch + since <= Margin \/ ToMatch <= lcount[next[Q]] - count
    BY DEF Timely, Armed
  <2>3. QED
    BY <2>1, <2>2, Widths DEF Sizes, AtMost
<1>4. QED
  BY <1>1, <1>2, <1>3, InvAlways, PTL DEF Spec

-----------------------------------------------------------------------------
(* How late a timer is                                                       *)

\* The loop of time_irq goes on behind the tick, or the function timer, that it
\* has put back: a timer in front of both was passed over twice.
Slack(t) ==
  (IF time[Tick] <= time[t] THEN 0 ELSE Skip)
    + (IF Func \in active /\ time[Func] <= time[t] THEN 0 ELSE Skip)

\* The last count at which a match may come for timer t.
Later(t) == lcount[t] + Slack(t) + Latency + Margin

OnTime(t) ==
  /\ pc = "idle" /\ ~irq => count + ToMatch <= Later(t)
  /\ pc = "idle" /\ irq => count <= Later(t) + late
  /\ pc = "request" => count < lcount[t] + late
  /\ pc = "arm" /\ then = "idle" => count <= lcount[t] + Slack(t) + Latency + since
  /\ Serving /\ lcount[t] <= current_lcount
       => current_lcount <= lcount[t] + Slack(t) + (IF Due(at) THEN Skip ELSE 0)

InTime == \A t \in active : OnTime(t)

LEMMA SlackIsShort ==
  ASSUME NEW t
  PROVE  /\ Skip \in Nat /\ Skip = Margin + 2 * Latency
         /\ Slack(t) \in Nat /\ Slack(t) <= 2 * Skip
<1>1. Skip \in Nat /\ Skip = Margin + 2 * Latency
  BY Widths DEF Skip
<1>2. QED
  BY <1>1 DEF Slack

\* What the arithmetic needs to know of timer t.
Dated(t) ==
  /\ t \in Timers /\ lcount[t] \in Nat /\ Slack(t) \in Nat /\ Later(t) \in Nat
  /\ Later(t) = lcount[t] + Slack(t) + Latency + Margin
  /\ lcount[next[Q]] <= lcount[t]

LEMMA TimersAreDated == Inv => \A t \in active : Dated(t)
<1> SUFFICES ASSUME Inv, NEW t \in active PROVE Dated(t)
  OBVIOUS
<1>1. HeadFacts
  BY HeadIsFirst
<1>2. t \in Timers /\ lcount[t] \in Nat /\ lcount[next[Q]] <= lcount[t]
  BY <1>1 DEF HeadFacts
<1>3. Slack(t) \in Nat
  BY SlackIsShort
<1>4. Later(t) = lcount[t] + Slack(t) + Latency + Margin
  BY DEF Later
<1>5. Later(t) \in Nat
  BY <1>2, <1>3, <1>4, Widths
<1>6. QED
  BY <1>2, <1>3, <1>4, <1>5 DEF Dated

\* Nothing that a timer's dates depend on changes.
LEMMA QueueIsSame ==
  ASSUME UNCHANGED links, NEW t
  PROVE  lcount'[t] = lcount[t] /\ Slack(t)' = Slack(t) /\ Later(t)' = Later(t)
BY DEF links, Slack, Later

LEMMA CountInTime ==
  ASSUME Sizes, NEW t, Dated(t), OnTime(t), Count
  PROVE  OnTime(t)'
<1>1. /\ count' = count + 1 /\ irq' = (irq \/ (count + 1) % Wrap = compare)
      /\ late' = IF irq \/ pc # "idle" THEN late + 1 ELSE 0
      /\ since' = IF since < Pause THEN since + 1 ELSE since
      /\ pc = "arm" => since < Spend
      /\ UNCHANGED links
      /\ UNCHANGED <<current_lcount, current_wall_time, compare, pc, at, then>>
  BY DEF Count, wall
<1>2. lcount'[t] = lcount[t] /\ Slack(t)' = Slack(t) /\ Later(t)' = Later(t)
  BY <1>1, QueueIsSame
<1>3. (Due(at)' <=> Due(at)) /\ (Serving' <=> Serving)
  BY <1>1 DEF Due, Serving, links
<1>4. /\ count \in Nat /\ late \in Nat /\ since \in Nat /\ ToMatch \in Nat /\ ToMatch >= 1
      /\ lcount[t] \in Nat /\ Slack(t) \in Nat /\ Later(t) \in Nat
      /\ Spend <= Pause /\ Spend \in Nat /\ Pause \in Nat /\ Latency \in Nat
  BY Widths DEF Sizes, Dated
<1>5. ASSUME pc = "idle", ~irq' PROVE count' + ToMatch' <= Later(t)'
  <2>1. ~irq /\ (count + 1) % Wrap # compare
    BY <1>1, <1>5
  <2>2. To(compare, count + 1) = To(compare, count) - 1
    BY <2>1, MatchComes DEF Sizes
  <2>3. ToMatch' = To(compare, count + 1) /\ ToMatch = To(compare, count)
    BY <1>1 DEF ToMatch, To
  <2>4. ToMatch' = ToMatch - 1
    BY <2>2, <2>3
  <2>5. count + 1 + (ToMatch - 1) <= Later(t)
    BY <1>4, <1>5, <2>1 DEF OnTime
  <2>6. QED
    BY <1>1, <1>2, <2>4, <2>5
<1>6. ASSUME pc = "idle", irq' PROVE count' <= Later(t)' + late'
  <2>1. CASE irq
    <3>1. count + 1 <= Later(t) + (late + 1)
      BY <1>4, <1>6, <2>1 DEF OnTime
    <3>2. QED
      BY <1>1, <1>2, <2>1, <3>1
  <2>2. CASE ~irq
    <3>1. count + 1 <= Later(t) + 0
      BY <1>4, <1>6, <2>2 DEF OnTime
    <3>2. late' = 0
      BY <1>1, <1>6, <2>2
    <3>3. QED
      BY <1>1, <1>2, <3>1, <3>2
  <2>3. QED
    BY <2>1, <2>2
<1>7. ASSUME pc = "request" PROVE count' < lcount'[t] + late'
  <2>1. count + 1 < lcount[t] + (late + 1)
    BY <1>4, <1>7 DEF OnTime
  <2>2. late' = late + 1
    BY <1>1, <1>7
  <2>3. QED
    BY <1>1, <1>2, <2>1, <2>2
<1>8. ASSUME pc = "arm", then = "idle" PROVE count' <= lcount'[t] + Slack(t)' + Latency + since'
  <2>1. count + 1 <= lcount[t] + Slack(t) + Latency + (since + 1)
    BY <1>4, <1>8 DEF OnTime
  <2>2. since' = since + 1
    BY <1>1, <1>4, <1>8
  <2>3. QED
    BY <1>1, <1>2, <2>1, <2>2
<1>9. Serving /\ lcount[t] <= current_lcount
        => current_lcount <= lcount[t] + Slack(t) + (IF Due(at) THEN Skip ELSE 0)
  BY DEF OnTime
<1>10. QED
  BY <1>1, <1>2, <1>3, <1>5, <1>6, <1>7, <1>8, <1>9 DEF OnTime

LEMMA WriteInTime ==
  ASSUME Inv, Sizes, Sizes', Timely, NEW t, Dated(t), OnTime(t), WriteCompare
  PROVE  OnTime(t)'
<1>1. /\ pc = "arm" /\ compare' = armed /\ irq' = FALSE /\ pc' = then /\ UNCHANGED links
      /\ UNCHANGED <<current_lcount, current_wall_time, count, at, then>>
  BY DEF WriteCompare, wall
<1>2. lcount'[t] = lcount[t] /\ Slack(t)' = Slack(t) /\ Later(t)' = Later(t) /\ (Due(at)' <=> Due(at))
  BY <1>1, QueueIsSame DEF Due, links
<1>3. CASE then = "pass"
  <2>1. Serving /\ pc' = "pass" /\ then' = "pass"
    BY <1>1, <1>3 DEF Serving
  <2>2. QED
    BY <1>1, <1>2, <2>1 DEF OnTime
<1>4. CASE then = "idle"
  <2>1. PICK a : Meant(a)
    BY <1>1 DEF Timely, Arming
  <2>2. a \in Int /\ a % Wrap = armed
    BY <2>1 DEF Meant
  <2>3. count + Margin <= a + since /\ (a + since <= count + Margin \/ a <= lcount[next[Q]])
    BY <2>1 DEF Meant
  <2>4. /\ count \in Nat /\ since \in Nat /\ lcount[t] \in Nat /\ Slack(t) \in Nat
        /\ Later(t) = lcount[t] + Slack(t) + Latency + Margin /\ lcount[next[Q]] <= lcount[t]
        /\ lcount[next[Q]] \in Nat
    BY DEF Sizes, Dated
  <2>5. since <= Spend /\ count <= lcount[t] + Slack(t) + Latency + since
    BY <1>1, <1>4 DEF Timely, Arming, OnTime
  <2>13. a \in Int
    BY <2>2
  <2>6. count < a /\ a <= Later(t)
    BY <2>3, <2>4, <2>5, <2>13, Widths
  <2>7. PICK m \in Nat : m = ToMatch'
    BY DEF Sizes
  <2>8. m <= a - count
    <3>1. To(a % Wrap, count) <= a - count
      BY <2>2, <2>4, <2>6, MatchBy
    <3>2. m = To(a % Wrap, count)
      BY <1>1, <2>2, <2>7 DEF ToMatch, To
    <3>3. QED
      BY <3>1, <3>2
  <2>9. Later(t) \in Nat
    BY DEF Dated
  <2>10. count + m <= Later(t)
    BY <2>4, <2>6, <2>8, <2>9, <2>13
  <2>11. count' + ToMatch' <= Later(t)'
    BY <1>1, <1>2, <2>7, <2>10
  <2>12. QED
    BY <1>1, <1>4, <2>11 DEF OnTime, Serving
<1>5. QED
  BY <1>3, <1>4 DEF Inv, Numbers

LEMMA EnterInTime ==
  ASSUME Sizes, Timely, RequestsApart, NEW t, Dated(t), EnterRequest
  PROVE  OnTime(t)'
<1>1. /\ pc = "idle" /\ ~irq /\ since >= Pause /\ pc' = "request" /\ late' = 0
      /\ UNCHANGED links /\ count' = count
  BY DEF EnterRequest
<1>2. lcount'[t] = lcount[t]
  BY <1>1, QueueIsSame
<1>3. ToMatch + since <= Margin \/ ToMatch <= lcount[next[Q]] - count
  BY <1>1 DEF Timely, Armed
<1>4. /\ count \in Nat /\ since \in Nat /\ ToMatch \in Nat /\ ToMatch >= 1 /\ lcount[t] \in Nat
      /\ lcount[next[Q]] <= lcount[t] /\ lcount[next[Q]] \in Nat
  BY DEF Sizes, Dated
<1>5. count < lcount[t] + 0
  BY <1>1, <1>3, <1>4, Widths DEF RequestsApart
<1>6. QED
  BY <1>1, <1>2, <1>5 DEF OnTime, Serving

LEMMA IrqInTime ==
  ASSUME WrapIsLong, Inv, Timely, HeadFacts', NEW t \in active, Dated(t), OnTime(t), TimeIrq
  PROVE  OnTime(t)'
<1>1. /\ pc = "idle" /\ irq /\ pc' = "pass" /\ at' = next[Q] /\ UNCHANGED links
      /\ current_lcount' = time_get_lcount
  BY DEF TimeIrq, UpdateWallTime
<1>2. lcount'[t] = lcount[t] /\ Slack(t)' = Slack(t) /\ next' = next /\ t \in active' /\ time' = time
  BY <1>1, QueueIsSame DEF links
<1>3. current_lcount' = count
  BY <1>1, NowIsCount DEF Timely
<1>4. count <= lcount[t] + Slack(t) + Skip
  <2>1. /\ count <= Later(t) + late
        /\ lcount[t] \in Nat /\ Slack(t) \in Nat
        /\ Later(t) = lcount[t] + Slack(t) + Latency + Margin
    BY <1>1 DEF OnTime, Dated
  <2>2. late \in Nat /\ late <= Latency /\ count \in Nat
    BY Widths DEF Inv, Numbers
  <2>3. QED
    BY <2>1, <2>2, SlackIsShort, Widths
<1>5. ASSUME lcount[t] <= current_lcount' PROVE Due(at)'
  <2>1. time'[t] <= current_wall_time' /\ time'[next'[Q]] <= time'[t] /\ next'[Q] \in active'
        /\ time'[t] \in Nat /\ time'[next'[Q]] \in Nat /\ active' \subseteq Timers
    BY <1>2, <1>5 DEF HeadFacts
  <2>2. next'[Q] # Q
    BY <2>1, QNotTimer
  <2>3. current_wall_time' \in Nat
    <3>1. UpdateWallTime
      BY DEF TimeIrq
    <3>2. QED
      BY <3>1, WallTimeUpdated DEF Updated, Inv
  <2>4. time'[next'[Q]] <= current_wall_time'
    BY <2>1, <2>3
  <2>5. QED
    BY <1>1, <1>2, <2>2, <2>4 DEF Due
<1>6. lcount[t] <= current_lcount'
        => current_lcount' <= lcount[t] + Slack(t) + (IF Due(at)' THEN Skip ELSE 0)
  BY <1>3, <1>4, <1>5
<1>7. QED
  BY <1>1, <1>2, <1>6 DEF OnTime

\* A request: COMPARE is about to be written, and no timer's count is over.
LEMMA ArmsInTime ==
  ASSUME Inv, Sizes, NEW t, lcount'[t] \in Nat, Slack(t)' \in Nat, count' = count,
         pc' = "arm", then' = "idle", since' = 0,
         NEW l \in Nat, l = lcount'[t], NEW s \in Nat, s = Slack(t)', count <= l + s + Latency
  PROVE  OnTime(t)'
<1>1. count <= l + s + Latency + 0
  BY Widths DEF Sizes
<1>2. count' <= lcount'[t] + Slack(t)' + Latency + since'
  BY <1>1
<1>3. QED
  BY <1>2 DEF OnTime, Serving

LEMMA RequestInTime ==
  ASSUME WrapIsLong, Inv, Sizes, Timely, InTime, NEW t \in active',
         FuncRequest \/ \E g \in Guests, d \in Delays : GuestTimer(g, d)
  PROVE  OnTime(t)'
<1>0. pc = "request"
  BY DEF FuncRequest, GuestTimer
<1>1. time_get_lcount = count
  BY <1>0, NowIsCount DEF Timely
<1>2. /\ count \in Nat /\ late \in Nat /\ late <= Latency /\ current_lcount \in Nat
  BY DEF Sizes
<1>3. PICK s \in Nat : s = Slack(t)'
  <2>1. PICK p \in {0, Skip}, q \in {0, Skip} : p + q = Slack(t)'
    BY DEF Slack
  <2>2. p + q \in Nat
    BY SlackIsShort
  <2>3. QED
    BY <2>1, <2>2
<1>4. ASSUME t \in active, lcount'[t] = lcount[t]
      PROVE  \E l \in Nat : l = lcount'[t] /\ count <= l + s + Latency
  <2>1. OnTime(t) /\ Dated(t)
    BY <1>4, TimersAreDated DEF InTime
  <2>2. lcount[t] \in Nat /\ count < lcount[t] + late
    BY <1>0, <2>1 DEF OnTime, Dated
  <2>3. count <= lcount[t] + s + Latency
    BY <1>2, <2>2, Widths
  <2>4. QED
    BY <1>4, <2>2, <2>3
<1>5. CASE FuncRequest
  <2> DEFINE x == current_wall_time' + FirstTime
  <2>1. /\ Put(Func, x, CountOf(x)) /\ Updated /\ count' = count
        /\ pc' = "arm" /\ then' = "idle" /\ since' = 0
    BY <1>5, FuncRequestFacts
  <2>2. active' = active \cup {Func} /\ lcount' = [lcount EXCEPT ![Func] = CountOf(x)]
        /\ lcount \in [Timers -> Nat] /\ x \in Nat /\ active \subseteq Timers
    BY <2>1, QueueFields DEF Put, Inv
  <2>3. CASE t # Func
    <3>1. t \in active /\ lcount'[t] = lcount[t]
      BY <2>2, <2>3
    <3>2. QED
      BY <1>3, <1>4, <2>1, <3>1, ArmsInTime
  <2>4. CASE t = Func
    <3>1. lcount'[t] = CountOf(x)
      BY <2>2, <2>4, Names
    <3>2. count < lcount[Tick] + late /\ lcount[Tick] <= current_lcount + TickCounts
          /\ lcount[Tick] \in Nat
      <4>1. Tick \in active /\ HeadFacts
        BY HeadIsFirst DEF Inv, Clock
      <4>2. OnTime(Tick)
        BY <4>1 DEF InTime
      <4>3. QED
        BY <1>0, <4>1, <4>2 DEF OnTime, HeadFacts
    <3>3. PICK k \in Nat : k = current_lcount'
      BY <2>1 DEF Updated
    <3>4. current_lcount <= k /\ current_wall_time' = TimeOf(k)
      BY <2>1, <3>3 DEF Updated
    <3>5. PICK e \in Int : e = TickTime \div Mult /\ TickCounts = 1 + e /\ Mult * e <= TickTime
      <4>1. /\ TickTime \div Mult \in Int /\ TickTime % Mult \in 0 .. Mult - 1
            /\ TickTime = Mult * (TickTime \div Mult) + (TickTime % Mult)
        BY Widths, DivMod
      <4>2. PICK e \in Int, r \in 0 .. Mult - 1 : e = TickTime \div Mult /\ TickTime = Mult * e + r
        BY <4>1
      <4>3. Mult * e \in Int
        BY Widths, Multiples
      <4>4. TickTime = Mult * e + r
        BY <4>2
      <4>5. Mult * e <= TickTime
        BY <4>3, <4>4, Widths
      <4>6. QED
        BY <4>2, <4>5 DEF TickCounts
    <3>6. k + e <= CountOf(x)
      <4>1. k + e \in Int /\ k \in Int /\ (k + e) - k = e
        OBVIOUS
      <4>2. TimeOf(k + e) = TimeOf(k) + e * Mult /\ TimeOf(k) \in Int /\ TimeOf(k + e) \in Int
        BY <4>1, TimesDiffer
      <4>3. e * Mult = Mult * e /\ Mult * e \in Int
        BY Widths, Multiples
      <4>4. x = TimeOf(k) + FirstTime
        BY <3>4
      <4>5. CountOf(x) \in Nat /\ TimeOf(CountOf(x)) >= x
        BY <2>2, CountIsFirst
      <4>6. TimeOf(CountOf(x)) \in Int /\ CountOf(x) \in Int
        BY <4>5, TimesGrow
      <4>7. PICK y \in Nat : y = x
        BY <2>2
      <4>8. Mult * e <= TickTime
        BY <3>5
      <4>9. y = TimeOf(k) + FirstTime /\ TimeOf(CountOf(x)) >= y
        BY <4>4, <4>5, <4>7
      <4> HIDE DEF x
      <4>10. TimeOf(k + e) <= TimeOf(CountOf(x))
        BY <4>2, <4>3, <4>6, <4>8, <4>9, Widths
      <4>11. QED
        BY <4>1, <4>6, <4>10, TimesGrow
    <3>7. PICK l \in Nat : l = CountOf(x)
      BY <2>2, CountIsFirst
    <3>8. k + e <= l /\ TickCounts = 1 + e
      BY <3>5, <3>6, <3>7
    <3>9. count <= l + s + Latency
      BY <1>2, <3>2, <3>4, <3>8, Widths
    <3>10. l = lcount'[t]
      BY <3>1, <3>7
    <3>11. QED
      BY <1>3, <2>1, <3>9, <3>10, ArmsInTime
  <2>5. QED
    BY <2>3, <2>4
<1>6. ASSUME NEW g \in Guests, NEW d \in Delays, GuestTimer(g, d) PROVE OnTime(t)'
  <2>1. /\ Put(g, TimeOf(count + d), count + d) /\ count' = count
        /\ pc' = "arm" /\ then' = "idle" /\ since' = 0
    BY <1>1, <1>6, GuestTimerFacts
  <2>2. active' = active \cup {g} /\ lcount' = [lcount EXCEPT ![g] = count + d]
        /\ lcount \in [Timers -> Nat] /\ active \subseteq Timers
    BY <2>1, QueueFields DEF Put, Inv
  <2>3. CASE t # g
    <3>1. t \in active /\ lcount'[t] = lcount[t]
      BY <2>2, <2>3
    <3>2. QED
      BY <1>3, <1>4, <2>1, <3>1, ArmsInTime
  <2>4. CASE t = g
    <3>1. lcount'[t] = count + d /\ d \in Nat
      BY <2>2, <2>4, Names
    <3>2. PICK l \in Nat : l = lcount'[t] /\ count <= l
      BY <1>2, <3>1
    <3>3. count <= l
      BY <3>2
    <3>4. count <= l + s + Latency
      BY <1>2, <3>3, Widths
    <3>5. QED
      BY <1>3, <2>1, <3>2, <3>4, ArmsInTime
  <2>5. QED
    BY <2>3, <2>4
<1>7. QED
  BY <1>5, <1>6

\* The tick, or the function timer, is put back behind what is due.
LEMMA PutBackInTime ==
  ASSUME Inv, InTime, NEW s \in {Tick, Func}, NEW x, Put(s, x, CountOf(x)),
         s \in active, at = s, Due(s), pc = "pass", x > current_wall_time,
         UNCHANGED <<current_lcount, current_wall_time>>,
         pc' = "pass" \/ (pc' = "arm" /\ then' = "pass"),
         NEW t \in active'
  PROVE  OnTime(t)'
<1>1. /\ active' = active /\ time' = [time EXCEPT ![s] = x] /\ x \in Nat
      /\ lcount' = [lcount EXCEPT ![s] = CountOf(x)]
      /\ time \in [Timers -> Nat] /\ lcount \in [Timers -> Nat] /\ active \subseteq Timers
      /\ s \in Timers /\ Tick \in Timers /\ Func \in Timers /\ Tick # Func
  BY QueueFields, Names DEF Put, Inv
<1>2. /\ current_lcount \in Nat /\ current_wall_time \in Nat /\ current_wall_time = TimeOf(current_lcount)
  BY DEF Inv, Numbers, Clock
<1>3. ASSUME lcount'[t] <= current_lcount
      PROVE  /\ t # s /\ lcount'[t] = lcount[t] /\ time'[t] = time[t]
             /\ lcount[t] <= current_lcount
             /\ time[t] <= current_wall_time /\ time[s] <= time[t]
  <2>1. t # s
    <3>1. TimeOf(current_lcount) < x /\ current_lcount \in Int
      BY <1>1, <1>2
    <3>2. current_lcount < CountOf(x) /\ CountOf(x) \in Nat
      BY <1>1, <3>1, CeilDates
    <3>3. t = s => lcount'[t] = CountOf(x)
      BY <1>1
    <3>4. QED
      BY <1>2, <1>3, <3>2, <3>3
  <2>2. t \in active /\ lcount'[t] = lcount[t] /\ time'[t] = time[t]
    BY <1>1, <2>1
  <2>3. HeadFacts
    BY HeadIsFirst
  <2>4. s = next[Q]
    BY DEF Inv, Loop, Serving
  <2>5. QED
    BY <1>3, <2>1, <2>2, <2>3, <2>4 DEF HeadFacts
<1>4. ASSUME lcount'[t] <= current_lcount
      PROVE  Slack(t)' = Slack(t) + Skip
  <2>1. /\ time'[t] = time[t] /\ time[t] \in Nat /\ time[s] <= time[t] /\ ~ (x <= time[t])
        /\ time'[s] = x
    <3>1. t \in Timers /\ time[t] <= current_wall_time /\ time[s] <= time[t] /\ time'[t] = time[t]
      BY <1>1, <1>3, <1>4
    <3>2. time[t] \in Nat /\ time'[s] = x
      BY <1>1, <3>1
    <3>3. QED
      BY <1>1, <1>2, <3>1, <3>2
  <2>2. CASE s = Tick
    <3>1. time'[Func] = time[Func] /\ active' = active
      BY <1>1, <2>2
    <3>2. PICK q \in {0, Skip} : /\ q = (IF Func \in active /\ time[Func] <= time[t] THEN 0 ELSE Skip)
                                /\ Slack(t) = 0 + q /\ Slack(t)' = Skip + q
      BY <2>1, <2>2, <3>1 DEF Slack
    <3>3. Skip + q = 0 + q + Skip
      BY SlackIsShort
    <3>4. QED
      BY <3>2, <3>3
  <2>3. CASE s = Func
    <3>1. time'[Tick] = time[Tick] /\ active' = active
      BY <1>1, <2>3
    <3>2. PICK q \in {0, Skip} : /\ q = (IF time[Tick] <= time[t] THEN 0 ELSE Skip)
                                /\ Slack(t) = q + 0 /\ Slack(t)' = q + Skip
      BY <2>1, <2>3, <3>1 DEF Slack
    <3>3. q + Skip = q + 0 + Skip
      BY SlackIsShort
    <3>4. QED
      BY <3>2, <3>3
  <2>4. QED
    BY <2>2, <2>3
<1>5. ASSUME lcount'[t] <= current_lcount
      PROVE  current_lcount <= lcount[t] + (Slack(t) + Skip) + 0
  <2>1. OnTime(t) /\ lcount[t] <= current_lcount /\ lcount[t] \in Nat
    BY <1>1, <1>3, <1>5 DEF InTime
  <2>2. current_lcount <= lcount[t] + Slack(t) + Skip
    BY <2>1 DEF OnTime, Serving
  <2>3. QED
    BY <1>2, <2>1, <2>2, SlackIsShort
<1>6. ASSUME lcount'[t] <= current_lcount'
      PROVE  current_lcount' <= lcount'[t] + Slack(t)' + (IF Due(at)' THEN Skip ELSE 0)
  <2>1. lcount'[t] <= current_lcount /\ lcount'[t] = lcount[t] /\ Slack(t)' = Slack(t) + Skip
        /\ t \in active /\ current_lcount <= lcount[t] + (Slack(t) + Skip) + 0
    BY <1>1, <1>3, <1>4, <1>5, <1>6
  <2>2. PICK d \in {0, Skip} : d = IF Due(at)' THEN Skip ELSE 0
    OBVIOUS
  <2>3. lcount[t] \in Nat /\ Slack(t) \in Nat
    BY <1>1, <2>1, SlackIsShort
  <2>4. current_lcount <= lcount[t] + (Slack(t) + Skip) + d
    <3>1. current_lcount <= lcount[t] + (Slack(t) + Skip) + 0
      BY <2>1
    <3>2. QED
      BY <1>2, <2>3, <3>1, SlackIsShort
  <2>5. QED
    BY <2>1, <2>2, <2>4
<1>7. QED
  BY <1>6 DEF OnTime, Serving

LEMMA GuestInTime ==
  ASSUME Inv, InTime, HeadFacts', HandleGuest, NEW t \in active'
  PROVE  OnTime(t)'
<1>1. /\ active' = active \ {at} /\ time' = time /\ lcount' = lcount /\ at' = next'[Q]
      /\ pc' = "pass" /\ pc = "pass" /\ Due(at) /\ at \in Guests
      /\ UNCHANGED <<current_lcount, current_wall_time>>
  BY HandleGuestFacts DEF Taken, wall
<1>2. t \in active /\ (Func \in active' <=> Func \in active)
  BY <1>1, Names
<1>3. Slack(t)' = Slack(t)
  BY <1>1, <1>2 DEF Slack
<1>4. ASSUME lcount[t] <= current_lcount PROVE Due(at)'
  <2>1. lcount'[t] <= current_lcount'
    BY <1>1, <1>4
  <2>2. time'[t] <= current_wall_time' /\ time'[next'[Q]] <= time'[t] /\ next'[Q] \in active'
        /\ time'[t] \in Nat /\ time'[next'[Q]] \in Nat /\ active' \subseteq Timers
    BY <2>1 DEF HeadFacts
  <2>3. next'[Q] # Q
    BY <2>2, QNotTimer
  <2>4. current_wall_time \in Nat
    BY DEF Inv, Numbers
  <2>5. time'[next'[Q]] <= current_wall_time
    BY <1>1, <2>2, <2>4
  <2>6. QED
    BY <1>1, <2>3, <2>5 DEF Due
<1>5. OnTime(t)
  BY <1>2 DEF InTime
<1>6. lcount'[t] <= current_lcount'
        => current_lcount' <= lcount'[t] + Slack(t)' + (IF Due(at)' THEN Skip ELSE 0)
  BY <1>1, <1>3, <1>4, <1>5 DEF OnTime, Serving
<1>7. QED
  BY <1>1, <1>6 DEF OnTime

LEMMA EndInTime ==
  ASSUME Inv, Sizes, Timely, InTime, EndPass, NEW t \in active'
  PROVE  OnTime(t)'
<1>1. /\ UNCHANGED links /\ UNCHANGED <<current_lcount, count>> /\ ~Due(at)
      /\ pc = "pass" /\ pc' = "arm" /\ then' = "idle" /\ since' = 0
  BY DEF EndPass, Arm, wall
<1>2. t \in active /\ lcount'[t] = lcount[t] /\ Slack(t)' = Slack(t)
  BY <1>1, QueueIsSame DEF links
<1>3. OnTime(t) /\ Dated(t)
  BY <1>2, TimersAreDated DEF InTime
<1>4. count <= current_lcount + late /\ late <= Latency /\ late \in Nat /\ count \in Nat
      /\ current_lcount \in Nat
  BY <1>1 DEF Timely, KeepsUp, Serving, Sizes
<1>5. lcount[t] <= current_lcount => current_lcount <= lcount[t] + Slack(t) + 0
  BY <1>1, <1>3 DEF OnTime, Serving
<1>6. lcount[t] \in Nat /\ Slack(t) \in Nat
  BY <1>3 DEF Dated
<1>7. count <= lcount[t] + Slack(t) + Latency + 0
  BY <1>4, <1>5, <1>6, Widths
<1>8. count' <= lcount'[t] + Slack(t)' + Latency + since'
  BY <1>1, <1>2, <1>7
<1>9. QED
  BY <1>1, <1>8 DEF OnTime, Serving

LEMMA NextInTime ==
  ASSUME WrapIsLong, RequestsApart, Inv, Inv', Timely, InTime, [Next]_vars
  PROVE  InTime'
<1>1. Sizes /\ Sizes' /\ HeadFacts'
  BY SizesHold, HeadIsFirst, PTL
<1>2. SUFFICES ASSUME NEW t \in active' PROVE OnTime(t)'
  BY DEF InTime
<1>3. ASSUME t \in active PROVE OnTime(t) /\ Dated(t)
  BY <1>3, TimersAreDated DEF InTime
<1>4. CASE UNCHANGED vars
  <2>1. UNCHANGED links /\ UNCHANGED <<current_lcount, current_wall_time, count, compare, irq, pc, at, then, late, since>>
        /\ t \in active
    BY <1>4 DEF vars, wall, links
  <2>2. lcount'[t] = lcount[t] /\ Slack(t)' = Slack(t) /\ Later(t)' = Later(t)
    BY <2>1, QueueIsSame
  <2>3. (Due(at)' <=> Due(at)) /\ (Serving' <=> Serving) /\ ToMatch' = ToMatch
    BY <2>1 DEF Due, Serving, links, ToMatch
  <2>4. QED
    BY <1>3, <2>1, <2>2, <2>3 DEF OnTime
<1>5. CASE Count \/ WriteCompare \/ EnterRequest \/ TimeIrq
  <2>1. t \in active
    BY <1>5 DEF Count, WriteCompare, EnterRequest, TimeIrq, links
  <2>2. QED
    BY <1>1, <1>3, <1>5, <2>1, CountInTime, WriteInTime, EnterInTime, IrqInTime
<1>6. CASE HandleTick
  <2>1. /\ Put(Tick, NextTick, CountOf(NextTick)) /\ at = Tick /\ Due(Tick) /\ pc = "pass"
        /\ current_wall_time + 1 < NextTick /\ pc' = "pass"
        /\ UNCHANGED <<current_lcount, current_wall_time>>
    BY <1>6, HandleTickFacts DEF wall
  <2>2. Tick \in active /\ NextTick \in Nat /\ current_wall_time \in Nat
    BY <2>1 DEF Inv, Clock, Numbers, Put
  <2>3. NextTick > current_wall_time
    BY <2>1, <2>2
  <2>4. QED
    BY <2>1, <2>2, <2>3, PutBackInTime
<1>7. CASE HandleFunc
  <2> DEFINE x == current_wall_time + FuncTime
  <2>1. /\ Put(Func, x, CountOf(x)) /\ at = Func /\ Due(Func) /\ pc = "pass" /\ Func \in active
        /\ pc' = "arm" /\ then' = "pass"
        /\ UNCHANGED <<current_lcount, current_wall_time>>
    BY <1>7, HandleFuncFacts DEF wall
  <2>2. x > current_wall_time
    BY Widths DEF Inv, Numbers
  <2> HIDE DEF x
  <2>3. QED
    BY <2>1, <2>2, PutBackInTime
<1>8. QED
  BY <1>1, <1>4, <1>5, <1>6, <1>7, RequestInTime, GuestInTime, EndInTime DEF Next

LEMMA InitInTime == Init => InTime
<1> SUFFICES ASSUME Init, NEW t \in active PROVE OnTime(t)
  BY DEF InTime
<1>1. Inv /\ Sizes /\ Timely /\ Dated(t)
  BY InitInv, SizesHold, InitTimely, TimersAreDated
<1>2. t = Tick /\ pc = "idle" /\ irq = FALSE /\ count = Start /\ current_lcount = Start
      /\ since = 0 /\ next[Q] = Tick
  BY Names, QNotTimer DEF Init, Links
<1>3. ToMatch + since <= Margin \/ ToMatch <= lcount[next[Q]] - count
  BY <1>1, <1>2 DEF Timely, Armed
<1>4. Start < lcount[Tick] /\ lcount[Tick] \in Nat
  <2>1. TickTime \in Nat /\ TimeOf(Start) < TickTime /\ Start \in Int
    BY TimesGrow, Widths
  <2>2. Start < CountOf(TickTime) /\ CountOf(TickTime) \in Nat
    BY <2>1, CeilDates
  <2>3. lcount[Tick] = CountOf(TickTime)
    BY Names DEF Init
  <2>4. QED
    BY <2>2, <2>3
<1>5. count + ToMatch <= Later(t)
  <2>1. /\ Later(t) = lcount[t] + Slack(t) + Latency + Margin /\ Slack(t) \in Nat
        /\ ToMatch \in Nat /\ count \in Nat
    BY <1>1 DEF Dated, Sizes
  <2>2. QED
    BY <1>2, <1>3, <1>4, <2>1, Widths
<1>6. QED
  BY <1>2, <1>5 DEF OnTime, Serving

(* No timer that is due is left behind: also when the loop of time_irq skips *)
(* it twice and every COMPARE is put off by the margin, it is taken out of   *)
(* the queue within MaxLate counts, as long as requests are a margin apart.  *)
THEOREM TimersFireInTime ==
  ASSUME WrapIsLong, RequestsApart PROVE Spec => []FiresInTime
<1>1. Init => Timely /\ InTime
  BY InitTimely, InitInTime
<1>2. Inv /\ Inv' /\ Timely /\ InTime /\ [Next]_vars => Timely' /\ InTime'
  BY NextTimely, NextInTime
<1>3. Inv /\ Timely /\ InTime => FiresInTime
  <2> SUFFICES ASSUME Inv, Timely, InTime, NEW t \in active
               PROVE  count - lcount[t] <= MaxLate
    BY DEF FiresInTime
  <2>1. Sizes /\ Dated(t) /\ OnTime(t)
    BY SizesHold, TimersAreDated DEF InTime
  <2>2. /\ count \in Nat /\ current_lcount \in Nat /\ late \in Nat /\ late <= Latency /\ since \in Nat
        /\ ToMatch \in Nat /\ ToMatch >= 1
        /\ lcount[t] \in Nat /\ Slack(t) \in Nat /\ Slack(t) <= 2 * Skip
        /\ Later(t) = lcount[t] + Slack(t) + Latency + Margin
        /\ Skip \in Nat /\ Skip = Margin + 2 * Latency
    BY <2>1, SlackIsShort DEF Sizes, Dated
  <2>3. CASE pc = "idle"
    <3>1. count <= Later(t) + late
      BY <2>1, <2>2, <2>3, Widths DEF OnTime
    <3>2. QED
      BY <2>2, <3>1, Widths DEF MaxLate
  <2>4. CASE pc = "request"
    BY <2>1, <2>2, <2>4, Widths DEF OnTime, MaxLate
  <2>5. CASE pc = "arm" /\ then = "idle"
    <3>1. count <= lcount[t] + Slack(t) + Latency + since /\ since <= Spend
      BY <2>1, <2>5 DEF OnTime, Timely, Arming
    <3>2. QED
      BY <2>2, <3>1, Widths DEF MaxLate
  <2>6. CASE Serving
    <3>1. count <= current_lcount + late
      BY <2>6 DEF Timely, KeepsUp
    <3>2. PICK d \in {0, Skip} :
            lcount[t] <= current_lcount => current_lcount <= lcount[t] + Slack(t) + d
      BY <2>1, <2>6 DEF OnTime
    <3>3. current_lcount <= lcount[t] + Slack(t) + Skip
      BY <2>2, <3>2
    <3>4. QED
      BY <2>2, <3>1, <3>3, Widths DEF MaxLate
  <2>7. QED
    BY <2>3, <2>4, <2>5, <2>6 DEF Inv, Numbers, Serving
<1>4. QED
  BY <1>1, <1>2, <1>3, InvAlways, PTL DEF Spec
====
