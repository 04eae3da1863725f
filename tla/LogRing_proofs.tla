---------------------------- MODULE LogRing_proofs ----------------------------
(***************************************************************************)
(* Proofs about LogRing, for a ring and a FIFO of any size and for any      *)
(* lines: the indices stay in the ring, and the log is a Transcript, which  *)
(* loses text only where it overruns the ring, the oldest first.            *)
(***************************************************************************)
EXTENDS LogRing, WellFoundedInduction, TLAPS

-----------------------------------------------------------------------------
(* Induction over Nat, on sets                                               *)

LEMMA LeastNat ==
  ASSUME NEW S \in SUBSET Nat, S # {}
  PROVE  \E n \in S : \A m \in S : n <= m
<1> DEFINE R == {ss \in Nat \X Nat : ss[1] < ss[2]}
<1>1. IsWellFoundedOn(R, Nat)
  BY NatLessThanWellFounded DEF OpToRel
<1>2. \A m, n \in Nat : m < n => <<m, n>> \in R
  OBVIOUS
<1> HIDE DEF R
<1>3. PICK n \in S : \A m \in S : ~(<<m, n>> \in R)
  BY <1>1, WFMin
<1>4. ASSUME NEW m \in S PROVE n <= m
  <2>1. m \in Nat /\ n \in Nat /\ ~(m < n)
    BY <1>2, <1>3
  <2>2. QED
    BY <2>1
<1>5. QED
  BY <1>4

LEMMA NatInd ==
  ASSUME NEW S, 0 \in S, \A n \in Nat : n \in S => n + 1 \in S
  PROVE  Nat \subseteq S
<1> SUFFICES ASSUME Nat \ S # {} PROVE FALSE
  OBVIOUS
<1>1. PICK n \in Nat \ S : \A m \in Nat \ S : n <= m
  BY LeastNat
<1>2. n # 0 /\ n - 1 \in Nat /\ n - 1 \in S
  BY <1>1
<1>3. QED
  BY <1>1, <1>2

-----------------------------------------------------------------------------
(* Sequences of sequences, one behind the other                              *)

\* What FlattenSeq builds, up to its n-th sequence.
Upto(s, n, f) == f = [i \in 1 .. n |-> IF i = 1 THEN s[i] ELSE f[i - 1] \o s[i]]

LEMMA UptoExists ==
  ASSUME NEW s, NEW n \in Nat
  PROVE  \E f : Upto(s, n, f)
<1> DEFINE T == {k \in Nat : \E f : Upto(s, k, f)}
<1>1. 0 \in T
  <2>1. Upto(s, 0, [i \in 1 .. 0 |-> s[i]])
    BY DEF Upto
  <2>2. QED
    BY <2>1
<1>2. ASSUME NEW k \in Nat, k \in T PROVE k + 1 \in T
  <2>1. PICK f : Upto(s, k, f)
    BY <1>2
  <2> DEFINE g == [i \in 1 .. k + 1 |->
                     IF i <= k THEN f[i]
                     ELSE IF i = 1 THEN s[i] ELSE f[i - 1] \o s[i]]
  <2>2. ASSUME NEW i \in 1 .. k + 1
        PROVE  g[i] = IF i = 1 THEN s[i] ELSE g[i - 1] \o s[i]
    <3>1. CASE i <= k
      <4>1. i \in 1 .. k /\ g[i] = f[i]
        BY <3>1
      <4>2. i # 1 => g[i - 1] = f[i - 1]
        BY <3>1
      <4>3. f[i] = IF i = 1 THEN s[i] ELSE f[i - 1] \o s[i]
        BY <2>1, <4>1 DEF Upto
      <4>4. QED
        BY <4>1, <4>2, <4>3
    <3>2. CASE ~(i <= k)
      <4>1. i = k + 1
        BY <3>2
      <4>2. g[i] = IF i = 1 THEN s[i] ELSE f[i - 1] \o s[i]
        BY <4>1
      <4>3. i # 1 => g[i - 1] = f[i - 1]
        BY <4>1
      <4>4. QED
        BY <4>2, <4>3
    <3>3. QED
      BY <3>1, <3>2
  <2>3. g = [i \in 1 .. k + 1 |-> IF i = 1 THEN s[i] ELSE g[i - 1] \o s[i]]
    <3>1. DOMAIN g = 1 .. k + 1 /\ g = [i \in 1 .. k + 1 |-> g[i]]
      OBVIOUS
    <3> HIDE DEF g
    <3>2. QED
      BY <2>2, <3>1
  <2>4. Upto(s, k + 1, g)
    <3> HIDE DEF g
    <3>1. QED BY <2>3 DEF Upto
  <2>5. QED
    BY <2>4
<1>3. Nat \subseteq T
  <2> HIDE DEF T
  <2>1. QED BY <1>1, <1>2, NatInd
<1>4. QED
  BY <1>3

\* What is flattened is a sequence.
LEMMA FlattenIsSeq ==
  ASSUME NEW S, NEW s \in Seq(Seq(S))
  PROVE  FlattenSeq(s) \in Seq(S)
<1>1. CASE Len(s) = 0
  <2>1. s = <<>> /\ <<>> \in Seq(S)
    BY <1>1
  <2>2. FlattenSeq(s) = s
    BY <1>1 DEF FlattenSeq
  <2>3. QED
    BY <2>1, <2>2
<1>2. CASE Len(s) # 0
  <2> DEFINE n == Len(s)
             f == CHOOSE h : Upto(s, n, h)
  <2>1. n \in Nat /\ n # 0
    BY <1>2
  <2>2. Upto(s, n, f)
    BY <2>1, UptoExists
  <2>3. FlattenSeq(s) = f[n]
    BY <1>2 DEF FlattenSeq, Upto
  <2> DEFINE T == {k \in Nat : k + 1 <= n => f[k + 1] \in Seq(S)}
  <2> HIDE DEF n, f
  <2>4. ASSUME NEW i \in 1 .. n
        PROVE  s[i] \in Seq(S) /\ f[i] = IF i = 1 THEN s[i] ELSE f[i - 1] \o s[i]
    <3>1. s[i] \in Seq(S)
      BY <2>1 DEF n
    <3>2. f[i] = IF i = 1 THEN s[i] ELSE f[i - 1] \o s[i]
      BY <2>2 DEF Upto
    <3>3. QED
      BY <3>1, <3>2
  <2>5. 0 \in T
    BY <2>1, <2>4
  <2>6. ASSUME NEW k \in Nat, k \in T PROVE k + 1 \in T
    <3> SUFFICES ASSUME (k + 1) + 1 <= n PROVE f[(k + 1) + 1] \in Seq(S)
      OBVIOUS
    <3>1. f[k + 1] \in Seq(S)
      BY <2>1, <2>6
    <3>2. (k + 1) + 1 \in 1 .. n /\ (k + 1) + 1 # 1 /\ ((k + 1) + 1) - 1 = k + 1
      BY <2>1
    <3>3. f[(k + 1) + 1] = f[k + 1] \o s[(k + 1) + 1] /\ s[(k + 1) + 1] \in Seq(S)
      BY <2>4, <3>2
    <3>4. QED
      BY <3>1, <3>3
  <2>7. Nat \subseteq T
    <3> HIDE DEF T
    <3>1. QED BY <2>5, <2>6, NatInd
  <2>8. n - 1 \in T /\ (n - 1) + 1 = n
    BY <2>1, <2>7
  <2>9. f[n] \in Seq(S)
    BY <2>1, <2>8
  <2>10. QED
    BY <2>3, <2>9
<1>3. QED
  BY <1>1, <1>2

-----------------------------------------------------------------------------
(* Places of the ring                                                        *)

Places == 0 .. Size - 1

\* Content, of any ring.
ContentOf(b, c, p) == [i \in 1 .. Distance(c, p) |-> b[Place(c, i)]]

LEMMA DistanceIsInRing ==
  ASSUME NEW s \in Places, NEW e \in Places
  PROVE  /\ Distance(s, e) \in Nat /\ Distance(s, e) < Size
         /\ Distance(s, e) = 0 <=> s = e
BY LogAssumption DEF Places, Distance

LEMMA PlaceIsInRing ==
  ASSUME NEW s \in Places, NEW i \in 1 .. Size
  PROVE  /\ Place(s, i) \in Places
         /\ Distance(s, Place(s, i)) = i - 1
BY LogAssumption DEF Places, Place, Distance

LEMMA AfterIsSecond ==
  ASSUME NEW s \in Places
  PROVE  After(s) \in Places /\ Place(s, 1) = s
BY LogAssumption DEF Places, Place, After

\* The place after s is one nearer to e, and its i-th place is the i + 1-st of s.
LEMMA OneNearer ==
  ASSUME NEW s \in Places, NEW e \in Places, s # e
  PROVE  /\ Distance(s, e) = Distance(After(s), e) + 1
         /\ \A i \in 1 .. Size - 1 : Place(After(s), i) = Place(s, i + 1)
BY LogAssumption DEF Places, Place, After, Distance

LEMMA ContentIsSeq ==
  ASSUME NEW S, NEW b \in [Places -> S], NEW c \in Places, NEW p \in Places
  PROVE  ContentOf(b, c, p) \in Seq(S) /\ Len(ContentOf(b, c, p)) = Distance(c, p)
<1>1. Distance(c, p) \in Nat /\ Distance(c, p) < Size
  BY DistanceIsInRing
<1>2. ASSUME NEW i \in 1 .. Distance(c, p) PROVE b[Place(c, i)] \in S
  <2>1. i \in 1 .. Size
    BY <1>1, LogAssumption
  <2>2. QED
    BY <2>1, PlaceIsInRing
<1> DEFINE d == Distance(c, p)
           s == [i \in 1 .. d |-> b[Place(c, i)]]
<1>3. ContentOf(b, c, p) = s
  BY DEF ContentOf
<1>4. s \in Seq(S) /\ Len(s) = d
  <2>1. d \in Nat /\ \A i \in 1 .. d : b[Place(c, i)] \in S
    BY <1>1, <1>2
  <2> HIDE DEF d
  <2>2. s \in [1 .. d -> S]
    BY <2>1
  <2>3. QED
    BY <2>1, <2>2
<1>5. QED
  BY <1>3, <1>4

\* A character read from the ring is the head of what it holds.
LEMMA ReadOne ==
  ASSUME NEW S, NEW b \in [Places -> S], NEW c \in Places, NEW p \in Places, c # p
  PROVE  /\ ContentOf(b, c, p) # <<>>
         /\ Head(ContentOf(b, c, p)) = b[c]
         /\ ContentOf(b, After(c), p) = Tail(ContentOf(b, c, p))
<1> DEFINE d == Distance(c, p)
           s == ContentOf(b, c, p)
           t == ContentOf(b, After(c), p)
<1>1. /\ s \in Seq(S) /\ Len(s) = d /\ t \in Seq(S) /\ d \in 1 .. Size - 1
      /\ Len(t) = d - 1 /\ Distance(After(c), p) = d - 1
  <2>1. After(c) \in Places
    BY AfterIsSecond
  <2>2. s \in Seq(S) /\ Len(s) = d /\ t \in Seq(S) /\ Len(t) = Distance(After(c), p)
    BY <2>1, ContentIsSeq
  <2>3. /\ d \in Nat /\ d < Size /\ d # 0
        /\ Distance(After(c), p) \in Nat /\ d = Distance(After(c), p) + 1
    BY <2>1, DistanceIsInRing, OneNearer
  <2>4. QED
    BY <2>2, <2>3, LogAssumption
<1>2. s[1] = b[c]
  <2>1. 1 \in 1 .. d
    BY <1>1, LogAssumption
  <2>2. s[1] = b[Place(c, 1)]
    BY <2>1 DEF ContentOf
  <2>3. QED
    BY <2>2, AfterIsSecond
<1>3. ASSUME NEW i \in 1 .. d - 1 PROVE t[i] = s[i + 1]
  <2>1. i + 1 \in 1 .. d /\ i \in 1 .. Size - 1
    BY <1>1, LogAssumption
  <2>2. i \in 1 .. Distance(After(c), p)
    BY <1>1
  <2>3. t[i] = b[Place(After(c), i)]
    BY <2>2 DEF ContentOf
  <2>4. s[i + 1] = b[Place(c, i + 1)]
    BY <2>1 DEF ContentOf
  <2>5. QED
    BY <2>1, <2>3, <2>4, OneNearer
<1> HIDE DEF s, t, d
<1>4. s # <<>> /\ Head(s) = b[c]
  BY <1>1, <1>2, LogAssumption
<1>5. t = Tail(s)
  BY <1>1, <1>3, LogAssumption
<1>6. QED
  BY <1>4, <1>5 DEF s, t

\* What _log_output leaves in the ring.
Put(b, p, l) ==
  [q \in 0 .. Size - 1 |-> IF Distance(p, q) < Len(l) THEN l[Distance(p, q) + 1] ELSE b[q]]

LEMMA PutIsRing ==
  ASSUME NEW S, NEW b \in [Places -> S], NEW p \in Places, NEW l \in Seq(S)
  PROVE  Put(b, p, l) \in [Places -> S]
<1>1. ASSUME NEW q \in Places
      PROVE  (IF Distance(p, q) < Len(l) THEN l[Distance(p, q) + 1] ELSE b[q]) \in S
  <2>1. Distance(p, q) \in Nat
    BY DistanceIsInRing
  <2>2. QED
    BY <2>1
<1>2. QED
  BY <1>1 DEF Put, Places

\* The line is in the places from p on, and the others are as they were.
LEMMA PutAt ==
  ASSUME NEW S, NEW b \in [Places -> S], NEW p \in Places, NEW l \in Seq(S),
         NEW i \in 1 .. Size
  PROVE  Put(b, p, l)[Place(p, i)] = IF i <= Len(l) THEN l[i] ELSE b[Place(p, i)]
<1>1. Place(p, i) \in Places /\ Distance(p, Place(p, i)) = i - 1
  BY PlaceIsInRing
<1>2. Put(b, p, l)[Place(p, i)] = IF i - 1 < Len(l) THEN l[(i - 1) + 1] ELSE b[Place(p, i)]
  BY <1>1 DEF Put, Places
<1>3. i - 1 < Len(l) <=> i <= Len(l)
  BY LogAssumption
<1>4. (i - 1) + 1 = i
  BY LogAssumption
<1>5. QED
  BY <1>2, <1>3, <1>4

LEMMA SameSeq ==
  ASSUME NEW S, NEW s \in Seq(S), NEW t \in Seq(S), Len(s) = Len(t),
         \A i \in 1 .. Len(s) : s[i] = t[i]
  PROVE  s = t
OBVIOUS

\* The places of the ring, counted from c and counted from p.
LEMMA FromBoth ==
  ASSUME NEW c \in Places, NEW p \in Places, NEW i \in 1 .. Size
  PROVE  /\ i <= Distance(c, p) =>
              /\ Size - Distance(c, p) + i \in 1 .. Size
              /\ Place(c, i) = Place(p, Size - Distance(c, p) + i)
         /\ i > Distance(c, p) =>
              /\ i - Distance(c, p) \in 1 .. Size
              /\ Place(c, i) = Place(p, i - Distance(c, p))
BY LogAssumption DEF Places, Place, Distance

\* The line makes the text longer, or passes the reader.
LEMMA NewEnd ==
  ASSUME NEW c \in Places, NEW p \in Places, NEW m \in Nat, m < Size
  PROVE  /\ Place(p, m + 1) \in Places
         /\ Distance(c, Place(p, m + 1)) =
              IF Distance(c, p) + m < Size THEN Distance(c, p) + m
              ELSE Distance(c, p) + m - Size
BY LogAssumption DEF Places, Place, Distance

LEMMA PutAppends ==
  ASSUME NEW S, NEW b \in [Places -> S], NEW c \in Places, NEW p \in Places,
         NEW l \in Seq(S), Len(l) < Size, Distance(c, p) + Len(l) < Size
  PROVE  ContentOf(Put(b, p, l), c, Place(p, Len(l) + 1)) = ContentOf(b, c, p) \o l
<1> DEFINE d == Distance(c, p)
           m == Len(l)
           e == Place(p, m + 1)
           old == ContentOf(b, c, p)
           new == ContentOf(Put(b, p, l), c, e)
<1>1. d \in Nat /\ m \in Nat /\ d < Size /\ m < Size /\ d + m < Size
  BY DistanceIsInRing
<1>2. e \in Places /\ Distance(c, e) = d + m
  BY <1>1, NewEnd
<1>3. old \in Seq(S) /\ Len(old) = d
  BY ContentIsSeq
<1>4. new \in Seq(S) /\ Len(new) = d + m
  <2>1. Put(b, p, l) \in [Places -> S]
    BY PutIsRing
  <2> HIDE DEF d, e
  <2>2. QED
    BY <1>2, <2>1, ContentIsSeq
<1>5. ASSUME NEW i \in 1 .. d + m PROVE new[i] = IF i <= d THEN old[i] ELSE l[i - d]
  <2>1. i \in 1 .. Size
    BY <1>1, LogAssumption
  <2>2. new[i] = Put(b, p, l)[Place(c, i)]
    BY <1>2 DEF ContentOf
  <2>3. CASE i <= d
    <3> DEFINE j == Size - d + i
    <3>1. j \in 1 .. Size /\ Place(c, i) = Place(p, j)
      BY <2>1, <2>3, FromBoth
    <3>2. ~(j <= m)
      BY <1>1, <2>1, LogAssumption
    <3> HIDE DEF j
    <3>3. new[i] = b[Place(p, j)]
      BY <2>2, <3>1, <3>2, PutAt
    <3>4. old[i] = b[Place(c, i)]
      BY <1>1, <2>1, <2>3 DEF ContentOf
    <3>5. QED
      BY <2>3, <3>1, <3>3, <3>4
  <2>4. CASE ~(i <= d)
    <3> DEFINE j == i - d
    <3>0. i > d
      BY <1>1, <2>1, <2>4, LogAssumption
    <3>1. j \in 1 .. Size /\ Place(c, i) = Place(p, j)
      BY <2>1, <3>0, FromBoth
    <3>2. j <= m
      BY <1>1, <2>1, LogAssumption
    <3>3. new[i] = l[j]
      <4> HIDE DEF j
      <4>1. QED
        BY <2>2, <3>1, <3>2, PutAt
    <3>4. QED
      BY <2>4, <3>3
  <2>5. QED
    BY <2>3, <2>4
<1> HIDE DEF d, m, new, old
<1>6. m = Len(l)
  BY DEF m
<1>7. new = old \o l
  <2> DEFINE all == old \o l
  <2>1. all \in Seq(S) /\ Len(all) = d + m
    BY <1>3, <1>6
  <2>2. \A i \in 1 .. d + m : all[i] = IF i <= d THEN old[i] ELSE l[i - d]
    BY <1>1, <1>3, <1>6
  <2> HIDE DEF all, e
  <2>3. \A i \in 1 .. d + m : new[i] = all[i]
    BY <1>5, <2>2
  <2>4. new = all
    BY <1>4, <2>1, <2>3, SameSeq
  <2>5. QED
    BY <2>4 DEF all
<1>8. QED
  BY <1>7 DEF new, old, m

\* s is the end of t, and shorter than the ring.
IsEndOf(s, t) == \E n \in 0 .. Size - 1 : s = SubSeq(t, Len(t) - n + 1, Len(t))

LEMMA PutOverruns ==
  ASSUME NEW S, NEW b \in [Places -> S], NEW c \in Places, NEW p \in Places,
         NEW l \in Seq(S), Len(l) < Size, Distance(c, p) + Len(l) >= Size
  PROVE  IsEndOf(ContentOf(Put(b, p, l), c, Place(p, Len(l) + 1)), ContentOf(b, c, p) \o l)
<1> DEFINE d == Distance(c, p)
           m == Len(l)
           e == Place(p, m + 1)
           n == d + m - Size
           old == ContentOf(b, c, p)
           new == ContentOf(Put(b, p, l), c, e)
           all == old \o l
<1>1. d \in Nat /\ m \in Nat /\ d < Size /\ m < Size /\ d + m >= Size
  BY DistanceIsInRing
<1>2. e \in Places /\ Distance(c, e) = n
  <2>1. ~(d + m < Size)
    BY <1>1, LogAssumption
  <2>2. QED
    BY <1>1, <2>1, NewEnd
<1>3. old \in Seq(S) /\ Len(old) = d
  BY ContentIsSeq
<1>4. new \in Seq(S) /\ Len(new) = n
  <2>1. Put(b, p, l) \in [Places -> S]
    BY PutIsRing
  <2> HIDE DEF d, e
  <2>2. QED
    BY <1>2, <2>1, ContentIsSeq
<1>5. n \in 0 .. Size - 1 /\ n < d /\ Size + n = d + m
  BY <1>1, LogAssumption
<1>6. ASSUME NEW i \in 1 .. n PROVE new[i] = l[Size - d + i]
  <2> DEFINE j == Size - d + i
  <2>1. i \in 1 .. Size /\ i <= d
    BY <1>1, <1>5, LogAssumption
  <2>2. new[i] = Put(b, p, l)[Place(c, i)]
    BY <1>2 DEF ContentOf
  <2>3. j \in 1 .. Size /\ Place(c, i) = Place(p, j)
    BY <2>1, FromBoth
  <2>4. j <= m
    BY <1>1, <1>5, LogAssumption
  <2>5. new[i] = l[j]
    <3> HIDE DEF j
    <3>1. QED
      BY <2>2, <2>3, <2>4, PutAt
  <2>6. QED
    BY <2>5
<1> HIDE DEF d, m, n, new, old
<1>7. m = Len(l) /\ l \in Seq(S)
  BY DEF m
<1>8. all \in Seq(S) /\ Len(all) = d + m
  BY <1>1, <1>3, <1>7
<1>9. ASSUME NEW i \in 1 .. n PROVE all[Size + i] = l[Size - d + i]
  <2>1. Size + i \in 1 .. d + m /\ Size + i > d /\ (Size + i) - d = Size - d + i
    BY <1>1, <1>5, LogAssumption
  <2>2. all[Size + i] = l[(Size + i) - d]
    BY <1>1, <1>3, <1>7, <2>1
  <2>3. QED
    BY <2>1, <2>2
<1>10. /\ SubSeq(all, Size + 1, d + m) \in Seq(S)
       /\ Len(SubSeq(all, Size + 1, d + m)) = n
       /\ \A i \in 1 .. n : SubSeq(all, Size + 1, d + m)[i] = all[Size + i]
  <2> HIDE DEF all
  <2>1. QED
    BY <1>1, <1>5, <1>8, LogAssumption
<1>11. new = SubSeq(all, Size + 1, d + m)
  <2> DEFINE sub == SubSeq(all, Size + 1, d + m)
  <2>1. \A i \in 1 .. n : new[i] = sub[i]
    BY <1>6, <1>9, <1>10
  <2>2. sub \in Seq(S) /\ Len(sub) = n
    BY <1>10
  <2> HIDE DEF sub, all
  <2>3. new = sub
    BY <1>4, <2>1, <2>2, SameSeq
  <2>4. QED
    BY <2>3 DEF sub
<1>12. Size + 1 = Len(all) - n + 1 /\ d + m = Len(all)
  <2> HIDE DEF all
  <2>1. QED
    BY <1>1, <1>5, <1>8, LogAssumption
<1>13. QED
  BY <1>5, <1>11, <1>12 DEF IsEndOf, new, old, m

-----------------------------------------------------------------------------
(* Types                                                                     *)

\* Every character there is.
Letters == Chars \cup (UNION {Range(l) : l \in Direct}) \cup {LineFeed, Return, NoChar}

\* A return that waits belongs to the line feed still in the ring.
Halfway == code = "log" /\ rest # <<>> => rest = <<Return>> /\ ~Empty

Queues == fifo \in Seq(Letters) /\ rest \in Seq(Letters)

IInv == TypeOK /\ Queues /\ Halfway

LEMMA LineIsText ==
  ASSUME NEW l \in Lines
  PROVE  l \in Seq(Chars) /\ l \in Seq(Chars \cup {NoChar}) /\ Len(l) \in Nat /\ Len(l) < Size
<1>1. l \in Seq(Range(l)) /\ Len(l) < Size
  BY LogAssumption
<1>2. Range(l) \subseteq Chars
  BY DEF Chars
<1>3. l \in Seq(Chars) /\ l \in Seq(Chars \cup {NoChar})
  BY <1>1, <1>2
<1>4. QED
  BY <1>1, <1>3

LEMMA WrittenIsText ==
  ASSUME NEW l \in Direct
  PROVE  Written(l) \in Seq(Letters)
<1>1. l \in Seq(Range(l)) /\ Range(l) \subseteq Letters
  BY LogAssumption DEF Letters
<1>2. l \in Seq(Letters)
  BY <1>1
<1> DEFINE s == [i \in DOMAIN l |-> IF l[i] = LineFeed THEN <<LineFeed, Return>> ELSE <<l[i]>>]
<1>3. s \in Seq(Seq(Letters))
  <2>1. LineFeed \in Letters /\ Return \in Letters
    BY DEF Letters
  <2>2. \A i \in DOMAIN l : l[i] \in Letters
    BY <1>2
  <2>3. \A i \in DOMAIN l : s[i] \in Seq(Letters)
    BY <2>1, <2>2
  <2>4. DOMAIN l = 1 .. Len(l) /\ Len(l) \in Nat
    BY <1>2
  <2>5. s \in [1 .. Len(l) -> Seq(Letters)]
    BY <2>3, <2>4
  <2> HIDE DEF s
  <2>6. QED
    BY <2>4, <2>5
<1>4. FlattenSeq(s) \in Seq(Letters)
  <2> HIDE DEF s
  <2>1. QED
    BY <1>3, FlattenIsSeq
<1>5. QED
  BY <1>4 DEF Written

LEMMA InitIInv ==
  Init => IInv
<1> SUFFICES ASSUME Init PROVE IInv
  OBVIOUS
<1>1. TypeOK
  BY LogAssumption DEF Init, TypeOK
<1>2. Queues /\ Halfway
  BY DEF Init, Queues, Halfway
<1>3. QED
  BY <1>1, <1>2 DEF IInv

\* What TypeOK says of the ring, for the lemmas above.
LEMMA RingType ==
  ASSUME TypeOK
  PROVE  /\ buffer \in [Places -> Chars \cup {NoChar}]
         /\ buffer_pos \in Places /\ buffer_current_pos \in Places
BY DEF TypeOK, Places

LEMMA LogKeeps ==
  ASSUME IInv, NEW l \in Lines, Log(l)
  PROVE  IInv'
<1>1. TypeOK /\ Queues /\ l \in Seq(Chars \cup {NoChar}) /\ Len(l) \in Nat /\ Len(l) < Size
  BY LineIsText DEF IInv
<1>2. buffer' \in [0 .. Size - 1 -> Chars \cup {NoChar}]
  <2>1. buffer' = Put(buffer, buffer_pos, l)
    BY DEF Log, Put
  <2>2. Put(buffer, buffer_pos, l) \in [Places -> Chars \cup {NoChar}]
    BY <1>1, RingType, PutIsRing
  <2>3. QED
    BY <2>1, <2>2 DEF Places
<1>3. buffer_pos' \in 0 .. Size - 1
  <2>1. Place(buffer_pos, Len(l) + 1) \in Places
    BY <1>1, RingType, NewEnd
  <2>2. QED
    BY <2>1 DEF Log, Places
<1>4. code = "away" /\ rest = <<>> /\ rest' = <<>> /\ code' = "log"
  BY <1>1 DEF Log, TypeOK
<1>5. turn' \in 0 .. 1
  BY <1>1 DEF Log, Given, TypeOK
<1>6. TypeOK'
  BY <1>1, <1>2, <1>3, <1>4, <1>5 DEF Log, Given, TypeOK, irq
<1>7. Queues' /\ Halfway'
  BY <1>1, <1>4 DEF Log, Queues, Halfway
<1>8. QED
  BY <1>6, <1>7 DEF IInv

LEMMA WriteLineKeeps ==
  ASSUME IInv, NEW l \in Direct, WriteLine(l)
  PROVE  IInv'
<1>1. TypeOK /\ Queues
  BY DEF IInv
<1>2. TypeOK'
  BY <1>1 DEF WriteLine, Given, TypeOK, ring, irq
<1>3. Queues'
  BY <1>1, WrittenIsText DEF WriteLine, Queues
<1>4. Halfway'
  BY DEF WriteLine, Halfway
<1>5. QED
  BY <1>2, <1>3, <1>4 DEF IInv

LEMMA SendCharKeeps ==
  ASSUME IInv, SendChar
  PROVE  IInv'
<1> DEFINE c == buffer[buffer_current_pos]
<1>1. TypeOK /\ Queues
  BY DEF IInv
<1>2. c \in Letters
  BY <1>1, RingType DEF Letters
<1>3. fifo' = Append(fifo, c) /\ fifo \in Seq(Letters) /\ Len(fifo) <= Depth /\ Len(fifo) # Depth
  BY <1>1 DEF SendChar, Full, TypeOK, Queues
<1> HIDE DEF c
<1>4. fifo' \in Seq(Letters) /\ Len(fifo') <= Depth
  <2>1. Append(fifo, c) \in Seq(Letters) /\ Len(Append(fifo, c)) = Len(fifo) + 1 /\ Len(fifo) \in Nat
    BY <1>2, <1>3
  <2>2. QED
    BY <1>3, <2>1, LogAssumption
<1>5. buffer_current_pos' \in 0 .. Size - 1
  <2>1. After(buffer_current_pos) \in Places
    BY <1>1, RingType, AfterIsSecond
  <2>2. QED
    BY <1>1, <2>1 DEF SendChar, TypeOK, Places
<1>6. rest' \in {<<>>, <<Return>>} /\ code' = "log" /\ code = "log"
  BY DEF SendChar
<1>7. TypeOK'
  BY <1>1, <1>4, <1>5, <1>6 DEF SendChar, TypeOK, ring, irq, history
<1>8. Queues'
  <2>1. <<>> \in Seq(Letters) /\ <<Return>> \in Seq(Letters)
    BY DEF Letters
  <2>2. QED
    BY <1>4, <1>6, <2>1 DEF Queues
<1>9. Halfway'
  BY <1>6 DEF SendChar, Halfway, Empty, ring
<1>10. QED
  BY <1>7, <1>8, <1>9 DEF IInv

LEMMA WriteCharKeeps ==
  ASSUME IInv, WriteChar
  PROVE  IInv'
<1>1. TypeOK /\ Queues /\ Halfway
  BY DEF IInv
<1>2. /\ fifo' = Append(fifo, Head(rest)) /\ fifo \in Seq(Letters)
      /\ rest' = Tail(rest) /\ rest \in Seq(Letters) /\ rest # <<>>
      /\ Len(fifo) <= Depth /\ Len(fifo) # Depth
  BY <1>1 DEF WriteChar, Full, TypeOK, Queues
<1>3. fifo' \in Seq(Letters) /\ Len(fifo') <= Depth
  <2>1. Head(rest) \in Letters
    BY <1>2
  <2>2. /\ Append(fifo, Head(rest)) \in Seq(Letters)
        /\ Len(Append(fifo, Head(rest))) = Len(fifo) + 1 /\ Len(fifo) \in Nat
    BY <1>2, <2>1
  <2>3. QED
    BY <1>2, <2>2, LogAssumption
<1>4. rest' \in Seq(Letters) /\ (Len(rest) = 1 => rest' = <<>>)
  BY <1>2
<1>5. buffer_current_pos' \in 0 .. Size - 1
  <2>1. After(buffer_current_pos) \in Places
    BY <1>1, RingType, AfterIsSecond
  <2>2. QED
    BY <1>1, <2>1 DEF WriteChar, TypeOK, Places
<1>6. code \in {"log", "line"}
  BY <1>1, <1>2 DEF TypeOK
<1>7. code = "log" => code' = "log" /\ rest' = <<>>
  <2>1. code = "log" => rest = <<Return>> /\ code' = "log"
    BY <1>1, <1>2 DEF Halfway, WriteChar
  <2>2. QED
    BY <1>2, <2>1
<1>8. code = "line" => code' \in {"away", "line"} /\ (code' = "away" => rest' = <<>>)
  BY <1>4 DEF WriteChar
<1>9. TypeOK'
  BY <1>1, <1>3, <1>5, <1>6, <1>7, <1>8 DEF WriteChar, TypeOK, ring, irq, history
<1>10. Queues' /\ Halfway'
  BY <1>3, <1>4, <1>6, <1>7, <1>8 DEF Queues, Halfway
<1>11. QED
  BY <1>9, <1>10 DEF IInv

LEMMA ShiftKeeps ==
  ASSUME IInv, Shift
  PROVE  IInv'
<1>1. TypeOK /\ Queues /\ Halfway
  BY DEF IInv
<1>2. fifo' = Tail(fifo) /\ fifo \in Seq(Letters) /\ fifo # <<>> /\ Len(fifo) <= Depth
  BY <1>1 DEF Shift, TypeOK, Queues
<1>3. fifo' \in Seq(Letters) /\ Len(fifo') <= Depth
  <2>1. Tail(fifo) \in Seq(Letters) /\ Len(Tail(fifo)) = Len(fifo) - 1 /\ Len(fifo) \in Nat
    BY <1>2
  <2>2. QED
    BY <1>2, <2>1, LogAssumption
<1>4. tx_ifs' \in BOOLEAN /\ sent' \in 0 .. 1
  BY <1>1 DEF Shift, TypeOK
<1>5. TypeOK'
  BY <1>1, <1>3, <1>4 DEF Shift, TypeOK, ring
<1>6. Queues' /\ Halfway'
  BY <1>1, <1>3 DEF Shift, Queues, Halfway, Empty, ring
<1>7. QED
  BY <1>5, <1>6 DEF IInv

\* The steps that move no character.
LEMMA OthersKeep ==
  ASSUME IInv, Start \/ TxIrq \/ StopSending \/ Flag \/ UNCHANGED vars
  PROVE  IInv'
<1>1. TypeOK /\ Queues /\ Halfway
  BY DEF IInv
<1>2. /\ UNCHANGED <<ring, buffer_current_pos, fifo, rest, history>>
      /\ code' \in {"away", "log", "line"}
      /\ tx_ifs' \in BOOLEAN /\ tx_iec' \in BOOLEAN
  BY <1>1 DEF Start, TxIrq, StopSending, BreakOff, Left, Flag, TypeOK, vars, irq
<1>3. rest # <<>> => UNCHANGED code
  BY <1>1 DEF Start, TxIrq, StopSending, Flag, TypeOK, vars
<1>4. code' = "away" => rest = <<>>
  BY <1>1, <1>3 DEF TypeOK
<1>5. TypeOK'
  BY <1>1, <1>2, <1>4 DEF TypeOK, ring, history
<1>6. Queues' /\ Halfway'
  BY <1>1, <1>2, <1>3 DEF Queues, Halfway, Empty, ring
<1>7. QED
  BY <1>5, <1>6 DEF IInv

LEMMA NextIInv ==
  IInv /\ [Next]_vars => IInv'
<1> SUFFICES ASSUME IInv, [Next]_vars PROVE IInv'
  OBVIOUS
<1>1. CASE \E l \in Lines : Log(l)
  BY <1>1, LogKeeps
<1>2. CASE \E l \in Direct : WriteLine(l)
  BY <1>2, WriteLineKeeps
<1>3. CASE SendChar
  BY <1>3, SendCharKeeps
<1>4. CASE WriteChar
  BY <1>4, WriteCharKeeps
<1>5. CASE Shift
  BY <1>5, ShiftKeeps
<1>6. CASE Start \/ TxIrq \/ StopSending \/ Flag \/ UNCHANGED vars
  BY <1>6, OthersKeep
<1>7. QED
  BY <1>1, <1>2, <1>3, <1>4, <1>5, <1>6 DEF Next

\* The reader and the writer of the ring stay in it, and the FIFO is never
\* written when it is full, by whomever uart_sendlog and uart_writeline are called.
THEOREM TypeCorrect ==
  Spec => []TypeOK
<1>1. Init => IInv
  BY InitIInv
<1>2. IInv /\ [Next]_vars => IInv'
  BY NextIInv
<1>3. IInv => TypeOK
  BY DEF IInv
<1>4. QED
  BY <1>1, <1>2, <1>3, PTL DEF Spec

-----------------------------------------------------------------------------
(* The refinement of Transcript                                              *)

LEMMA ContentIs ==
  Content = ContentOf(buffer, buffer_current_pos, buffer_pos)
BY DEF Content, ContentOf

LEMMA ContentType ==
  ASSUME TypeOK
  PROVE  /\ Content \in Seq(Chars \cup {NoChar})
         /\ Len(Content) = Distance(buffer_current_pos, buffer_pos)
BY RingType, ContentIs, ContentIsSeq

LEMMA SameWritten ==
  ASSUME NEW l
  PROVE  Transcripts!Written(l) = Written(l)
<1> DEFINE s == [i \in DOMAIN l |-> IF l[i] = LineFeed THEN <<LineFeed, Return>> ELSE <<l[i]>>]
           t == [i \in DOMAIN l |-> Transcripts!Out(l[i])]
<1>1. \A i \in DOMAIN l : s[i] = t[i]
  BY DEF Transcripts!Out
<1>2. s = t
  BY <1>1
<1>3. Written(l) = FlattenSeq(s)
  BY DEF Written
<1>4. Transcripts!Written(l) = Transcripts!FlattenSeq(t)
  BY DEF Transcripts!Written
<1> HIDE DEF s, t
<1>5. Transcripts!FlattenSeq(t) = FlattenSeq(t)
  BY DEF FlattenSeq, Transcripts!FlattenSeq
<1>6. QED
  BY <1>2, <1>3, <1>4, <1>5

LEMMA InitIsTranscript ==
  Init => Transcripts!Init
<1> SUFFICES ASSUME Init PROVE Transcripts!Init
  OBVIOUS
<1>1. TypeOK /\ rest = <<>> /\ buffer_current_pos = buffer_pos
  BY InitIInv DEF IInv, Init
<1>2. Content = <<>>
  <2>1. Distance(buffer_current_pos, buffer_pos) = 0
    BY <1>1, RingType, DistanceIsInRing
  <2>2. Content \in Seq(Chars \cup {NoChar}) /\ Len(Content) = 0
    BY <1>1, <2>1, ContentType
  <2>3. QED
    BY <2>2
<1>3. Text = <<>> /\ fifo \o rest = <<>>
  BY <1>1, <1>2 DEF Text, Init
<1>4. QED
  BY <1>3 DEF Init, Transcripts!Init

LEMMA LogIsLog ==
  ASSUME IInv, NEW l \in Lines, Log(l)
  PROVE  Transcripts!Log(l)
<1> DEFINE T == Chars \cup {NoChar}
           d == Distance(buffer_current_pos, buffer_pos)
<1>1. /\ TypeOK /\ l \in Seq(T) /\ Len(l) \in Nat /\ Len(l) < Size
      /\ buffer \in [Places -> T] /\ buffer_pos \in Places /\ buffer_current_pos \in Places
  BY LineIsText, RingType DEF IInv
<1>2. rest = <<>> /\ rest' = <<>> /\ fifo' = fifo
  BY <1>1 DEF Log, TypeOK
<1>3. Text = Content /\ Text' = Content'
  BY <1>2 DEF Text
<1>4. Content' = ContentOf(Put(buffer, buffer_pos, l), buffer_current_pos,
                           Place(buffer_pos, Len(l) + 1))
  <2>1. /\ buffer' = Put(buffer, buffer_pos, l)
        /\ buffer_pos' = Place(buffer_pos, Len(l) + 1)
        /\ buffer_current_pos' = buffer_current_pos
    BY DEF Log, Put
  <2>2. Content' = ContentOf(buffer', buffer_current_pos', buffer_pos')
    BY DEF Content, ContentOf
  <2>3. QED
    BY <2>1, <2>2
<1>5. Content = ContentOf(buffer, buffer_current_pos, buffer_pos) /\ Len(Content) = d
  BY <1>1, ContentIs, ContentType
<1>6. d \in Nat
  BY <1>1, DistanceIsInRing
<1> HIDE DEF d, T
<1>7. CASE d + Len(l) < Size
  <2>1. Content' = Content \o l
    BY <1>1, <1>4, <1>5, <1>7, PutAppends DEF d
  <2>2. Len(Text) + Len(l) <= Size - 1
    BY <1>1, <1>3, <1>5, <1>6, <1>7, LogAssumption
  <2>3. QED
    BY <1>2, <1>3, <2>1, <2>2 DEF Log, Given, Transcripts!Log
<1>8. CASE d + Len(l) >= Size
  <2>1. IsEndOf(Content', Content \o l)
    BY <1>1, <1>4, <1>5, <1>8, PutOverruns DEF d
  <2>2. \E n \in 0 .. Size - 1 : Text' = Transcripts!LastOf(Text \o l, n)
    BY <1>3, <2>1 DEF IsEndOf, Transcripts!LastOf
  <2>3. ~(Len(Text) + Len(l) <= Size - 1)
    BY <1>1, <1>3, <1>5, <1>6, <1>8, LogAssumption
  <2>4. QED
    BY <1>2, <2>2, <2>3 DEF Log, Given, Transcripts!Log
<1>9. QED
  BY <1>1, <1>6, <1>7, <1>8, LogAssumption

LEMMA WriteLineIsWrite ==
  ASSUME IInv, NEW l \in Direct, WriteLine(l)
  PROVE  Transcripts!Write(l)
<1>1. TypeOK /\ fifo \in Seq(Letters) /\ rest = <<>>
  BY DEF IInv, TypeOK, Queues, WriteLine
<1>2. fifo' \o rest' = (fifo \o rest) \o Transcripts!Written(l)
  <2>1. fifo' = fifo /\ rest' = Transcripts!Written(l)
    BY SameWritten DEF WriteLine
  <2>2. fifo \o rest = fifo
    BY <1>1
  <2>3. QED
    BY <2>1, <2>2
<1>3. Text' = Text
  <2>1. Content' = Content
    BY DEF WriteLine, Content, ring
  <2>2. Text = Content /\ Text' = Content'
    BY <1>1 DEF WriteLine, Text
  <2>3. QED
    BY <2>1, <2>2
<1>4. QED
  BY <1>2, <1>3 DEF WriteLine, Given, Transcripts!Write

LEMMA SendCharIsHand ==
  ASSUME IInv, SendChar
  PROVE  Transcripts!Hand
<1> DEFINE T == Chars \cup {NoChar}
           c == buffer[buffer_current_pos]
<1>1. /\ TypeOK /\ fifo \in Seq(Letters) /\ rest = <<>> /\ code = "log" /\ code' = "log"
      /\ buffer_current_pos # buffer_pos
  BY DEF IInv, Queues, SendChar, Empty
<1>2. /\ buffer \in [Places -> T] /\ buffer_pos \in Places /\ buffer_current_pos \in Places
      /\ c \in T
  BY <1>1, RingType
<1>3. /\ Content # <<>> /\ Head(Content) = c
      /\ ContentOf(buffer, After(buffer_current_pos), buffer_pos) = Tail(Content)
  BY <1>1, <1>2, ReadOne, ContentIs
<1>4. UNCHANGED <<buffer, buffer_pos>> /\ UNCHANGED history /\ fifo' = Append(fifo, c)
  BY DEF SendChar, ring
<1>5. Content' = ContentOf(buffer, buffer_current_pos', buffer_pos)
  BY <1>4 DEF Content, ContentOf
<1>6. Text = Content
  BY <1>1 DEF Text
<1>7. Text' = Tail(Content)
  <2>1. CASE c = LineFeed
    <3>1. rest' = <<Return>> /\ buffer_current_pos' = buffer_current_pos
      BY <2>1 DEF SendChar
    <3>2. Content' = Content
      BY <1>5, <3>1, ContentIs
    <3>3. QED
      BY <1>1, <3>1, <3>2 DEF Text
  <2>2. CASE c # LineFeed
    <3>1. rest' = <<>> /\ buffer_current_pos' = After(buffer_current_pos)
      BY <1>1, <2>2 DEF SendChar
    <3>2. Content' = Tail(Content)
      BY <1>3, <1>5, <3>1
    <3>3. QED
      BY <3>1, <3>2 DEF Text
  <2>3. QED
    BY <2>1, <2>2
<1>8. fifo' \o rest' = (fifo \o rest) \o Transcripts!Out(c)
  <2>1. fifo \o rest = fifo /\ c \in Letters /\ Return \in Letters
    BY <1>1, <1>2 DEF Letters
  <2>2. CASE c = LineFeed
    <3>1. rest' = <<Return>> /\ Transcripts!Out(c) = <<c, Return>>
      BY <2>2 DEF SendChar, Transcripts!Out
    <3> HIDE DEF c
    <3>2. Append(fifo, c) \o <<Return>> = fifo \o <<c, Return>>
      BY <1>1, <2>1
    <3>3. QED
      BY <1>4, <2>1, <3>1, <3>2
  <2>3. CASE c # LineFeed
    <3>1. rest' = <<>> /\ Transcripts!Out(c) = <<c>>
      BY <1>1, <2>3 DEF SendChar, Transcripts!Out
    <3> HIDE DEF c
    <3>2. Append(fifo, c) \o <<>> = fifo \o <<c>>
      BY <1>1, <2>1
    <3>3. QED
      BY <1>4, <2>1, <3>1, <3>2
  <2>4. QED
    BY <2>2, <2>3
<1>9. QED
  BY <1>3, <1>4, <1>6, <1>7, <1>8 DEF Transcripts!Hand, history

LEMMA ShiftIsEmit ==
  ASSUME IInv, Shift
  PROVE  Transcripts!Emit
<1>1. fifo \in Seq(Letters) /\ rest \in Seq(Letters) /\ fifo # <<>>
  BY DEF IInv, Queues, Shift
<1>2. /\ fifo \o rest # <<>>
      /\ Head(fifo \o rest) = Head(fifo)
      /\ Tail(fifo \o rest) = Tail(fifo) \o rest
  BY <1>1
<1>3. Text' = Text
  <2>1. Content' = Content
    BY DEF Shift, Content, ring
  <2>2. code' = code /\ rest' = rest
    BY DEF Shift
  <2>3. QED
    BY <2>1, <2>2 DEF Text
<1>4. QED
  BY <1>2, <1>3 DEF Shift, Transcripts!Emit

LEMMA WriteCharIsNoStep ==
  ASSUME IInv, WriteChar
  PROVE  UNCHANGED Transcripts!vars
<1>1. TypeOK /\ fifo \in Seq(Letters) /\ rest \in Seq(Letters) /\ rest # <<>> /\ Halfway
  BY DEF IInv, Queues, WriteChar
<1>2. fifo' \o rest' = fifo \o rest
  <2>1. Append(fifo, Head(rest)) \o Tail(rest) = fifo \o rest
    BY <1>1
  <2>2. QED
    BY <2>1 DEF WriteChar
<1>3. UNCHANGED <<buffer, buffer_pos>> /\ UNCHANGED history
  BY DEF WriteChar, ring
<1>4. Content' = ContentOf(buffer, buffer_current_pos', buffer_pos)
  BY <1>3 DEF Content, ContentOf
<1>5. Text' = Text
  <2>1. CASE code = "log"
    <3>1. rest = <<Return>> /\ buffer_current_pos # buffer_pos
      BY <1>1, <2>1 DEF Halfway, Empty
    <3>2. rest' = <<>> /\ buffer_current_pos' = After(buffer_current_pos)
      BY <2>1, <3>1 DEF WriteChar
    <3>3. Content' = Tail(Content)
      BY <1>1, <1>4, <3>1, <3>2, RingType, ReadOne, ContentIs
    <3>4. Text = Tail(Content)
      BY <1>1, <2>1 DEF Text
    <3>5. Text' = Content'
      BY <3>2 DEF Text
    <3>6. QED
      BY <3>3, <3>4, <3>5
  <2>2. CASE code # "log"
    <3>1. buffer_current_pos' = buffer_current_pos /\ code' # "log"
      BY <2>2 DEF WriteChar
    <3>2. Content' = Content
      BY <1>4, <3>1, ContentIs
    <3>3. Text = Content /\ Text' = Content'
      BY <2>2, <3>1 DEF Text
    <3>4. QED
      BY <3>2, <3>3
  <2>3. QED
    BY <2>1, <2>2
<1>6. QED
  BY <1>2, <1>3, <1>5 DEF Transcripts!vars, history

LEMMA OthersAreNoStep ==
  ASSUME IInv, Start \/ TxIrq \/ StopSending \/ Flag \/ UNCHANGED vars
  PROVE  UNCHANGED Transcripts!vars
<1>1. TypeOK
  BY DEF IInv
<1>2. UNCHANGED <<ring, buffer_current_pos, fifo, rest, history>>
  BY <1>1 DEF Start, TxIrq, StopSending, BreakOff, Flag, vars
<1>3. rest # <<>> => UNCHANGED code
  BY <1>1 DEF Start, TxIrq, StopSending, Flag, TypeOK, vars
<1>4. Content' = Content
  BY <1>2 DEF Content, ring
<1>5. Text' = Text
  BY <1>2, <1>3, <1>4 DEF Text
<1>6. QED
  BY <1>2, <1>5 DEF Transcripts!vars, history

LEMMA StepIsTranscript ==
  IInv /\ [Next]_vars => [Transcripts!Next]_(Transcripts!vars)
<1> SUFFICES ASSUME IInv, [Next]_vars PROVE [Transcripts!Next]_(Transcripts!vars)
  OBVIOUS
<1>1. CASE \E l \in Lines : Log(l)
  BY <1>1, LogIsLog DEF Transcripts!Next
<1>2. CASE \E l \in Direct : WriteLine(l)
  BY <1>2, WriteLineIsWrite DEF Transcripts!Next
<1>3. CASE SendChar
  BY <1>3, SendCharIsHand DEF Transcripts!Next
<1>4. CASE WriteChar
  BY <1>4, WriteCharIsNoStep
<1>5. CASE Shift
  BY <1>5, ShiftIsEmit DEF Transcripts!Next
<1>6. CASE Start \/ TxIrq \/ StopSending \/ Flag \/ UNCHANGED vars
  BY <1>6, OthersAreNoStep
<1>7. QED
  BY <1>1, <1>2, <1>3, <1>4, <1>5, <1>6 DEF Next

\* Whichever of printf, the transmit IRQ and the busy waits of uart_writechar
\* moves it on, what is printed leaves the UART once and in order, each line feed
\* with its return; only an overrun of the ring loses text, the oldest first.
THEOREM LogIsTranscript ==
  Spec => IsTranscript
<1>1. Init => IInv
  BY InitIInv
<1>2. IInv /\ [Next]_vars => IInv'
  BY NextIInv
<1>3. Init => Transcripts!Init
  BY InitIsTranscript
<1>4. IInv /\ [Next]_vars => [Transcripts!Next]_(Transcripts!vars)
  BY StepIsTranscript
<1>5. QED
  BY <1>1, <1>2, <1>3, <1>4, PTL DEF Spec, IsTranscript, Transcripts!Spec

=============================================================================
