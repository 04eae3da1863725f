------------------------ MODULE MemoryAccess_proofs ------------------------
(***************************************************************************)
(* What a guest's memory access comes to.  First the root page tables: the  *)
(* tables that vz-conf.py makes are of the configured regions, so guests    *)
(* are apart; and the caches of do_TLB do not change what it finds in them. *)
(* Then the emulation of the instruction that made the access: it           *)
(* implements Processor, and cannot be told from its execution.             *)
(***************************************************************************)
EXTENDS PageFaults, Emulation, WellFoundedInduction, TLAPS

-----------------------------------------------------------------------------
(* Numbers and functions                                                     *)

\* A set of numbers has a least one.
LEMMA LeastNat ==
  ASSUME NEW S \in SUBSET Nat, S # {}
  PROVE  \E n \in S : \A m \in S : n <= m
<1> DEFINE R == {ss \in Nat \X Nat : ss[1] < ss[2]}
<1>1. IsWellFoundedOn(R, Nat)
  BY NatLessThanWellFounded DEF OpToRel
<1>2. \A m, n \in Nat : m < n => <<m, n>> \in R
  OBVIOUS
<1> HIDE DEF R
<1>3. PICK n \in S : \A m \in S : ~(<<m, n>> \in R)
  BY <1>1, WFMin
<1>4. ASSUME NEW m \in S PROVE n <= m
  <2>1. m \in Nat /\ n \in Nat /\ ~(m < n)
    BY <1>2, <1>3
  <2>2. QED
    BY <2>1
<1>5. QED
  BY <1>4

\* Induction over a set of numbers.
LEMMA NatInd ==
  ASSUME NEW S, 0 \in S, \A n \in Nat : n \in S => n + 1 \in S
  PROVE  Nat \subseteq S
<1> SUFFICES ASSUME Nat \ S # {} PROVE FALSE
  OBVIOUS
<1>1. PICK n \in Nat \ S : \A m \in Nat \ S : n <= m
  BY LeastNat
<1>2. n # 0 /\ n - 1 \in Nat /\ n - 1 \in S
  BY <1>1
<1>3. QED
  BY <1>1, <1>2

\* A set of numbers up to n has a greatest one.
LEMMA GreatestNat ==
  ASSUME NEW S \in SUBSET Nat, S # {}, NEW n \in Nat, \A m \in S : m <= n
  PROVE  \E m \in S : \A k \in S : k <= m
<1> DEFINE R == {n - m : m \in S}
<1>1. R \in SUBSET Nat /\ R # {}
  OBVIOUS
<1>2. PICK r \in R : \A k \in R : r <= k
  BY <1>1, LeastNat
<1>3. PICK m \in S : r = n - m
  OBVIOUS
<1>4. ASSUME NEW k \in S PROVE k <= m
  <2>1. r <= n - k
    BY <1>2
  <2>2. QED
    BY <1>3, <2>1
<1>5. QED
  BY <1>4

\* f starts with b, and its value at i comes from that at i - 1 by g.
IsFold(f, n, b, g) == f = [i \in 0 .. n |-> IF i = 0 THEN b ELSE g[<<i, f[i - 1]>>]]

\* A function that starts with b and goes on by g exists.
LEMMA FoldExists ==
  ASSUME NEW S, NEW b \in S, NEW n \in Nat, NEW g,
         \A i \in 1 .. n : \A s \in S : g[<<i, s>>] \in S
  PROVE  \E f \in [0 .. n -> S] : IsFold(f, n, b, g)
<1> DEFINE T == {k \in Nat : k <= n => \E f \in [0 .. k -> S] : IsFold(f, k, b, g)}
<1>1. 0 \in T
  <2> DEFINE f == [i \in 0 .. 0 |-> b]
  <2>1. f \in [0 .. 0 -> S] /\ IsFold(f, 0, b, g)
    BY DEF IsFold
  <2>2. QED
    BY <2>1
<1>2. ASSUME NEW k \in Nat, k \in T PROVE k + 1 \in T
  <2> SUFFICES ASSUME k + 1 <= n PROVE \E f \in [0 .. k + 1 -> S] : IsFold(f, k + 1, b, g)
    OBVIOUS
  <2>1. PICK f \in [0 .. k -> S] : IsFold(f, k, b, g)
    BY <1>2
  <2> DEFINE h == [i \in 0 .. k + 1 |-> IF i <= k THEN f[i] ELSE g[<<k + 1, f[k]>>]]
  <2>2. g[<<k + 1, f[k]>>] \in S
    OBVIOUS
  <2>3. h \in [0 .. k + 1 -> S]
    BY <2>2
  <2>4. ASSUME NEW i \in 0 .. k + 1
        PROVE  h[i] = IF i = 0 THEN b ELSE g[<<i, h[i - 1]>>]
    <3>1. CASE i <= k
      <4>1. h[i] = f[i] /\ (i # 0 => h[i - 1] = f[i - 1])
        BY <3>1
      <4>2. f[i] = IF i = 0 THEN b ELSE g[<<i, f[i - 1]>>]
        BY <2>1, <3>1 DEF IsFold
      <4>3. QED
        BY <4>1, <4>2
    <3>2. CASE i = k + 1
      <4>1. h[i] = g[<<i, f[k]>>] /\ h[i - 1] = f[k] /\ i # 0
        BY <3>2
      <4>2. QED
        BY <4>1
    <3>3. QED
      BY <3>1, <3>2
  <2>5. h = [i \in 0 .. k + 1 |-> IF i = 0 THEN b ELSE g[<<i, h[i - 1]>>]]
    <3>1. h = [i \in 0 .. k + 1 |-> h[i]]
      OBVIOUS
    <3> HIDE DEF h
    <3>2. QED
      BY <2>4, <3>1
  <2>6. IsFold(h, k + 1, b, g)
    <3> HIDE DEF h
    <3>1. QED BY <2>5 DEF IsFold
  <2>7. QED
    BY <2>3, <2>6
<1>3. Nat \subseteq T
  <2> HIDE DEF T
  <2>1. QED BY <1>1, <1>2, NatInd
<1>4. n \in T
  BY <1>3
<1>5. QED
  BY <1>4

\* What holds at first and is kept by every step holds at the end.
LEMMA FoldType ==
  ASSUME NEW S, NEW n \in Nat, NEW f, f[0] \in S,
         \A i \in 1 .. n : f[i - 1] \in S => f[i] \in S
  PROVE  f[n] \in S
<1> DEFINE T == {k \in Nat : k <= n => f[k] \in S}
<1>1. 0 \in T
  OBVIOUS
<1>2. ASSUME NEW k \in Nat, k \in T PROVE k + 1 \in T
  <2>1. k + 1 <= n => k + 1 \in 1 .. n /\ (k + 1) - 1 = k
    OBVIOUS
  <2>2. QED
    BY <1>2, <2>1
<1>3. Nat \subseteq T
  <2> HIDE DEF T
  <2>1. QED BY <1>1, <1>2, NatInd
<1>4. QED
  BY <1>3

-----------------------------------------------------------------------------
(* Page sizes                                                                *)

Levels == 1 .. Len(Sizes)

\* The sizes are numbers, and the base page is one of them.
LEMMA SizesAre ==
  /\ Len(Sizes) \in Nat /\ Len(Sizes) >= 1 /\ DOMAIN Sizes = Levels
  /\ \A i \in Levels : Sizes[i] \in Nat /\ Sizes[i] > 0
  /\ Base \in Nat /\ Base > 0 /\ Smallest \in Nat /\ Smallest > 0
  /\ ToSet(Sizes) = {Sizes[i] : i \in Levels}
<1>1. Sizes \in Seq(Nat \ {0})
  BY PageTablesAssumption
<1>2. Len(Sizes) \in Nat /\ DOMAIN Sizes = Levels /\ \A i \in Levels : Sizes[i] \in Nat \ {0}
  BY <1>1 DEF Levels
<1>3. PICK i \in Levels : Sizes[i] = Base
  BY PageTablesAssumption DEF Levels
<1>4. Len(Sizes) >= 1 /\ 1 \in Levels
  BY <1>2, <1>3 DEF Levels
<1>5. QED
  BY <1>2, <1>3, <1>4 DEF Smallest, ToSet

\* Down stays less than z behind a.
LEMMA DownIs ==
  ASSUME NEW a \in Nat, NEW z \in Nat, z > 0
  PROVE  Down(a, z) \in Nat /\ Down(a, z) <= a /\ a - Down(a, z) < z
<1>1. a % z \in 0 .. z - 1
  OBVIOUS
<1>2. a % z <= a
  <2>1. a = z * (a \div z) + (a % z) /\ a \div z \in Nat
    OBVIOUS
  <2>2. z * (a \div z) \in Nat
    BY <2>1
  <2>3. QED
    BY <1>1, <2>1, <2>2
<1>3. QED
  BY <1>1, <1>2 DEF Down

-----------------------------------------------------------------------------
(* Types of what the script makes                                            *)

\* A region is a block without a bitmask.
LEMMA RegionIsBlock == Regions \subseteq Blocks
BY DEF Regions, Blocks

\* pte_with_bitmask makes an emulated block.
LEMMA BlockType ==
  ASSUME NEW r \in Regions, r.size < Base
  PROVE  Block(r) \in Blocks /\ "e" \in Block(r).flags
<1> DEFINE n == r.size
           z == BlockSize(n)
           Z == {y \in ToSet(Sizes) : y >= n}
<1>1. r.size \in Nat /\ r.addr \in Nat /\ r.phys \in Nat /\ r.flags \in SUBSET Flags
  BY DEF Regions
<1>2. Z \in SUBSET Nat /\ Base \in Z
  BY <1>1, SizesAre, PageTablesAssumption DEF Levels
<1>3. \E y \in Z : \A x \in Z : y <= x
  BY <1>2, LeastNat
<1>4. z \in ToSet(Sizes)
  <2>1. \E y \in ToSet(Sizes) : y >= n /\ \A x \in ToSet(Sizes) : x >= n => x >= y
    BY <1>2, <1>3
  <2>2. QED
    BY <2>1 DEF BlockSize
<1>5. z \in Nat /\ z > 0
  BY <1>4, SizesAre
<1> HIDE DEF z
<1> DEFINE a == Down(r.addr, z)
           m == Bitmask(z, {i \in 0 .. z - 1 : i + a >= r.addr /\ i + a < End(r)})
<1>6. a \in Nat /\ Down(r.phys, z) \in Nat
  BY <1>1, <1>5, DownIs
<1>7. m \in Masks
  BY <1>5 DEF Bitmask, Masks
<1>8. Block(r) = [r EXCEPT !.addr = a, !.size = z, !.phys = Down(@, z), !.flags = @ \cup {"e"}, !.bm = m]
  BY DEF Block, z
<1> HIDE DEF a, m
<1>9. "e" \in Flags
  BY DEF Flags
<1>10. QED
  BY <1>1, <1>5, <1>6, <1>7, <1>8, <1>9 DEF Blocks, Regions

\* What SmallBlocks leaves of a list: regions as they are, and emulated blocks.
BlocksOf(list) == {b \in Blocks : "e" \in b.flags \/ b \in ToSet(list)}

\* The members of two lists, one behind the other.
LEMMA ConcatMembers ==
  ASSUME NEW E, NEW l \in Seq(E), NEW m \in Seq(E)
  PROVE  ToSet(l \o m) = ToSet(l) \cup ToSet(m)
<1> DEFINE n == Len(l)
           o == Len(m)
           w == l \o m
<1>1. n \in Nat /\ o \in Nat /\ DOMAIN l = 1 .. n /\ DOMAIN m = 1 .. o /\ DOMAIN w = 1 .. n + o
  OBVIOUS
<1>2. \A i \in 1 .. n : w[i] = l[i]
  OBVIOUS
<1>3. \A i \in n + 1 .. n + o : w[i] = m[i - n]
  OBVIOUS
<1> HIDE DEF n, o, w
<1>4. ASSUME NEW x \in ToSet(w) PROVE x \in ToSet(l) \cup ToSet(m)
  <2>1. PICK i \in 1 .. n + o : x = w[i]
    BY <1>1 DEF ToSet
  <2>2. CASE i <= n
    BY <1>1, <1>2, <2>1, <2>2 DEF ToSet
  <2>3. CASE ~(i <= n)
    <3>1. i \in n + 1 .. n + o /\ i - n \in 1 .. o
      BY <1>1, <2>3
    <3>2. x = m[i - n]
      BY <1>3, <2>1, <3>1
    <3>3. QED
      BY <1>1, <3>1, <3>2 DEF ToSet
  <2>4. QED
    BY <2>2, <2>3
<1>5. ASSUME NEW x \in ToSet(l) PROVE x \in ToSet(w)
  <2>1. PICK i \in 1 .. n : x = l[i]
    BY <1>1 DEF ToSet
  <2>2. i \in 1 .. n + o /\ x = w[i]
    BY <1>1, <1>2, <2>1
  <2>3. QED
    BY <1>1, <2>2 DEF ToSet
<1>6. ASSUME NEW x \in ToSet(m) PROVE x \in ToSet(w)
  <2>1. PICK i \in 1 .. o : x = m[i]
    BY <1>1 DEF ToSet
  <2>2. n + i \in n + 1 .. n + o /\ n + i \in 1 .. n + o /\ (n + i) - n = i
    BY <1>1
  <2>3. x = w[n + i]
    BY <1>3, <2>1, <2>2
  <2>4. QED
    BY <1>1, <2>2, <2>3 DEF ToSet
<1>7. QED
  BY <1>4, <1>5, <1>6 DEF w

\* Sorted keeps the members of a list.
LEMMA SortedType ==
  ASSUME NEW B \in SUBSET Blocks, NEW list \in Seq(B), NEW p \in B
  PROVE  Sorted(list, p) \in Seq(B) /\ ToSet(list) \cup {p} \subseteq ToSet(Sorted(list, p))
<1> DEFINE Q(i) == /\ \A j \in 1 .. i - 1 : list[j].addr <= p.addr
                   /\ i <= Len(list) => list[i].addr > p.addr
           I == {i \in 1 .. Len(list) + 1 : i <= Len(list) => list[i].addr > p.addr}
<1>1. Len(list) \in Nat /\ p.addr \in Nat /\ \A j \in 1 .. Len(list) : list[j] \in B /\ list[j].addr \in Nat
  <2>1. \A q \in Blocks : q.addr \in Nat
    BY DEF Blocks
  <2>2. QED
    BY <2>1
<1>2. PICK i \in I : \A j \in I : i <= j
  <2>1. I \in SUBSET Nat /\ Len(list) + 1 \in I
    BY <1>1
  <2>2. QED
    BY <2>1, LeastNat
<1>3. Q(i)
  <2>1. \A j \in 1 .. i - 1 : j \notin I /\ j \in 1 .. Len(list) + 1
    BY <1>1, <1>2
  <2>2. QED
    BY <1>1, <1>2, <2>1
<1> DEFINE c == CHOOSE k \in 1 .. Len(list) + 1 : Q(k)
<1>4. c \in 1 .. Len(list) + 1
  BY <1>2, <1>3
<1>5. Sorted(list, p) = SubSeq(list, 1, c - 1) \o <<p>> \o SubSeq(list, c, Len(list))
  BY DEF Sorted, InsertAt
<1> HIDE DEF c
<1>6. SubSeq(list, 1, c - 1) \in Seq(B)
  BY <1>1, <1>4
<1>7. SubSeq(list, c, Len(list)) \in Seq(B)
  BY <1>1, <1>4
<1> DEFINE l == SubSeq(list, 1, c - 1)
           m == SubSeq(list, c, Len(list))
           w == <<p>>
<1>15. DOMAIN list = 1 .. Len(list)
  OBVIOUS
<1>16. ASSUME NEW k \in 1 .. Len(list)
       PROVE  IF k < c THEN k \in DOMAIN l /\ l[k] = list[k]
              ELSE (k - c) + 1 \in DOMAIN m /\ m[(k - c) + 1] = list[k]
  BY <1>1, <1>4
<1>8. ToSet(list) \subseteq ToSet(l) \cup ToSet(m)
  <2> HIDE DEF l, m
  <2> SUFFICES ASSUME NEW k \in 1 .. Len(list) PROVE list[k] \in ToSet(l) \cup ToSet(m)
    BY <1>15 DEF ToSet
  <2>1. \/ \E j \in DOMAIN l : l[j] = list[k]
        \/ \E j \in DOMAIN m : m[j] = list[k]
    BY <1>16
  <2>2. QED
    BY <2>1 DEF ToSet
<1>9. w \in Seq(B) /\ ToSet(w) = {p}
  BY DEF ToSet
<1> HIDE DEF l, m, w
<1>10. Sorted(list, p) = l \o w \o m /\ l \in Seq(B) /\ m \in Seq(B)
  BY <1>5, <1>6, <1>7 DEF l, m, w
<1>11. l \o w \in Seq(B) /\ ToSet(l \o w) = ToSet(l) \cup {p}
  BY <1>9, <1>10, ConcatMembers
<1> DEFINE o == l \o w
<1>12. o \in Seq(B) /\ ToSet(o) = ToSet(l) \cup {p} /\ Sorted(list, p) = o \o m
  BY <1>10, <1>11
<1> HIDE DEF o
<1>13. o \o m \in Seq(B) /\ ToSet(o \o m) = ToSet(o) \cup ToSet(m)
  BY <1>10, <1>12, ConcatMembers
<1>14. QED
  BY <1>8, <1>12, <1>13

\* What SmallBlocks makes of region r: itself, or the block of the small regions of its page.
StandsFor(b, r, list) ==
  IF r.size < Base THEN
    \E q \in ToSet(list) :
      /\ q.size # 0 /\ q.size < Base /\ Block(q).addr = Block(r).addr /\ Block(q).size = Block(r).size
      /\ b.addr = Block(q).addr /\ b.size = Block(q).size /\ b.phys = Block(q).phys
      /\ b.emu = r.emu /\ Block(r).bm.bits \subseteq b.bm.bits /\ "e" \in b.flags
  ELSE b = r

\* Regions joined into blocks, in the order of their addresses, none forgotten.
LEMMA SmallBlocksType ==
  ASSUME NEW list \in Seq(Regions), SmallBlocks(list) # None
  PROVE  /\ SmallBlocks(list) \in Seq(BlocksOf(list))
         /\ \A r \in ToSet(list) : r.size # 0 => \E b \in ToSet(SmallBlocks(list)) : StandsFor(b, r, list)
<1> DEFINE real == {i \in DOMAIN list : list[i].size # 0}
           block == [i \in real |-> Extended(list[i])]
           into == [i \in real |->
                {j \in real : j < i /\ block[i].bm # None /\ Within(block[i], block[j])}]
           joined(i) ==
             IF into[i] = {} THEN block[i]
             ELSE [block[i] EXCEPT !.bm.bits = @ \cup UNION {block[j].bm.bits : j \in into[i]}]
           left == {i \in real : \A k \in real : i \notin into[k]}
           n == Len(list)
           b == <<>>
           Is(f) == f = [i \in 0 .. n |-> IF i = 0 THEN b
                           ELSE IF i \in left THEN Sorted(f[i - 1], joined(i)) ELSE f[i - 1]]
           h == CHOOSE f : Is(f)
           bad == \E i \in real : \E j \in into[i] : ~SameBlock(block[i], block[j])
           S == Seq(BlocksOf(list))
           g == [x \in (1 .. n) \X S |-> IF x[1] \in left THEN Sorted(x[2], joined(x[1])) ELSE x[2]]
<1>1. SmallBlocks(list) = IF bad THEN None ELSE h[n]
  BY DEF SmallBlocks
<1>2. ~bad
  BY <1>1
<1>3. n \in Nat /\ DOMAIN list = 1 .. n /\ \A i \in 1 .. n : list[i] \in Regions
  OBVIOUS
<1>4. ASSUME NEW i \in real
      PROVE  block[i] \in BlocksOf(list) /\ (block[i].bm # None => "e" \in block[i].flags)
  <2>1. list[i] \in Regions /\ list[i] \in ToSet(list) /\ list[i].bm = None
    BY <1>3 DEF ToSet, Regions
  <2>2. CASE list[i].size < Base
    BY <2>1, <2>2, BlockType DEF Extended, BlocksOf
  <2>3. CASE ~(list[i].size < Base)
    BY <2>1, <2>3, RegionIsBlock DEF Extended, BlocksOf
  <2>4. QED
    BY <2>2, <2>3
<1>5. ASSUME NEW i \in left PROVE joined(i) \in BlocksOf(list)
  <2>1. i \in real /\ block[i] \in BlocksOf(list)
    BY <1>4
  <2>2. CASE into[i] = {}
    BY <2>1, <2>2
  <2>3. CASE into[i] # {}
    <3>1. PICK j \in real : j \in into[i]
      BY <2>1, <2>3
    <3>2. block[i].bm # None /\ "e" \in block[i].flags /\ block[i] \in Blocks
      BY <1>4, <2>1, <3>1 DEF BlocksOf
    <3>3. ASSUME NEW k \in into[i] PROVE block[k].bm.bits \in SUBSET Nat
      <4>1. k \in real /\ SameBlock(block[i], block[k])
        BY <1>2, <2>1
      <4>2. block[k].bm # None /\ block[k] \in Blocks
        BY <1>4, <4>1 DEF SameBlock, BlocksOf
      <4>3. QED
        BY <4>2 DEF Blocks, Masks
    <3> DEFINE more == UNION {block[k].bm.bits : k \in into[i]}
    <3>4. more \in SUBSET Nat
      BY <3>3
    <3> HIDE DEF more
    <3>5. joined(i) = [block[i] EXCEPT !.bm.bits = @ \cup more]
      BY <2>3 DEF more
    <3> HIDE DEF block
    <3>6. [block[i] EXCEPT !.bm.bits = @ \cup more] \in Blocks
      BY <3>2, <3>4 DEF Blocks, Masks
    <3>7. [block[i] EXCEPT !.bm.bits = @ \cup more].flags = block[i].flags
      BY <3>2 DEF Blocks
    <3>8. QED
      BY <3>2, <3>5, <3>6, <3>7 DEF BlocksOf
  <2>4. QED
    BY <2>2, <2>3
<1> HIDE DEF joined, left
<1>6. ASSUME NEW i \in 1 .. n, NEW s \in S
      PROVE  (IF i \in left THEN Sorted(s, joined(i)) ELSE s) \in S
  <2>1. BlocksOf(list) \subseteq Blocks
    BY DEF BlocksOf
  <2>2. QED
    BY <1>5, <2>1, SortedType
<1>7. \A i \in 1 .. n : \A s \in S : g[<<i, s>>] \in S
  BY <1>6
<1>8. \E f : Is(f)
  <2>1. b \in S
    OBVIOUS
  <2>2. PICK f \in [0 .. n -> S] : IsFold(f, n, b, g)
    <3> HIDE DEF g, b, n, S
    <3>1. QED BY <1>3, <1>7, <2>1, FoldExists
  <2>3. \A i \in 0 .. n : i # 0 =>
           g[<<i, f[i - 1]>>] = IF i \in left THEN Sorted(f[i - 1], joined(i)) ELSE f[i - 1]
    BY <1>3
  <2>4. Is(f)
    <3> HIDE DEF g, b, n, S
    <3>1. QED BY <2>2, <2>3 DEF IsFold
  <2>5. QED
    BY <2>4
<1>9. Is(h)
  BY <1>8
<1>10. h[n] \in S
  <2> HIDE DEF h
  <2>1. h[0] \in S
    BY <1>3, <1>9
  <2>2. \A i \in 1 .. n : h[i - 1] \in S => h[i] \in S
    <3>1. \A i \in 1 .. n : h[i] = IF i \in left THEN Sorted(h[i - 1], joined(i)) ELSE h[i - 1]
      <4> HIDE DEF n
      <4>1. QED BY <1>3, <1>9
    <3>2. QED
      <4> HIDE DEF n, S
      <4>1. QED BY <1>6, <3>1
  <2>3. QED
    <3> HIDE DEF n, S
    <3>1. QED BY <1>3, <2>1, <2>2, FoldType
<1>11. \A i \in left : i \in 1 .. n /\ joined(i) \in ToSet(h[n])
  <2>1. \A i \in 1 .. n : h[i] = IF i \in left THEN Sorted(h[i - 1], joined(i)) ELSE h[i - 1]
    <3> HIDE DEF n, h
    <3>1. QED BY <1>3, <1>9
  <2>2. h[0] = b
    <3> HIDE DEF h, b
    <3>1. QED BY <1>3, <1>9
  <2>3. left \subseteq 1 .. n
    BY <1>3 DEF left
  <2> DEFINE Ok(k) == h[k] \in S /\ \A i \in left : i <= k => joined(i) \in ToSet(h[k])
             T == {k \in Nat : k <= n => Ok(k)}
  <2>4. 0 \in T
    <3>1. b \in S
      OBVIOUS
    <3> HIDE DEF h, b, n, S
    <3>2. QED BY <1>3, <2>2, <2>3, <3>1
  <2>5. ASSUME NEW k \in Nat, k \in T PROVE k + 1 \in T
    <3> SUFFICES ASSUME k + 1 <= n PROVE Ok(k + 1)
      OBVIOUS
    <3> DEFINE m == k + 1
    <3>1. m \in 1 .. n /\ m - 1 = k /\ Ok(k) /\ \A i \in left : i <= m => i <= k \/ i = m
      BY <1>3, <2>3, <2>5
    <3> HIDE DEF m, h, n
    <3>2. h[m] = (IF m \in left THEN Sorted(h[k], joined(m)) ELSE h[k]) /\ h[m] \in S
      BY <1>6, <2>1, <3>1
    <3>3. CASE m \in left
      <4>1. joined(m) \in BlocksOf(list) /\ BlocksOf(list) \subseteq Blocks
        BY <1>5, <3>3 DEF BlocksOf
      <4>2. ToSet(h[k]) \cup {joined(m)} \subseteq ToSet(h[m])
        BY <3>1, <3>2, <3>3, <4>1, SortedType
      <4>3. QED
        BY <3>1, <3>2, <4>2 DEF m
    <3>4. CASE m \notin left
      BY <3>1, <3>2, <3>4 DEF m
    <3>5. QED
      BY <3>3, <3>4
  <2>6. Nat \subseteq T
    <3> HIDE DEF T
    <3>1. QED BY <2>4, <2>5, NatInd
  <2>7. Ok(n)
    <3> HIDE DEF h, n, S
    <3>1. QED BY <1>3, <2>6
  <2>8. QED
    <3> HIDE DEF h, n, S
    <3>1. QED BY <1>3, <2>3, <2>7
<1>12. \A i \in real : list[i] \in Regions /\ list[i].bm = None
  BY <1>3 DEF Regions
<1>13. ASSUME NEW k \in left
       PROVE  /\ k \in real /\ joined(k).addr = block[k].addr /\ joined(k).size = block[k].size
              /\ joined(k).phys = block[k].phys /\ joined(k).emu = block[k].emu
              /\ joined(k).flags = block[k].flags
              /\ block[k].bm # None => /\ block[k].bm.bits \subseteq joined(k).bm.bits
                                       /\ \A j \in into[k] : block[j].bm.bits \subseteq joined(k).bm.bits
              /\ block[k].bm = None => joined(k) = block[k]
  <2>1. k \in real
    BY DEF left
  <2>2. CASE into[k] = {}
    BY <2>1, <2>2 DEF joined
  <2>3. CASE into[k] # {}
    <3>1. block[k].bm # None /\ block[k] \in Blocks
      BY <1>4, <2>1, <2>3 DEF BlocksOf
    <3> DEFINE more == UNION {block[j].bm.bits : j \in into[k]}
               x == block[k]
    <3>2. joined(k) = [x EXCEPT !.bm.bits = @ \cup more]
      BY <2>3 DEF joined
    <3>3. \A j \in into[k] : block[j].bm.bits \subseteq more
      OBVIOUS
    <3>4. x \in Blocks /\ x.bm # None
      BY <3>1
    <3> HIDE DEF more, x
    <3>5. x.bm \in Masks
      BY <3>4 DEF Blocks
    <3>6. LET y == [x EXCEPT !.bm.bits = @ \cup more] IN
          /\ y.addr = x.addr /\ y.size = x.size /\ y.phys = x.phys /\ y.emu = x.emu /\ y.flags = x.flags
          /\ y.bm = [x.bm EXCEPT !.bits = @ \cup more]
      BY <3>4 DEF Blocks
    <3>7. [x.bm EXCEPT !.bits = @ \cup more].bits = x.bm.bits \cup more
      BY <3>5 DEF Masks
    <3>8. QED
      BY <2>1, <3>1, <3>2, <3>3, <3>6, <3>7 DEF x
  <2>4. QED
    BY <2>2, <2>3
<1>14. ASSUME NEW i \in real
       PROVE  \E x \in ToSet(h[n]) : StandsFor(x, list[i], list)
  <2> DEFINE r == list[i]
  <2>1. i \in 1 .. n /\ r \in Regions /\ r \in ToSet(list) /\ block[i] = Extended(r) /\ r.size # 0 /\ r.bm = None
    BY <1>3, <1>12 DEF ToSet
  <2>2. \A k \in real : \A j \in into[k] : /\ j \in real /\ j < k /\ block[k].bm # None
                                         /\ SameBlock(block[k], block[j])
    BY <1>2
  <2>3. CASE ~(r.size < Base)
    <3>1. block[i] = r
      BY <2>1, <2>3 DEF Extended
    <3>2. i \in left
      BY <2>1, <2>2, <3>1 DEF left, SameBlock
    <3>3. joined(i) = r /\ joined(i) \in ToSet(h[n])
      BY <1>11, <1>13, <2>1, <3>1, <3>2
    <3>4. QED
      BY <2>3, <3>3 DEF StandsFor
  <2>4. CASE r.size < Base
    <3> DEFINE K == {k \in real : i \in into[k]}
    <3>1. block[i] = Block(r)
      BY <2>1, <2>4 DEF Extended
    <3>2. \E k \in left : k = i \/ i \in into[k]
      <4>1. CASE K = {}
        BY <4>1 DEF left
      <4>2. CASE K # {}
        <5>1. K \in SUBSET Nat /\ \A m \in K : m <= n
          BY <1>3
        <5>2. PICK k \in K : \A m \in K : m <= k
          <6> HIDE DEF K, n
          <6>1. QED BY <1>3, <4>2, <5>1, GreatestNat
        <5>3. k \in real /\ i \in into[k] /\ k \in Nat
          BY <5>1
        <5>4. ASSUME NEW m \in real, k \in into[m] PROVE FALSE
          <6>8. m \in Nat
            BY <1>3, <5>4
          <6>1. k < m /\ m \in Nat /\ SameBlock(block[m], block[k]) /\ block[m].bm # None
            <7> HIDE DEF block, into, real
            <7>1. QED BY <2>2, <5>4, <6>8
          <6>2. SameBlock(block[k], block[i]) /\ i < k /\ Within(block[m], block[k])
            BY <2>2, <5>3, <5>4
          <6>3. block[k].addr = block[i].addr /\ block[k].size = block[i].size
            BY <6>2 DEF SameBlock
          <6>4. Within(block[m], block[i])
            BY <6>2, <6>3 DEF Within, End
          <6>5. i < m
            BY <1>3, <2>1, <5>3, <6>1, <6>2
          <6>6. m \in K
            BY <6>1, <6>4, <6>5
          <6>7. QED
            <7> HIDE DEF K
            <7>1. QED BY <5>2, <5>3, <6>1, <6>6
        <5>5. k \in left
          BY <5>3, <5>4 DEF left
        <5>6. QED
          BY <5>3, <5>5
      <4>3. QED
        BY <4>1, <4>2
    <3>3. PICK k \in left : k = i \/ i \in into[k]
      BY <3>2
    <3> DEFINE x == joined(k)
               q == list[k]
    <3>4. k \in real /\ q \in ToSet(list) /\ q \in Regions /\ q.bm = None /\ q.size # 0 /\ block[k] = Extended(q)
      BY <1>3, <1>12, <1>13 DEF ToSet
    <3>5. q.size < Base
      <4>1. CASE k = i
        BY <2>4, <4>1
      <4>2. CASE i \in into[k]
        BY <2>2, <3>4, <4>2 DEF Extended
      <4>3. QED
        BY <3>3, <4>1, <4>2
    <3>6. block[k] = Block(q) /\ "e" \in Block(q).flags
      BY <3>4, <3>5, BlockType DEF Extended
    <3>7. /\ x.addr = Block(q).addr /\ x.size = Block(q).size /\ x.phys = Block(q).phys
          /\ x.emu = Block(q).emu /\ x.flags = Block(q).flags /\ x \in ToSet(h[n])
      <4> HIDE DEF block, joined, h
      <4>1. QED BY <1>11, <1>13, <3>6
    <3>8. /\ Block(q).addr = Block(r).addr /\ Block(q).size = Block(r).size /\ Block(q).emu = Block(r).emu
          /\ Block(r).bm.bits \subseteq x.bm.bits
      <4>1. CASE k = i
        <5> HIDE DEF block, joined
        <5>1. QED BY <1>13, <3>6, <4>1
      <4>2. CASE i \in into[k]
        <5>1. SameBlock(block[k], block[i]) /\ block[k].bm # None
          BY <1>13, <2>2, <4>2
        <5> HIDE DEF block, joined
        <5>2. QED BY <1>13, <3>1, <3>6, <4>2, <5>1 DEF SameBlock
      <4>3. QED
        BY <3>3, <4>1, <4>2
    <3>9. Block(r).emu = r.emu
      <4>1. r.emu = [r EXCEPT !.addr = 0].emu
        BY <2>1 DEF Regions
      <4>2. QED
        BY <2>1 DEF Block, Regions
    <3> HIDE DEF x, q
    <3>10. StandsFor(x, r, list)
      BY <2>4, <3>4, <3>5, <3>6, <3>7, <3>8, <3>9 DEF StandsFor
    <3>11. QED
      BY <3>7, <3>10
  <2>5. QED
    BY <2>3, <2>4
<1>15. ASSUME NEW r \in ToSet(list), r.size # 0 PROVE \E x \in ToSet(h[n]) : StandsFor(x, r, list)
  <2>1. PICK i \in DOMAIN list : r = list[i]
    BY DEF ToSet
  <2>2. i \in real
    BY <1>15, <2>1
  <2>3. QED
    BY <1>14, <2>1, <2>2
<1>16. SmallBlocks(list) = h[n]
  BY <1>1, <1>2
<1> HIDE DEF h, n
<1>17. QED
  BY <1>10, <1>15, <1>16 DEF S

-----------------------------------------------------------------------------
(* Pages of the regions                                                      *)

\* q is a page of block r.
Part(q, r) ==
  /\ q.flags = r.flags /\ q.emu = r.emu /\ q.bm = r.bm
  /\ q.addr >= r.addr /\ q.addr + q.size <= r.addr + r.size
  /\ q.phys - q.addr = r.phys - r.addr

Page(q) == q.size \in ToSet(Sizes) /\ q.addr % q.size = 0

Parts(r) == {q \in Blocks : Page(q) /\ Part(q, r)}

\* In the order of their addresses, none reaching into the next.
Ascending(list) ==
  \A i, j \in DOMAIN list : i < j => list[i].addr + list[i].size <= list[j].addr

Below(list, a) == \A i \in DOMAIN list : list[i].addr + list[i].size <= a

\* An element behind all of a list keeps its order.
LEMMA AppendAscends ==
  ASSUME NEW B, \A q \in B : q.addr \in Nat /\ q.size \in Nat,
         NEW list \in Seq(B), NEW p \in B, NEW a \in Nat,
         Ascending(list), Below(list, p.addr), p.addr + p.size <= a
  PROVE  /\ Append(list, p) \in Seq(B)
         /\ Ascending(Append(list, p)) /\ Below(Append(list, p), a)
<1> DEFINE n == Len(list)
           l == Append(list, p)
<1>1. l \in Seq(B) /\ n \in Nat /\ DOMAIN list = 1 .. n /\ DOMAIN l = 1 .. n + 1
  OBVIOUS
<1>2. l[n + 1] = p /\ \A i \in 1 .. n : l[i] = list[i]
  OBVIOUS
<1>3. \A q \in B : q.addr \in Nat /\ q.size \in Nat
  OBVIOUS
<1>4. \A i \in 1 .. n : list[i] \in B
  OBVIOUS
<1> HIDE DEF l, n
<1>5. Ascending(l)
  <2> SUFFICES ASSUME NEW i \in 1 .. n + 1, NEW j \in 1 .. n + 1, i < j
               PROVE  l[i].addr + l[i].size <= l[j].addr
    BY <1>1 DEF Ascending
  <2>1. i \in 1 .. n
    BY <1>1
  <2>2. CASE j = n + 1
    BY <1>1, <1>2, <2>1, <2>2 DEF Below
  <2>3. CASE j \in 1 .. n
    BY <1>1, <1>2, <2>1, <2>3 DEF Ascending
  <2>4. QED
    BY <1>1, <2>2, <2>3
<1>6. Below(l, a)
  <2> SUFFICES ASSUME NEW i \in 1 .. n + 1
               PROVE  l[i].addr + l[i].size <= a
    BY <1>1 DEF Below
  <2>1. CASE i = n + 1
    BY <1>2, <2>1
  <2>2. CASE i \in 1 .. n
    <3>1. l[i].addr + l[i].size <= p.addr /\ l[i] \in B
      BY <1>1, <1>2, <1>4, <2>2 DEF Below
    <3>2. QED
      BY <1>3, <3>1
  <2>3. QED
    BY <1>1, <2>1, <2>2
<1>7. QED
  BY <1>1, <1>5, <1>6 DEF l

\* The members of a list with one more.
LEMMA AppendMembers ==
  ASSUME NEW E, NEW l \in Seq(E), NEW p \in E
  PROVE  ToSet(Append(l, p)) = ToSet(l) \cup {p}
<1> DEFINE n == Len(l)
           w == Append(l, p)
<1>1. n \in Nat /\ DOMAIN l = 1 .. n /\ DOMAIN w = 1 .. n + 1
  OBVIOUS
<1>2. w[n + 1] = p /\ \A i \in 1 .. n : w[i] = l[i]
  OBVIOUS
<1> HIDE DEF n, w
<1>3. 1 .. n + 1 = (1 .. n) \cup {n + 1}
  BY <1>1
<1>4. ToSet(w) = ToSet(l) \cup {p}
  BY <1>1, <1>2, <1>3 DEF ToSet
<1>5. QED
  BY <1>4 DEF w

\* split_pte: the page that fits at a, if one does.
LEMMA PageSizeIs ==
  ASSUME NEW a \in Nat, NEW e \in Nat
  PROVE  /\ PageSize(a, e) \in Nat
         /\ PageSize(a, e) # 0 => /\ PageSize(a, e) \in ToSet(Sizes)
                                  /\ a % PageSize(a, e) = 0 /\ a + PageSize(a, e) <= e
<1> DEFINE fit == {z \in ToSet(Sizes) : a % z = 0 /\ a + z <= e}
<1>1. CASE fit = {}
  BY <1>1 DEF PageSize
<1>2. CASE fit # {}
  <2>1. fit \in SUBSET Nat /\ \A m \in fit : m <= e
    BY SizesAre
  <2>2. \E z \in fit : \A y \in fit : y <= z
    <3> HIDE DEF fit
    <3>1. QED BY <1>2, <2>1, GreatestNat
  <2>3. PageSize(a, e) = CHOOSE z \in fit : \A y \in fit : y <= z
    BY <1>2 DEF PageSize
  <2>4. PageSize(a, e) \in fit
    <3> HIDE DEF fit
    <3>1. QED BY <2>2, <2>3
  <2>5. QED
    BY <2>1, <2>4
<1>3. QED
  BY <1>1, <1>2

\* A page of its own size stays one piece.
LEMMA PageSizeWhole ==
  ASSUME NEW a \in Nat, NEW z \in ToSet(Sizes), a % z = 0
  PROVE  PageSize(a, a + z) = z
<1> DEFINE fit == {y \in ToSet(Sizes) : a % y = 0 /\ a + y <= a + z}
<1>1. ToSet(Sizes) \subseteq Nat
  BY SizesAre
<1>2. z \in fit /\ fit \subseteq Nat /\ \A y \in fit : y <= z
  BY <1>1
<1>3. PageSize(a, a + z) = CHOOSE y \in fit : \A x \in fit : x <= y
  BY <1>2 DEF PageSize
<1> HIDE DEF fit
<1>4. (CHOOSE y \in fit : \A x \in fit : x <= y) \in fit /\ z <= (CHOOSE y \in fit : \A x \in fit : x <= y)
  BY <1>2
<1> DEFINE m == CHOOSE y \in fit : \A x \in fit : x <= y
<1> HIDE DEF m
<1>5. m \in fit /\ z <= m /\ PageSize(a, a + z) = m
  BY <1>3, <1>4 DEF m
<1>6. QED
  BY <1>2, <1>5

\* The pages cut of block r cover it up to a; a block that is a page is one of them.
Covered(l, r, a) ==
  /\ \A i \in r.addr .. a - 1 : \E q \in ToSet(l) : i \in q.addr .. q.addr + q.size - 1
  /\ Page(r) => a = r.addr \/ r \in ToSet(l)

\* What split_pte has cut of block r so far.
Cuts(r) == {s \in [addr : Nat, pages : Seq(Parts(r))] :
              s.addr >= r.addr /\ Ascending(s.pages) /\ Below(s.pages, s.addr) /\ Covered(s.pages, r, s.addr)}

\* split_pte: a further cut is a page of the block, behind the others.
LEMMA NextPieceKeeps ==
  ASSUME NEW r \in Blocks, NEW s \in Cuts(r)
  PROVE  NextPiece(r, s) \in Cuts(r)
<1> DEFINE z == PageSize(s.addr, End(r))
<1>1. /\ s \in [addr : Nat, pages : Seq(Parts(r))] /\ s.addr \in Nat /\ s.pages \in Seq(Parts(r))
      /\ s.addr >= r.addr /\ Ascending(s.pages) /\ Below(s.pages, s.addr) /\ Covered(s.pages, r, s.addr)
  BY DEF Cuts
<1>2. r.addr \in Nat /\ r.size \in Nat /\ r.phys \in Nat
  BY DEF Blocks
<1>3. /\ z \in Nat
      /\ z # 0 => z \in ToSet(Sizes) /\ s.addr % z = 0 /\ s.addr + z <= r.addr + r.size
  <2>1. End(r) \in Nat /\ End(r) = r.addr + r.size
    BY <1>2 DEF End
  <2> HIDE DEF z
  <2>2. /\ z \in Nat
        /\ z # 0 => z \in ToSet(Sizes) /\ s.addr % z = 0 /\ s.addr + z <= End(r)
    BY <1>1, <2>1, PageSizeIs DEF z
  <2>3. QED
    BY <2>1, <2>2
<1>4. NextPiece(r, s) = IF z = 0 THEN s
        ELSE [addr |-> s.addr + z, pages |-> Append(s.pages, Piece(r, s.addr, z))]
  BY DEF NextPiece
<1> HIDE DEF z
<1>5. CASE z = 0
  BY <1>4, <1>5
<1>6. CASE z # 0
  <2> DEFINE p == Piece(r, s.addr, z)
  <2>1. /\ p.addr = s.addr /\ p.size = z /\ p.phys = r.phys + s.addr - r.addr
        /\ p.flags = r.flags /\ p.emu = r.emu /\ p.bm = r.bm /\ p \in Blocks
    <3> DEFINE a == s.addr
               d == r.phys + s.addr - r.addr
    <3>1. a \in Nat /\ d \in Nat
      BY <1>1, <1>2
    <3>2. p = [r EXCEPT !.addr = a, !.size = z, !.phys = d]
      BY DEF Piece
    <3> HIDE DEF a, d, p
    <3>3. p.addr = a /\ p.size = z /\ p.phys = d /\ p.flags = r.flags /\ p.emu = r.emu
          /\ p.bm = r.bm /\ p \in Blocks
      BY <1>3, <3>1, <3>2 DEF Blocks
    <3>4. QED
      BY <3>3 DEF a, d
  <2> HIDE DEF p
  <2>2. Part(p, r)
    BY <1>1, <1>2, <1>3, <1>6, <2>1 DEF Part
  <2>3. Page(p)
    BY <1>3, <1>6, <2>1 DEF Page
  <2>4. p \in Parts(r) /\ Parts(r) \in SUBSET Blocks
    BY <2>1, <2>2, <2>3 DEF Parts
  <2>5. p.addr + p.size <= s.addr + z /\ s.addr + z \in Nat /\ Below(s.pages, p.addr)
    BY <1>1, <1>3, <2>1
  <2>6. /\ Append(s.pages, p) \in Seq(Parts(r)) /\ Ascending(Append(s.pages, p))
        /\ Below(Append(s.pages, p), s.addr + z)
    <3>1. \A q \in Parts(r) : q.addr \in Nat /\ q.size \in Nat
      BY DEF Parts, Blocks
    <3>2. QED
      BY <1>1, <2>4, <2>5, <3>1, AppendAscends
  <2>7. s.addr + z >= r.addr
    BY <1>1, <1>2, <1>3
  <2>8. NextPiece(r, s) = [addr |-> s.addr + z, pages |-> Append(s.pages, p)]
    BY <1>4, <1>6 DEF p
  <2> DEFINE l == Append(s.pages, p)
             c == s.addr + z
  <2>11. Covered(l, r, c)
    <3> DEFINE d == s.addr
               b == r.addr
               m == s.pages
    <3>1. ToSet(l) = ToSet(m) \cup {p}
      BY <1>1, <2>4, AppendMembers
    <3>2. b \in Nat /\ d \in Nat /\ c = d + z /\ p.addr = d /\ p.size = z
      BY <1>1, <1>2, <2>1
    <3>3. \A i \in b .. d - 1 : \E q \in ToSet(m) : i \in q.addr .. q.addr + q.size - 1
      BY <1>1 DEF Covered
    <3>4. Page(r) => d = b \/ r \in ToSet(m)
      BY <1>1 DEF Covered
    <3>5. Page(r) /\ d = b => p = r
      <4> SUFFICES ASSUME Page(r), d = b PROVE p = r
        OBVIOUS
      <4>1. End(r) = b + r.size /\ r.size \in ToSet(Sizes) /\ b % r.size = 0
        BY <1>2 DEF End, Page
      <4>2. z = r.size
        <5>1. z = PageSize(b, b + r.size)
          BY <4>1 DEF z
        <5> HIDE DEF b
        <5>2. QED BY <3>2, <4>1, <5>1, PageSizeWhole
      <4>3. r.phys + b - b = r.phys
        BY <1>2
      <4>4. p = [r EXCEPT !.addr = b, !.size = r.size, !.phys = r.phys]
        BY <4>2, <4>3 DEF p, Piece
      <4>5. QED
        BY <4>4 DEF Blocks
    <3> HIDE DEF l, c, d, b, m
    <3>6. \A i \in b .. c - 1 : \E q \in ToSet(l) : i \in q.addr .. q.addr + q.size - 1
      <4> SUFFICES ASSUME NEW i \in b .. c - 1 PROVE \E q \in ToSet(l) : i \in q.addr .. q.addr + q.size - 1
        OBVIOUS
      <4>1. CASE i < d
        BY <1>3, <3>1, <3>2, <3>3, <4>1
      <4>2. CASE ~(i < d)
        <5>1. i \in p.addr .. p.addr + p.size - 1
          BY <1>3, <3>2, <4>2
        <5>2. QED
          BY <3>1, <5>1
      <4>3. QED
        BY <4>1, <4>2
    <3>7. Page(r) => r \in ToSet(l)
      BY <3>1, <3>4, <3>5
    <3>8. QED
      BY <3>6, <3>7 DEF Covered, b
  <2>9. NextPiece(r, s) = [addr |-> c, pages |-> l] /\ c \in Nat /\ l \in Seq(Parts(r))
        /\ c >= r.addr /\ Ascending(l) /\ Below(l, c) /\ Covered(l, r, c)
    BY <2>5, <2>6, <2>7, <2>8, <2>11
  <2> HIDE DEF l, c
  <2>10. QED
    BY <2>9 DEF Cuts
<1>7. QED
  BY <1>5, <1>6

\* split_pte: the pieces of a block are its pages, in order.
LEMMA SplitRegionType ==
  ASSUME NEW r \in Blocks, SplitRegion(r) # None
  PROVE  /\ SplitRegion(r) \in Seq(Parts(r)) /\ Ascending(SplitRegion(r))
         /\ Below(SplitRegion(r), r.addr + r.size)
         /\ Covered(SplitRegion(r), r, r.addr + r.size)
<1> DEFINE n == r.size \div Smallest
           b == [addr |-> r.addr, pages |-> <<>>]
           Is(f) == f = [k \in 0 .. n |-> IF k = 0 THEN b ELSE NextPiece(r, f[k - 1])]
           h == CHOOSE f : Is(f)
           S == Cuts(r)
           g == [x \in (1 .. n) \X S |-> NextPiece(r, x[2])]
<1>1. r.addr \in Nat /\ r.size \in Nat /\ Smallest \in Nat /\ Smallest > 0
  BY SizesAre DEF Blocks
<1>2. n \in Nat
  BY <1>1
<1>3. b \in S
  <2>1. b.pages = <<>> /\ Ascending(<<>>) /\ Below(<<>>, r.addr)
    BY DEF Ascending, Below
  <2>3. Covered(<<>>, r, r.addr)
    <3>1. r.addr .. r.addr - 1 = {}
      BY <1>1
    <3>2. QED
      BY <3>1 DEF Covered
  <2>2. QED
    BY <1>1, <2>1, <2>3 DEF Cuts
<1>4. SplitRegion(r) = IF h[n].addr = End(r) THEN h[n].pages ELSE None
  BY DEF SplitRegion
<1>5. \A i \in 1 .. n : \A s \in S : g[<<i, s>>] = NextPiece(r, s) /\ NextPiece(r, s) \in S
  BY NextPieceKeeps
<1> HIDE DEF S, b, n
<1>6. \E f : Is(f)
  <2>1. PICK f \in [0 .. n -> S] : IsFold(f, n, b, g)
    <3> HIDE DEF g
    <3>1. QED BY <1>2, <1>3, <1>5, FoldExists
  <2>2. \A i \in 0 .. n : i # 0 => g[<<i, f[i - 1]>>] = NextPiece(r, f[i - 1])
    BY <1>2, <1>5
  <2> HIDE DEF g
  <2>3. QED
    BY <2>1, <2>2 DEF IsFold
<1> HIDE DEF g
<1>7. Is(h)
  BY <1>6
<1> HIDE DEF h
<1>8. h[0] \in S /\ \A i \in 1 .. n : h[i] = NextPiece(r, h[i - 1])
  BY <1>2, <1>3, <1>7
<1>9. \A i \in 1 .. n : h[i - 1] \in S => h[i] \in S
  BY <1>5, <1>8
<1>10. h[n] \in S
  BY <1>2, <1>8, <1>9, FoldType
<1>11. SplitRegion(r) = h[n].pages /\ h[n].addr = r.addr + r.size
  BY <1>4 DEF End
<1>12. QED
  BY <1>10, <1>11 DEF S, Cuts

\* Lists in order, one behind the other, are in order.
LEMMA ConcatAscends ==
  ASSUME NEW B, \A q \in B : q.addr \in Nat /\ q.size \in Nat,
         NEW l \in Seq(B), NEW m \in Seq(B), NEW a \in Nat, NEW c \in Nat,
         Ascending(l), Below(l, a), Ascending(m), Below(m, c),
         \A i \in DOMAIN m : m[i].addr >= a, a <= c
  PROVE  l \o m \in Seq(B) /\ Ascending(l \o m) /\ Below(l \o m, c)
<1> DEFINE n == Len(l)
           o == Len(m)
           w == l \o m
<1>1. n \in Nat /\ o \in Nat /\ DOMAIN l = 1 .. n /\ DOMAIN m = 1 .. o /\ DOMAIN w = 1 .. n + o /\ w \in Seq(B)
  OBVIOUS
<1>2. \A i \in 1 .. n : w[i] = l[i] /\ w[i] \in B
  OBVIOUS
<1>3. \A i \in n + 1 .. n + o : w[i] = m[i - n] /\ w[i] \in B /\ i - n \in 1 .. o
  OBVIOUS
<1>4. \A q \in B : q.addr \in Nat /\ q.size \in Nat
  OBVIOUS
<1> HIDE DEF w, n, o
<1>5. \A i \in 1 .. n : w[i].addr + w[i].size <= a
  BY <1>1, <1>2 DEF Below
<1>6. \A i \in n + 1 .. n + o : w[i].addr >= a /\ w[i].addr + w[i].size <= c
  BY <1>1, <1>3 DEF Below
<1>7. Ascending(w)
  <2> SUFFICES ASSUME NEW i \in 1 .. n + o, NEW j \in 1 .. n + o, i < j
               PROVE  w[i].addr + w[i].size <= w[j].addr
    BY <1>1 DEF Ascending
  <2>1. CASE j <= n
    <3>1. i \in 1 .. n /\ j \in 1 .. n
      BY <1>1, <2>1
    <3>2. QED
      BY <1>1, <1>2, <3>1 DEF Ascending
  <2>2. CASE i > n
    <3>1. i \in n + 1 .. n + o /\ j \in n + 1 .. n + o /\ i - n < j - n
      BY <1>1, <2>2
    <3>2. QED
      BY <1>1, <1>3, <3>1 DEF Ascending
  <2>3. CASE i <= n /\ j > n
    <3>1. i \in 1 .. n /\ j \in n + 1 .. n + o
      BY <1>1, <2>3
    <3>2. w[i].addr + w[i].size <= a /\ w[j].addr >= a
      BY <1>5, <1>6, <3>1
    <3>3. w[i] \in B /\ w[j] \in B
      BY <1>2, <1>3, <3>1
    <3>4. QED
      BY <1>4, <3>2, <3>3
  <2>4. QED
    BY <1>1, <2>1, <2>2, <2>3
<1>8. Below(w, c)
  <2> SUFFICES ASSUME NEW i \in 1 .. n + o PROVE w[i].addr + w[i].size <= c
    BY <1>1 DEF Below
  <2>1. CASE i \in 1 .. n
    BY <1>2, <1>4, <1>5, <2>1
  <2>2. CASE i \in n + 1 .. n + o
    BY <1>6, <2>2
  <2>3. QED
    BY <1>1, <2>1, <2>2
<1>9. QED
  BY <1>1, <1>7, <1>8 DEF w

\* The pages of a list of blocks.
PagesOf(list) == {q \in Blocks : Page(q) /\ \E r \in ToSet(list) : Part(q, r)}

\* Block r is cut into pages, all of them in a list.
CutInto(r, ps) == \E l \in Seq(Parts(r)) : ToSet(l) \subseteq ToSet(ps) /\ Covered(l, r, r.addr + r.size)

\* split_ptes: pages of the blocks, in order where the blocks are.
LEMMA SplitType ==
  ASSUME NEW list \in Seq(Blocks), Split(list) # None
  PROVE  /\ Split(list) \in Seq(PagesOf(list))
         /\ Ascending(list) => Ascending(Split(list))
         /\ \A r \in ToSet(list) : CutInto(r, Split(list))
<1> DEFINE P == PagesOf(list)
           pieces == [i \in DOMAIN list |-> SplitRegion(list[i])]
           n == Len(list)
           S == Seq(P)
           Is(f) == f = [i \in 1 .. n |-> IF i = 1 THEN pieces[i] ELSE f[i - 1] \o pieces[i]]
           h == CHOOSE f : Is(f)
<1>1. n \in Nat /\ DOMAIN list = 1 .. n /\ DOMAIN pieces = 1 .. n /\ Len(pieces) = n
  OBVIOUS
<1>2. ~(\E i \in DOMAIN list : pieces[i] = None) /\ Split(list) = FlattenSeq(pieces)
  BY DEF Split
<1>3. \A q \in P : q.addr \in Nat /\ q.size \in Nat
  BY DEF PagesOf, Blocks
<1>4. ASSUME NEW i \in 1 .. n
      PROVE  /\ list[i] \in Blocks /\ pieces[i] \in Seq(Parts(list[i])) /\ pieces[i] \in S
             /\ Ascending(pieces[i]) /\ Below(pieces[i], list[i].addr + list[i].size)
             /\ Covered(pieces[i], list[i], list[i].addr + list[i].size)
  <2>1. list[i] \in Blocks /\ list[i] \in ToSet(list)
    BY <1>1 DEF ToSet
  <2>2. pieces[i] = SplitRegion(list[i]) /\ pieces[i] # None
    BY <1>1, <1>2
  <2> HIDE DEF pieces
  <2>3. /\ pieces[i] \in Seq(Parts(list[i])) /\ Ascending(pieces[i])
        /\ Below(pieces[i], list[i].addr + list[i].size)
        /\ Covered(pieces[i], list[i], list[i].addr + list[i].size)
    BY <2>1, <2>2, SplitRegionType
  <2>4. Parts(list[i]) \subseteq P
    BY <2>1 DEF Parts, PagesOf
  <2>5. pieces[i] \in S
    BY <2>3, <2>4
  <2>6. QED
    BY <2>1, <2>3, <2>5
<1>5. CASE n = 0
  <2>1. pieces = <<>> /\ FlattenSeq(pieces) = pieces
    BY <1>1, <1>5 DEF FlattenSeq
  <2>2. Split(list) = <<>> /\ <<>> \in Seq(P)
    BY <1>2, <2>1
  <2>3. Ascending(<<>>) /\ ToSet(list) = {}
    BY <1>1, <1>5 DEF Ascending, ToSet
  <2> HIDE DEF pieces
  <2>4. QED
    BY <2>2, <2>3
<1>6. CASE n # 0
  <2>1. FlattenSeq(pieces) = h[n]
    <3>1. Len(pieces) = n
      BY <1>1
    <3> HIDE DEF pieces, n
    <3>2. QED BY <1>6, <3>1 DEF FlattenSeq
  <2> HIDE DEF pieces, n, P
  <2> DEFINE b == <<>>
             g == [x \in (1 .. n) \X S |-> IF x[1] = 1 THEN pieces[1] ELSE x[2] \o pieces[x[1]]]
  <2>2. \A i \in 1 .. n : \A s \in S :
          /\ g[<<i, s>>] = (IF i = 1 THEN pieces[1] ELSE s \o pieces[i])
          /\ g[<<i, s>>] \in S
    BY <1>1, <1>4, <1>6
  <2>3. b \in S
    OBVIOUS
  <2>4. \E f : Is(f)
    <3>1. PICK f \in [0 .. n -> S] : IsFold(f, n, b, g)
      <4> HIDE DEF g, b, S
      <4>1. QED BY <1>1, <2>2, <2>3, FoldExists
    <3> DEFINE e == [i \in 1 .. n |-> f[i]]
    <3>2. \A i \in 1 .. n : f[i] = IF i = 1 THEN pieces[i] ELSE f[i - 1] \o pieces[i]
      <4>1. \A i \in 1 .. n : f[i] = g[<<i, f[i - 1]>>] /\ f[i - 1] \in S
        <5> HIDE DEF g, b, S
        <5>1. QED BY <1>1, <3>1 DEF IsFold
      <4> HIDE DEF g, S
      <4>2. QED
        BY <2>2, <4>1
    <3>3. \A i \in 1 .. n : i # 1 => e[i - 1] = f[i - 1]
      BY <1>1
    <3>4. e = [i \in 1 .. n |-> IF i = 1 THEN pieces[i] ELSE e[i - 1] \o pieces[i]]
      <4>1. e = [i \in 1 .. n |-> e[i]] /\ \A i \in 1 .. n : e[i] = f[i]
        OBVIOUS
      <4> HIDE DEF e
      <4>2. QED
        BY <3>2, <3>3, <4>1
    <3> HIDE DEF e
    <3>5. QED
      BY <3>4
  <2> HIDE DEF g, b
  <2>5. Is(h)
    BY <2>4
  <2> HIDE DEF h
  <2>6. \A i \in 1 .. n : h[i] = IF i = 1 THEN pieces[i] ELSE h[i - 1] \o pieces[i]
    BY <2>5
  <2> DEFINE Ok(k) == /\ h[k] \in S
                      /\ Ascending(list) => Ascending(h[k]) /\ Below(h[k], list[k].addr + list[k].size)
                      /\ \A m \in 1 .. k : ToSet(pieces[m]) \subseteq ToSet(h[k])
             T == {k \in Nat : k + 1 <= n => Ok(k + 1)}
  <2>7. 0 \in T
    <3>1. 1 \in 1 .. n /\ h[1] = pieces[1]
      BY <1>1, <1>6, <2>6
    <3>2. QED
      BY <1>4, <3>1
  <2>8. ASSUME NEW k \in Nat, k \in T PROVE k + 1 \in T
    <3> SUFFICES ASSUME (k + 1) + 1 <= n PROVE Ok((k + 1) + 1)
      OBVIOUS
    <3> DEFINE i == k + 1
               j == (k + 1) + 1
    <3>1. i \in 1 .. n /\ j \in 1 .. n /\ j # 1 /\ j - 1 = i /\ i < j /\ Ok(i)
      BY <1>1, <2>8
    <3> HIDE DEF i, j
    <3>2. h[j] = h[i] \o pieces[j]
      BY <2>6, <3>1
    <3>3. h[i] \in S /\ pieces[j] \in S
      BY <1>4, <3>1
    <3>4. h[j] \in S
      BY <3>2, <3>3
    <3>5. ASSUME Ascending(list)
          PROVE  Ascending(h[j]) /\ Below(h[j], list[j].addr + list[j].size)
      <4> DEFINE a == list[i].addr + list[i].size
                 c == list[j].addr + list[j].size
      <4>1. a \in Nat /\ c \in Nat /\ a <= list[j].addr /\ list[j].addr \in Nat /\ a <= c
        <5>1. list[i] \in Blocks /\ list[j] \in Blocks /\ a <= list[j].addr
          BY <1>1, <1>4, <3>1, <3>5 DEF Ascending
        <5>2. \A q \in Blocks : q.addr \in Nat /\ q.size \in Nat
          BY DEF Blocks
        <5>3. list[i].addr \in Nat /\ list[i].size \in Nat /\ list[j].addr \in Nat /\ list[j].size \in Nat
          BY <5>1, <5>2
        <5>4. \A u, x, y, z \in Nat : u + x <= y => u + x \in Nat /\ y + z \in Nat /\ u + x <= y + z
          OBVIOUS
        <5>5. a \in Nat /\ c \in Nat /\ a <= c
          BY <5>1, <5>3, <5>4
        <5>6. QED
          BY <5>1, <5>3, <5>5
      <4>2. Ascending(h[i]) /\ Below(h[i], a)
        BY <3>1, <3>5
      <4>3. Ascending(pieces[j]) /\ Below(pieces[j], c) /\ pieces[j] \in Seq(Parts(list[j]))
        BY <1>4, <3>1
      <4> HIDE DEF a, c
      <4>4. \A m \in DOMAIN pieces[j] : pieces[j][m].addr >= a
        <5>1. \A q \in Parts(list[j]) : q.addr >= list[j].addr /\ q.addr \in Nat
          BY DEF Parts, Part, Blocks
        <5>2. \A m \in DOMAIN pieces[j] : pieces[j][m] \in Parts(list[j])
          BY <4>3
        <5>3. QED
          BY <4>1, <5>1, <5>2
      <4>5. Ascending(h[i] \o pieces[j]) /\ Below(h[i] \o pieces[j], c)
        BY <1>3, <3>3, <4>1, <4>2, <4>3, <4>4, ConcatAscends
      <4>6. QED
        BY <3>2, <4>5 DEF c
    <3>7. \A m \in 1 .. j : ToSet(pieces[m]) \subseteq ToSet(h[j])
      <4>1. ToSet(h[j]) = ToSet(h[i]) \cup ToSet(pieces[j])
        BY <3>2, <3>3, ConcatMembers
      <4>2. \A m \in 1 .. i : ToSet(pieces[m]) \subseteq ToSet(h[i])
        BY <3>1
      <4>3. \A m \in 1 .. j : m \in 1 .. i \/ m = j
        BY <1>1, <3>1
      <4> HIDE DEF S
      <4>4. QED
        BY <4>1, <4>2, <4>3
    <3>6. QED
      BY <3>4, <3>5, <3>7 DEF j
  <2>9. Nat \subseteq T
    <3> HIDE DEF T
    <3>1. QED BY <2>7, <2>8, NatInd
  <2>10. n - 1 \in T /\ (n - 1) + 1 = n
    <3> HIDE DEF T
    <3>1. QED BY <1>1, <1>6, <2>9
  <2>11. Ok(n)
    BY <1>1, <2>10
  <2>12. \A r \in ToSet(list) : CutInto(r, Split(list))
    <3> SUFFICES ASSUME NEW i \in 1 .. n PROVE CutInto(list[i], Split(list))
      BY <1>1 DEF ToSet
    <3>1. /\ pieces[i] \in Seq(Parts(list[i])) /\ Covered(pieces[i], list[i], list[i].addr + list[i].size)
          /\ ToSet(pieces[i]) \subseteq ToSet(Split(list))
      BY <1>2, <1>4, <2>1, <2>11
    <3>2. QED
      BY <3>1 DEF CutInto
  <2>13. QED
    BY <1>2, <2>1, <2>11, <2>12 DEF P
<1>7. QED
  BY <1>5, <1>6

-----------------------------------------------------------------------------
(* Growth of the page sizes                                                  *)

\* A larger page is some pages of any smaller size, four at least.
LEMMA SizesGrow ==
  ASSUME NEW i \in Levels, NEW j \in Levels, i < j
  PROVE  Sizes[j] >= 4 * Sizes[i] /\ \E m \in Nat : m >= 1 /\ Sizes[j] = m * Sizes[i]
<1> DEFINE P(d) == i + d \in Levels =>
                     /\ d >= 1 => Sizes[i + d] >= 4 * Sizes[i]
                     /\ \E m \in Nat : m >= 1 /\ Sizes[i + d] = m * Sizes[i]
           T == {d \in Nat : P(d)}
<1>1. i \in Nat /\ j \in Nat /\ Len(Sizes) \in Nat /\ \A k \in Levels : Sizes[k] \in Nat /\ Sizes[k] > 0
  BY SizesAre DEF Levels
<1>2. 0 \in T
  <2>1. i + 0 = i /\ Sizes[i] = 1 * Sizes[i] /\ 1 \in Nat /\ 1 >= 1
    BY <1>1
  <2>2. P(0)
    BY <2>1
  <2>3. QED
    BY <2>2
<1>3. ASSUME NEW d \in Nat, d \in T PROVE d + 1 \in T
  <2> SUFFICES ASSUME i + (d + 1) \in Levels PROVE P(d + 1)
    OBVIOUS
  <2>1. i + d \in Levels /\ i + (d + 1) \in 2 .. Len(Sizes) /\ (i + (d + 1)) - 1 = i + d
    BY <1>1 DEF Levels
  <2>2. Sizes[i + (d + 1)] = 4 * Sizes[i + d]
    BY <2>1, PageTablesAssumption
  <2>3. PICK m \in Nat : m >= 1 /\ Sizes[i + d] = m * Sizes[i]
    BY <1>3, <2>1
  <2>4. d = 0 \/ Sizes[i + d] >= 4 * Sizes[i]
    BY <1>3, <2>1
  <2>5. Sizes[i + (d + 1)] >= 4 * Sizes[i]
    <3>1. Sizes[i] \in Nat /\ Sizes[i + d] \in Nat
      BY <1>1, <2>1
    <3>2. d = 0 => Sizes[i + d] = Sizes[i]
      BY <1>1
    <3>3. QED
      BY <2>2, <2>4, <3>1, <3>2
  <2>6. Sizes[i + (d + 1)] = (4 * m) * Sizes[i] /\ 4 * m \in Nat /\ 4 * m >= 1
    <3>1. \A x, y \in Nat : 4 * (x * y) = (4 * x) * y
      OBVIOUS
    <3>2. QED
      BY <1>1, <2>2, <2>3, <3>1
  <2>7. QED
    BY <2>5, <2>6
<1>4. Nat \subseteq T
  <2> HIDE DEF T
  <2>1. QED BY <1>2, <1>3, NatInd
<1>5. j - i \in T /\ i + (j - i) = j /\ j - i >= 1
  <2> HIDE DEF T
  <2>1. j - i \in Nat /\ i + (j - i) = j /\ j - i >= 1
    BY <1>1
  <2>2. QED
    BY <1>4, <2>1
<1>6. P(j - i)
  BY <1>5
<1>7. QED
  BY <1>5, <1>6

\* The first size is the smallest one.
LEMMA SmallestIs ==
  /\ Smallest <= Base /\ 1 \in Levels /\ Sizes[1] = Smallest
  /\ \A i \in Levels : Sizes[i] >= Smallest
  /\ Len(Sizes) \in Levels /\ Sizes[Len(Sizes)] = Largest
<1>1. PICK b \in Levels : Sizes[b] = Base
  BY PageTablesAssumption DEF Levels
<1>2. 1 \in Levels /\ Len(Sizes) \in Levels /\ Levels \subseteq Nat /\ \A i \in Levels : i = 1 \/ 1 < i
  BY SizesAre DEF Levels
<1>3. ASSUME NEW i \in Levels PROVE Sizes[i] >= Sizes[1]
  <2>1. Sizes[i] \in Nat /\ Sizes[1] \in Nat
    BY <1>2, SizesAre
  <2>2. CASE i = 1
    BY <2>1, <2>2
  <2>3. CASE 1 < i
    <3>1. Sizes[i] >= 4 * Sizes[1]
      BY <1>2, <2>3, SizesGrow
    <3>2. QED
      BY <2>1, <3>1
  <2>4. QED
    BY <1>2, <2>2, <2>3
<1>4. Sizes[1] = Smallest /\ Sizes[Len(Sizes)] = Largest
  BY DEF Smallest, Largest
<1>5. Smallest <= Base
  BY <1>1, <1>3, <1>4, SizesAre
<1>6. QED
  BY <1>2, <1>3, <1>4, <1>5

\* A page is four of the next smaller size, or of the smallest.
LEMMA QuarterIs ==
  ASSUME NEW s \in ToSet(Sizes)
  PROVE  \/ s \div 4 \in ToSet(Sizes) /\ s = 4 * (s \div 4)
         \/ s = Smallest /\ s \div 4 < Smallest
<1>1. PICK i \in Levels : s = Sizes[i]
  BY SizesAre
<1>2. i = 1 \/ (i \in 2 .. Len(Sizes) /\ i - 1 \in Levels)
  BY SizesAre DEF Levels
<1>3. CASE i = 1
  <2>1. s = Smallest /\ s \in Nat /\ s > 0
    BY <1>1, <1>3, SizesAre DEF Smallest
  <2>2. s \div 4 < s
    BY <2>1
  <2>3. QED
    BY <2>1, <2>2
<1>4. CASE i \in 2 .. Len(Sizes) /\ i - 1 \in Levels
  <2>1. Sizes[i] = 4 * Sizes[i - 1]
    BY <1>4, PageTablesAssumption
  <2>2. Sizes[i - 1] \in Nat /\ Sizes[i - 1] \in ToSet(Sizes)
    BY <1>4, SizesAre
  <2>3. \A x \in Nat : (4 * x) \div 4 = x
    OBVIOUS
  <2>4. s \div 4 = Sizes[i - 1]
    BY <1>1, <2>1, <2>2, <2>3
  <2>5. QED
    BY <1>1, <2>1, <2>2, <2>4
<1>5. QED
  BY <1>2, <1>3, <1>4

-----------------------------------------------------------------------------
(* Entries of pages (join_pairs)                                             *)

Halves == [flags : SUBSET Flags, phys : Nat]

EntryRecords ==
  [addr : Nat, size : Nat, lo : Halves \cup {None}, hi : Halves \cup {None},
   emu : Devices \cup {None}, bm : Masks \cup {None}]

\* A half of z words at address a that the hardware may map is part of a block.
HalfIsPart(h, a, z, list) ==
  h # None /\ "e" \notin h.flags =>
    \E r \in ToSet(list) :
      /\ h.flags = r.flags
      /\ a >= r.addr /\ a + z <= r.addr + r.size /\ h.phys - a = r.phys - r.addr

Emulated(h) == h # None => "e" \in h.flags

\* The pages of an entry have one of the sizes, or are parts of smallest pages.
EntryOf(e, z, list) ==
  /\ e.size = 2 * z
  /\ HalfIsPart(e.lo, e.addr, z, list) /\ HalfIsPart(e.hi, e.addr + z, z, list)
  /\ \/ z \in ToSet(Sizes) /\ e.addr % (2 * z) = 0
     \/ z < Smallest /\ Emulated(e.lo) /\ Emulated(e.hi)

EntriesOf(list) == {e \in EntryRecords : \E z \in Nat : EntryOf(e, z, list)}

\* The fields of a page.
LEMMA PageIs ==
  ASSUME NEW list \in Seq(Blocks), NEW p \in PagesOf(list)
  PROVE  /\ p \in Blocks /\ p.size \in ToSet(Sizes) /\ p.addr % p.size = 0
         /\ p.addr \in Nat /\ p.size \in Nat /\ p.size > 0 /\ p.phys \in Nat
         /\ p.flags \in SUBSET Flags /\ p.emu \in Devices \cup {None} /\ p.bm \in Masks \cup {None}
BY SizesAre DEF PagesOf, Page, Blocks

\* Halves of z words, d words behind the start of a page, lie in its block.
LEMMA HalfOfPage ==
  ASSUME NEW list \in Seq(Blocks), NEW p \in PagesOf(list), NEW z \in Nat, NEW d \in Nat,
         d + z <= p.size, NEW h \in Halves, h.phys = p.phys + d,
         h.flags = p.flags \/ "e" \in h.flags
  PROVE  HalfIsPart(h, p.addr + d, z, list)
<1>1. PICK r \in ToSet(list) : Part(p, r)
  BY DEF PagesOf
<1>2. r.addr \in Nat /\ r.size \in Nat /\ r.phys \in Nat
  <2>1. r \in Blocks
    BY DEF ToSet
  <2>2. QED
    BY <2>1 DEF Blocks
<1>3. p.addr \in Nat /\ p.size \in Nat /\ p.phys \in Nat
  BY PageIs
<1>4. p.flags = r.flags /\ p.addr >= r.addr /\ p.addr + p.size <= r.addr + r.size
      /\ p.phys - p.addr = r.phys - r.addr
  BY <1>1 DEF Part
<1> DEFINE a == p.addr
           n == p.size
           f == p.phys
           b == r.addr
           m == r.size
           g == r.phys
           k == h.phys
<1>5. /\ a \in Nat /\ n \in Nat /\ f \in Nat /\ b \in Nat /\ m \in Nat /\ g \in Nat
      /\ a >= b /\ a + n <= b + m /\ f - a = g - b /\ k = f + d /\ d + z <= n
  BY <1>2, <1>3, <1>4
<1>6. a + d >= b /\ (a + d) + z <= b + m /\ k - (a + d) = g - b
  <2> HIDE DEF a, n, f, b, m, g, k
  <2>1. QED BY <1>5
<1>7. QED
  BY <1>4, <1>6 DEF HalfIsPart

\* join_bitmask makes a bitmask or none.
LEMMA JoinBitmaskType ==
  ASSUME NEW b \in Masks \cup {None}, NEW c \in Masks \cup {None}, NEW n \in Nat, NEW m
  PROVE  JoinBitmask(b, n, c, m) \in Masks \cup {None}
<1> DEFINE lo == IF b = None THEN {} ELSE b.bits
           hi == IF c = None THEN {} ELSE c.bits
           all == (lo \cap 0 .. n - 1) \cup {n + i : i \in hi \cap 0 .. n - 1}
<1>1. JoinBitmask(b, n, c, m) = IF b = None /\ c = None THEN None ELSE Bitmask(2 * n, all)
  BY DEF JoinBitmask
<1>2. all \in SUBSET Nat
  OBVIOUS
<1> HIDE DEF all
<1>3. Bitmask(2 * n, all) \in Masks
  BY <1>2 DEF Bitmask, Masks
<1>4. QED
  BY <1>1, <1>3

\* The pairs of a number: its multiples are even or odd ones.
LEMMA EvenOdd ==
  ASSUME NEW a \in Nat, NEW z \in Nat, z > 0, a % z = 0, a % (2 * z) # 0
  PROVE  a >= z /\ (a - z) % (2 * z) = 0
<1> DEFINE k == a \div z
           m == k \div 2
<1>1. k \in Nat /\ a = z * k
  <2>1. a = z * k + (a % z) /\ k \in Nat
    OBVIOUS
  <2>2. QED
    BY <2>1
<1> HIDE DEF k
<1>2. m \in Nat /\ (k = 2 * m \/ k = 2 * m + 1)
  BY <1>1
<1> HIDE DEF m
<1>3. \A x \in Nat : ((2 * z) * x) % (2 * z) = 0
  <2> DEFINE y == 2 * z
  <2>1. y \in Nat /\ y > 0
    OBVIOUS
  <2> HIDE DEF y
  <2>2. \A x \in Nat : (y * x) % y = 0
    BY <2>1
  <2>3. QED
    BY <2>2 DEF y
<1>4. k # 2 * m
  <2>1. z * (2 * m) = (2 * z) * m
    BY <1>2
  <2>2. QED
    BY <1>1, <1>2, <1>3, <2>1
<1>5. a = (2 * z) * m + z
  <2>1. z * (2 * m + 1) = (2 * z) * m + z
    BY <1>2
  <2>2. QED
    BY <1>1, <1>2, <1>4, <2>1
<1>6. (2 * z) * m \in Nat
  BY <1>2
<1>7. a >= z /\ a - z = (2 * z) * m
  BY <1>5, <1>6
<1>8. QED
  BY <1>2, <1>3, <1>7

\* The half of an entry that a page makes.
LEMMA HalfOfIs ==
  ASSUME NEW list \in Seq(Blocks), NEW p \in PagesOf(list)
  PROVE  HalfOf(p) \in Halves /\ HalfOf(p).flags = p.flags /\ HalfOf(p).phys = p.phys
BY PageIs DEF HalfOf, Halves

\* It is all of that page.
LEMMA WholeHalf ==
  ASSUME NEW list \in Seq(Blocks), NEW p \in PagesOf(list)
  PROVE  HalfIsPart(HalfOf(p), p.addr, p.size, list)
<1> DEFINE d == 0
           h == HalfOf(p)
<1>1. p.size \in Nat /\ p.addr \in Nat /\ p.phys \in Nat
  BY PageIs
<1>2. h \in Halves /\ h.flags = p.flags /\ h.phys = p.phys
  BY HalfOfIs
<1>3. d \in Nat /\ h.phys = p.phys + d /\ d + p.size <= p.size /\ p.addr + d = p.addr
  BY <1>1, <1>2
<1> HIDE DEF d, h
<1>4. HalfIsPart(h, p.addr + d, p.size, list)
  BY <1>1, <1>2, <1>3, HalfOfPage
<1>5. QED
  BY <1>3, <1>4 DEF h

\* From a up to c: entries in order.
Spans(l, a, c) ==
  Ascending(l) /\ (\A i \in DOMAIN l : l[i].addr >= a) /\ Below(l, c)

\* A list of one entry.
LEMMA OneEntry ==
  ASSUME NEW list \in Seq(Blocks), NEW e \in EntryRecords, NEW z \in Nat, EntryOf(e, z, list),
         NEW a \in Nat, NEW c \in Nat, e.addr = a, a + 2 * z <= c
  PROVE  <<e>> \in Seq(EntriesOf(list)) /\ Spans(<<e>>, a, c)
<1>1. e \in EntriesOf(list)
  BY DEF EntriesOf
<1>2. e.addr + e.size <= c
  BY DEF EntryOf
<1>3. DOMAIN <<e>> = {1} /\ <<e>>[1] = e
  OBVIOUS
<1>4. QED
  BY <1>1, <1>2, <1>3 DEF Spans, Ascending, Below

\* An entry of a page and no second one.
LEMMA FirstOnlyIs ==
  ASSUME NEW list \in Seq(Blocks), NEW p \in PagesOf(list), IsFirst(p)
  PROVE  /\ <<FirstOnly(p)>> \in Seq(EntriesOf(list))
         /\ Spans(<<FirstOnly(p)>>, p.addr, p.addr + 2 * p.size)
<1> DEFINE e == FirstOnly(p)
           m == JoinBitmask(p.bm, p.size, None, 0)
<1>1. /\ p.size \in ToSet(Sizes) /\ p.addr \in Nat /\ p.size \in Nat
      /\ p.emu \in Devices \cup {None} /\ p.bm \in Masks \cup {None}
  BY PageIs
<1>2. m \in Masks \cup {None}
  <2>1. None \in Masks \cup {None} /\ 0 \in Nat
    OBVIOUS
  <2>2. QED
    BY <1>1, <2>1, JoinBitmaskType
<1> HIDE DEF m
<1>3. HalfOf(p) \in Halves /\ HalfOf(p).flags = p.flags /\ HalfOf(p).phys = p.phys
  BY HalfOfIs
<1>4. e = [addr |-> p.addr, size |-> 2 * p.size, lo |-> HalfOf(p), hi |-> None, emu |-> p.emu, bm |-> m]
  BY DEF FirstOnly, Entry, m
<1> HIDE DEF e
<1>5. e \in EntryRecords
  BY <1>1, <1>2, <1>3, <1>4 DEF EntryRecords
<1>6. HalfIsPart(e.lo, e.addr, p.size, list)
  <2>1. HalfIsPart(HalfOf(p), p.addr, p.size, list)
    BY WholeHalf
  <2>2. QED
    BY <1>1, <1>4, <2>1
<1>7. HalfIsPart(e.hi, e.addr + p.size, p.size, list)
  BY <1>4 DEF HalfIsPart
<1>8. e.addr % (2 * p.size) = 0 /\ e.size = 2 * p.size /\ e.addr = p.addr
  BY <1>4 DEF IsFirst
<1>9. EntryOf(e, p.size, list)
  BY <1>1, <1>6, <1>7, <1>8 DEF EntryOf
<1>10. p.addr + 2 * p.size \in Nat /\ p.addr + 2 * p.size <= p.addr + 2 * p.size
  BY <1>1
<1>11. <<e>> \in Seq(EntriesOf(list)) /\ Spans(<<e>>, p.addr, p.addr + 2 * p.size)
  BY <1>1, <1>5, <1>8, <1>9, <1>10, OneEntry
<1>12. QED
  BY <1>11 DEF e

\* An entry of a page and no first one.
LEMMA SecondOnlyIs ==
  ASSUME NEW list \in Seq(Blocks), NEW p \in PagesOf(list), ~IsFirst(p)
  PROVE  /\ <<SecondOnly(p)>> \in Seq(EntriesOf(list)) /\ p.addr - p.size \in Nat
         /\ Spans(<<SecondOnly(p)>>, p.addr - p.size, p.addr + p.size)
<1> DEFINE e == SecondOnly(p)
           m == JoinBitmask(None, 0, p.bm, p.size)
           a == p.addr - p.size
<1>1. /\ p.size \in ToSet(Sizes) /\ p.addr \in Nat /\ p.size \in Nat /\ p.size > 0
      /\ p.emu \in Devices \cup {None} /\ p.bm \in Masks \cup {None} /\ p.addr % p.size = 0
  BY PageIs
<1>2. m \in Masks \cup {None}
  <2>1. None \in Masks \cup {None} /\ 0 \in Nat
    OBVIOUS
  <2>2. QED
    BY <1>1, <2>1, JoinBitmaskType
<1> HIDE DEF m
<1>3. HalfOf(p) \in Halves /\ HalfOf(p).flags = p.flags /\ HalfOf(p).phys = p.phys
  BY HalfOfIs
<1>4. e = [addr |-> a, size |-> 2 * p.size, lo |-> None, hi |-> HalfOf(p), emu |-> p.emu, bm |-> m]
  BY DEF SecondOnly, Entry, m
<1>5. p.addr >= p.size /\ a % (2 * p.size) = 0
  BY <1>1, EvenOdd DEF IsFirst
<1>6. a \in Nat /\ a + p.size = p.addr /\ a + 2 * p.size = p.addr + p.size
  BY <1>1, <1>5
<1> HIDE DEF e, a
<1>7. e \in EntryRecords
  BY <1>1, <1>2, <1>3, <1>4, <1>6 DEF EntryRecords
<1>8. HalfIsPart(e.hi, e.addr + p.size, p.size, list)
  <2>1. HalfIsPart(HalfOf(p), p.addr, p.size, list)
    BY WholeHalf
  <2>2. p.addr = e.addr + p.size /\ e.hi = HalfOf(p)
    BY <1>1, <1>4, <1>6
  <2>3. QED
    BY <2>1, <2>2
<1>9. HalfIsPart(e.lo, e.addr, p.size, list)
  BY <1>4 DEF HalfIsPart
<1>10. e.addr % (2 * p.size) = 0 /\ e.size = 2 * p.size /\ e.addr = a
  BY <1>4, <1>5
<1>11. EntryOf(e, p.size, list)
  BY <1>1, <1>8, <1>9, <1>10 DEF EntryOf
<1>12. p.addr + p.size \in Nat /\ a + 2 * p.size <= p.addr + p.size
  BY <1>1, <1>6
<1>13. <<e>> \in Seq(EntriesOf(list)) /\ Spans(<<e>>, a, p.addr + p.size)
  BY <1>1, <1>6, <1>7, <1>10, <1>11, <1>12, OneEntry
<1>14. QED
  BY <1>6, <1>13 DEF e, a

\* An entry of two pages that match.
LEMMA BothIs ==
  ASSUME NEW list \in Seq(Blocks), NEW q \in PagesOf(list), NEW p \in PagesOf(list),
         IsFirst(q), Matches(q, p)
  PROVE  /\ <<Both(q, p)>> \in Seq(EntriesOf(list))
         /\ Spans(<<Both(q, p)>>, q.addr, p.addr + p.size)
<1> DEFINE e == Both(q, p)
           z == p.size
           m == JoinBitmask(q.bm, q.size, p.bm, p.size)
<1>1. /\ z \in ToSet(Sizes) /\ p.addr \in Nat /\ z \in Nat /\ q.addr \in Nat
      /\ p.emu \in Devices \cup {None} /\ p.bm \in Masks \cup {None} /\ q.bm \in Masks \cup {None}
  BY PageIs
<1>2. q.size = z /\ q.addr + z = p.addr
  BY DEF Matches
<1>3. m \in Masks \cup {None}
  BY <1>1, <1>2, JoinBitmaskType
<1> HIDE DEF m
<1>4. /\ HalfOf(p) \in Halves /\ HalfOf(p).flags = p.flags /\ HalfOf(p).phys = p.phys
      /\ HalfOf(q) \in Halves /\ HalfOf(q).flags = q.flags /\ HalfOf(q).phys = q.phys
  BY HalfOfIs
<1>5. e = [addr |-> q.addr, size |-> 2 * z, lo |-> HalfOf(q), hi |-> HalfOf(p), emu |-> p.emu, bm |-> m]
  BY DEF Both, Entry, m
<1> HIDE DEF e
<1>6. e \in EntryRecords
  BY <1>1, <1>2, <1>3, <1>4, <1>5 DEF EntryRecords
<1>7. HalfIsPart(e.hi, e.addr + z, z, list)
  <2>1. HalfIsPart(HalfOf(p), p.addr, p.size, list)
    BY WholeHalf
  <2>2. p.addr = e.addr + z /\ e.hi = HalfOf(p)
    BY <1>1, <1>2, <1>5
  <2>3. QED
    BY <2>1, <2>2
<1>8. HalfIsPart(e.lo, e.addr, z, list)
  <2>1. HalfIsPart(HalfOf(q), q.addr, q.size, list)
    BY WholeHalf
  <2>2. q.addr = e.addr /\ e.lo = HalfOf(q) /\ q.size = z
    BY <1>1, <1>2, <1>5
  <2>3. QED
    BY <2>1, <2>2
<1>9. e.addr % (2 * z) = 0 /\ e.size = 2 * z /\ e.addr = q.addr
  BY <1>2, <1>5 DEF IsFirst
<1>10. EntryOf(e, z, list)
  <2> HIDE DEF z
  <2>1. QED BY <1>1, <1>7, <1>8, <1>9 DEF EntryOf
<1>11. p.addr + p.size \in Nat /\ q.addr + 2 * z <= p.addr + p.size
  BY <1>1, <1>2
<1>12. QED
  BY <1>1, <1>6, <1>9, <1>10, <1>11, OneEntry DEF e

\* Entries behind entries.
LEMMA JoinedSpans ==
  ASSUME NEW list \in Seq(Blocks), NEW l \in Seq(EntriesOf(list)), NEW m \in Seq(EntriesOf(list)),
         NEW a \in Nat, NEW b \in Nat, NEW d \in Nat, NEW c \in Nat,
         Spans(l, a, b), Spans(m, d, c), a <= b, b <= d, d <= c
  PROVE  l \o m \in Seq(EntriesOf(list)) /\ Spans(l \o m, a, c)
<1> DEFINE E == EntriesOf(list)
           w == l \o m
<1>1. \A q \in E : q.addr \in Nat /\ q.size \in Nat
  BY DEF EntriesOf, EntryRecords
<1> HIDE DEF E
<1>2. l \in Seq(E) /\ m \in Seq(E)
  BY DEF E
<1>3. /\ Ascending(l) /\ Below(l, b) /\ Ascending(m) /\ Below(m, c)
      /\ \A i \in DOMAIN l : l[i].addr >= a
      /\ \A i \in DOMAIN m : m[i].addr >= d
  BY DEF Spans
<1>4. \A i \in DOMAIN m : m[i].addr >= b /\ m[i].addr >= a
  <2>1. \A i \in DOMAIN m : m[i].addr \in Nat
    BY <1>1, <1>2
  <2>2. QED
    BY <1>3, <2>1
<1>5. w \in Seq(E) /\ Ascending(w) /\ Below(w, c)
  <2>1. b <= c
    OBVIOUS
  <2>2. QED
    BY <1>1, <1>2, <1>3, <1>4, <2>1, ConcatAscends
<1>6. \A i \in DOMAIN w : w[i].addr >= a
  <2>1. \A i \in DOMAIN w : (i \in DOMAIN l /\ w[i] = l[i]) \/ (i - Len(l) \in DOMAIN m /\ w[i] = m[i - Len(l)])
    BY <1>2
  <2>2. QED
    <3> HIDE DEF w
    <3>1. QED BY <1>3, <1>4, <2>1
<1>7. QED
  <2> HIDE DEF w
  <2>1. QED BY <1>5, <1>6 DEF Spans, E, w

\* split_page: the quarters of a page, two to an entry.
LEMMA QuartersIs ==
  ASSUME NEW list \in Seq(Blocks), NEW p \in PagesOf(list)
  PROVE  Quarters(p) \in Seq(EntriesOf(list))
<1> DEFINE z == p.size \div 4
           half(k) == [flags |-> IF z < Base THEN p.flags \cup {"e"} ELSE p.flags,
                       phys  |-> p.phys + k * z]
           pair(k) == Entry(p.addr + k * z, z, half(k), half(k + 1), p.emu, p.bm)
<1>1. /\ p.size \in ToSet(Sizes) /\ p.addr \in Nat /\ p.size \in Nat /\ p.size > 0 /\ p.phys \in Nat
      /\ p.flags \in SUBSET Flags /\ p.addr % p.size = 0
      /\ p.emu \in Devices \cup {None} /\ p.bm \in Masks \cup {None}
  BY PageIs
<1>2. z \in Nat /\ 4 * z <= p.size
  <2>1. \A n \in Nat : n \div 4 \in Nat /\ 4 * (n \div 4) <= n
    OBVIOUS
  <2>2. QED
    BY <1>1, <2>1
<1>3. \/ z \in ToSet(Sizes) /\ p.size = 4 * z
      \/ z < Smallest
  BY <1>1, QuarterIs
<1>4. z < Smallest => z < Base
  BY <1>2, SizesAre, SmallestIs
<1>5. Quarters(p) = <<pair(0), pair(2)>>
  BY DEF Quarters
<1> HIDE DEF z
<1>6. ASSUME NEW k \in 0 .. 3
      PROVE  /\ half(k) \in Halves /\ k * z \in Nat /\ k * z + z <= p.size
             /\ HalfIsPart(half(k), p.addr + k * z, z, list)
             /\ z < Base => Emulated(half(k))
  <2> DEFINE d == k * z
             f == IF z < Base THEN p.flags \cup {"e"} ELSE p.flags
             h == half(k)
  <2>1. d \in Nat /\ d + z <= p.size
    <3>1. k = 0 \/ k = 1 \/ k = 2 \/ k = 3
      OBVIOUS
    <3>2. QED
      BY <1>1, <1>2, <3>1
  <2>2. f \in SUBSET Flags /\ (f = p.flags \/ "e" \in f)
    BY <1>1 DEF Flags
  <2>3. z < Base => "e" \in f
    OBVIOUS
  <2>4. h = [flags |-> f, phys |-> p.phys + d]
    OBVIOUS
  <2> HIDE DEF f, d, h
  <2>5. h \in Halves /\ h.flags = f /\ h.phys = p.phys + d
    BY <1>1, <2>1, <2>2, <2>4 DEF Halves
  <2>6. HalfIsPart(h, p.addr + d, z, list)
    BY <1>2, <2>1, <2>2, <2>5, HalfOfPage
  <2>7. z < Base => Emulated(h)
    BY <2>3, <2>5 DEF Emulated
  <2>8. QED
    BY <2>1, <2>5, <2>6, <2>7 DEF d, h
<1>7. ASSUME NEW k \in {0, 2} PROVE pair(k) \in EntriesOf(list)
  <2> DEFINE a == p.addr + k * z
             e == pair(k)
             l == half(k)
             h == half(k + 1)
  <2>1. k \in 0 .. 3 /\ k + 1 \in 0 .. 3
    OBVIOUS
  <2>2. k * z \in Nat /\ (k + 1) * z = k * z + z
    BY <1>2
  <2>3. a \in Nat /\ p.addr + (k + 1) * z = a + z
    <3> DEFINE c == p.addr
               d == k * z
               x == (k + 1) * z
    <3>1. d \in Nat /\ x = d + z /\ c \in Nat
      BY <1>1, <2>2
    <3>2. a = c + d
      OBVIOUS
    <3> HIDE DEF a, c, d, x
    <3>3. a \in Nat /\ c + x = a + z
      BY <1>2, <3>1, <3>2
    <3>4. QED
      BY <3>3 DEF c, x
  <2>4. /\ l \in Halves /\ HalfIsPart(l, a, z, list) /\ (z < Base => Emulated(l))
        /\ h \in Halves /\ HalfIsPart(h, p.addr + (k + 1) * z, z, list) /\ (z < Base => Emulated(h))
    <3> HIDE DEF half, pair
    <3>1. QED
      BY <1>6, <2>1
  <2>5. e = [addr |-> a, size |-> 2 * z, lo |-> l, hi |-> h, emu |-> p.emu, bm |-> p.bm]
    BY DEF Entry
  <2>6. z \in ToSet(Sizes) /\ p.size = 4 * z => a % (2 * z) = 0
    <3>1. SUFFICES ASSUME z \in ToSet(Sizes), p.size = 4 * z PROVE a % (2 * z) = 0
      OBVIOUS
    <3> DEFINE m == p.addr \div p.size
               y == 2 * z
    <3>2. z > 0 /\ y \in Nat /\ y > 0 /\ p.size = 2 * y
      BY <1>1, <1>2, <3>1
    <3>3. p.addr = p.size * m /\ m \in Nat
      <4> DEFINE u == p.addr
                 w == p.size
      <4>1. u \in Nat /\ w \in Nat /\ w > 0 /\ u % w = 0
        BY <1>1
      <4> HIDE DEF u, w
      <4>2. u = w * (u \div w) + (u % w) /\ u \div w \in Nat
        BY <4>1
      <4>3. u = w * (u \div w) /\ u \div w \in Nat
        BY <4>1, <4>2
      <4>4. QED
        BY <4>3 DEF u, w
    <3> DEFINE x == IF k = 0 THEN 2 * m ELSE 2 * m + 1
    <3>4. x \in Nat /\ a = y * x
      <4>1. \A u, w \in Nat : (2 * u) * w = u * (2 * w) /\ u * (2 * w + 1) = (2 * u) * w + u
        OBVIOUS
      <4>2. p.addr = y * (2 * m) /\ y * (2 * m + 1) = p.addr + y
        BY <3>2, <3>3, <4>1
      <4>3. k * z = IF k = 0 THEN 0 ELSE y
        BY <1>2
      <4>4. x \in Nat
        BY <3>3
      <4> HIDE DEF y, m
      <4>5. CASE k = 0
        <5>1. a = p.addr /\ x = 2 * m
          BY <1>1, <4>3, <4>5
        <5>2. QED
          BY <4>2, <4>4, <5>1
      <4>6. CASE k = 2
        <5>1. a = p.addr + y /\ x = 2 * m + 1
          BY <1>1, <4>3, <4>6
        <5>2. QED
          BY <4>2, <4>4, <5>1
      <4>7. QED
        BY <4>5, <4>6
    <3> HIDE DEF x, y, m, a
    <3>5. \A u \in Nat : (y * u) % y = 0
      BY <3>2
    <3>6. QED
      BY <3>4, <3>5 DEF y
  <2> HIDE DEF a, e, l, h
  <2>7. e \in EntryRecords
    BY <1>1, <1>2, <2>3, <2>4, <2>5 DEF EntryRecords
  <2>8. EntryOf(e, z, list)
    <3>1. e.size = 2 * z /\ e.lo = l /\ e.hi = h /\ e.addr = a
      BY <2>5
    <3>2. HalfIsPart(e.lo, e.addr, z, list) /\ HalfIsPart(e.hi, e.addr + z, z, list)
      BY <2>3, <2>4, <3>1
    <3>3. \/ z \in ToSet(Sizes) /\ e.addr % (2 * z) = 0
          \/ z < Smallest /\ Emulated(e.lo) /\ Emulated(e.hi)
      BY <1>3, <1>4, <2>4, <2>6, <3>1
    <3>4. QED
      BY <3>1, <3>2, <3>3 DEF EntryOf
  <2>9. QED
    BY <1>2, <2>7, <2>8 DEF EntriesOf, e
<1> HIDE DEF pair
<1>8. QED
  BY <1>5, <1>7

\* The state of the loop in join_pairs.
JoinStates(list) ==
  {s \in [saved : PagesOf(list) \cup {None}, last : Nat, out : Seq(EntriesOf(list))] :
     s.saved # None => IsFirst(s.saved)}

\* join_pairs: what each page adds is made of pages of the blocks.
LEMMA JoinPageKeeps ==
  ASSUME NEW list \in Seq(Blocks), NEW s \in JoinStates(list), NEW p \in PagesOf(list)
  PROVE  JoinPage(s, p) \in JoinStates(list)
<1> DEFINE E == EntriesOf(list)
           q == s.saved
           o == s.out
           done(es, e) == [saved |-> None, last |-> e, out |-> s.out \o es]
           keep(es, e) == [saved |-> p, last |-> e, out |-> s.out \o es]
           S == JoinStates(list)
<1>1. s \in [saved : PagesOf(list) \cup {None}, last : Nat, out : Seq(E)]
      /\ (q # None => IsFirst(q))
  BY DEF JoinStates
<1>2. o \in Seq(E) /\ q \in PagesOf(list) \cup {None}
  BY <1>1
<1>3. ASSUME NEW l \in Seq(E), NEW a \in Nat PROVE done(l, a) \in S
  <2>1. o \o l \in Seq(E)
    <3> HIDE DEF E, o
    <3>1. QED BY <1>2
  <2>2. QED
    BY <2>1 DEF JoinStates
<1>4. ASSUME NEW l \in Seq(E), NEW a \in Nat, IsFirst(p) PROVE keep(l, a) \in S
  <2>1. o \o l \in Seq(E)
    <3> HIDE DEF E, o
    <3>1. QED BY <1>2
  <2>2. QED
    BY <1>4, <2>1 DEF JoinStates
<1>5. End(p) \in Nat /\ Quarters(p) \in Seq(E) /\ (~IsFirst(p) => <<SecondOnly(p)>> \in Seq(E))
  <2> HIDE DEF E
  <2>1. End(p) \in Nat
    BY PageIs DEF End
  <2>2. Quarters(p) \in Seq(E) /\ (~IsFirst(p) => <<SecondOnly(p)>> \in Seq(E))
    BY QuartersIs, SecondOnlyIs DEF E
  <2>3. QED
    BY <2>1, <2>2
<1>6. q # None =>
        /\ End(q) \in Nat /\ Quarters(q) \in Seq(E) /\ <<FirstOnly(q)>> \in Seq(E)
        /\ Matches(q, p) => <<Both(q, p)>> \in Seq(E)
  <2> HIDE DEF E
  <2> SUFFICES ASSUME q # None
               PROVE  /\ End(q) \in Nat /\ Quarters(q) \in Seq(E) /\ <<FirstOnly(q)>> \in Seq(E)
                      /\ Matches(q, p) => <<Both(q, p)>> \in Seq(E)
    OBVIOUS
  <2>1. q \in PagesOf(list) /\ IsFirst(q)
    BY <1>1, <1>2
  <2> HIDE DEF q
  <2>2. End(q) \in Nat
    BY <2>1, PageIs DEF End
  <2>3. Quarters(q) \in Seq(E)
    BY <2>1, QuartersIs DEF E
  <2>4. <<FirstOnly(q)>> \in Seq(E)
    BY <2>1, FirstOnlyIs DEF E
  <2>5. Matches(q, p) => <<Both(q, p)>> \in Seq(E)
    BY <2>1, BothIs DEF E
  <2>6. QED
    BY <2>2, <2>3, <2>4, <2>5
<1>7. <<>> \in Seq(E)
  OBVIOUS
<1>8. \A l, m \in Seq(E) : l \o m \in Seq(E)
  <2> HIDE DEF E
  <2>1. QED OBVIOUS
<1>9. CASE q = None
  <2>1. JoinPage(s, p) =
          CASE IsFirst(p)                                -> keep(<<>>, End(p))
            [] ~IsFirst(p) /\ s.last + p.size <= p.addr  -> done(<<SecondOnly(p)>>, End(p))
            [] OTHER                                     -> done(Quarters(p), End(p))
    BY <1>9 DEF JoinPage
  <2> HIDE DEF E, keep, done, S
  <2>2. QED
    BY <1>3, <1>4, <1>5, <1>7, <2>1 DEF S
<1>10. CASE q # None
  <2> DEFINE beyond == q.addr + 2 * q.size
  <2>1. JoinPage(s, p) =
          IF Matches(q, p) THEN
            done(<<Both(q, p)>>, End(p))
          ELSE IF beyond <= p.addr /\ (IsFirst(p) \/ beyond <= p.addr - p.size) THEN
            IF IsFirst(p) THEN keep(<<FirstOnly(q)>>, End(q))
            ELSE done(<<FirstOnly(q), SecondOnly(p)>>, End(p))
          ELSE IF beyond <= p.addr THEN
            done(<<FirstOnly(q)>> \o Quarters(p), End(p))
          ELSE IF IsFirst(p) THEN keep(Quarters(q), End(q))
          ELSE done(Quarters(q) \o Quarters(p), End(p))
    BY <1>10 DEF JoinPage
  <2>2. ~IsFirst(p) => <<FirstOnly(q), SecondOnly(p)>> \in Seq(E)
    <3>1. ~IsFirst(p) => FirstOnly(q) \in E /\ SecondOnly(p) \in E
      <4> HIDE DEF E
      <4>1. \A e : <<e>> \in Seq(E) => e \in E
        <5>1. ASSUME NEW e, <<e>> \in Seq(E) PROVE e \in E
          <6>1. <<e>>[1] \in E
            BY <5>1
          <6>2. QED
            BY <6>1
        <5>2. QED
          BY <5>1
      <4>2. QED
        BY <1>5, <1>6, <1>10, <4>1
    <3>2. QED
      BY <3>1
  <2>3. <<FirstOnly(q)>> \o Quarters(p) \in Seq(E) /\ Quarters(q) \o Quarters(p) \in Seq(E)
    BY <1>5, <1>6, <1>8, <1>10
  <2> HIDE DEF E, keep, done, S, beyond
  <2>4. QED
    BY <1>3, <1>4, <1>5, <1>6, <1>10, <2>1, <2>2, <2>3 DEF S
<1>11. QED
  BY <1>9, <1>10

\* join_pairs: its entries are made of pages of the blocks.
LEMMA JoinType ==
  ASSUME NEW list \in Seq(Blocks), NEW ps \in Seq(PagesOf(list))
  PROVE  Join(ps) \in Seq(EntriesOf(list))
<1> DEFINE n == Len(ps)
           b == [saved |-> None, last |-> 0, out |-> <<>>]
           Is(f) == f = [i \in 0 .. n |-> IF i = 0 THEN b ELSE JoinPage(f[i - 1], ps[i])]
           h == CHOOSE f : Is(f)
           S == JoinStates(list)
           g == [x \in (1 .. n) \X S |-> JoinPage(x[2], ps[x[1]])]
           E == EntriesOf(list)
<1>1. n \in Nat /\ \A i \in 1 .. n : ps[i] \in PagesOf(list)
  OBVIOUS
<1>2. Join(ps) = IF h[n].saved = None THEN h[n].out ELSE Append(h[n].out, FirstOnly(h[n].saved))
  BY DEF Join
<1>3. b \in S
  BY DEF JoinStates
<1>4. \A i \in 1 .. n : \A s \in S : JoinPage(s, ps[i]) \in S
  BY <1>1, JoinPageKeeps
<1>5. \A i \in 1 .. n : \A s \in S : g[<<i, s>>] = JoinPage(s, ps[i])
  OBVIOUS
<1> HIDE DEF n, b, S, g
<1>6. PICK f \in [0 .. n -> S] : IsFold(f, n, b, g)
  <2>1. \A i \in 1 .. n : \A s \in S : g[<<i, s>>] \in S
    BY <1>4, <1>5
  <2>2. n \in Nat
    BY <1>1
  <2>3. QED
    BY <1>3, <2>1, <2>2, FoldExists
<1>7. Is(f)
  <2>1. \A i \in 0 .. n : i # 0 => g[<<i, f[i - 1]>>] = JoinPage(f[i - 1], ps[i])
    BY <1>1, <1>5
  <2>2. QED
    BY <1>6, <2>1 DEF IsFold
<1>8. Is(h)
  BY <1>7
<1> HIDE DEF h
<1>9. h[n] \in S
  <2>1. h[0] \in S
    BY <1>1, <1>3, <1>8
  <2>2. \A i \in 1 .. n : h[i] = JoinPage(h[i - 1], ps[i])
    BY <1>1, <1>8
  <2>3. \A i \in 1 .. n : h[i - 1] \in S => h[i] \in S
    BY <1>4, <2>2
  <2>4. QED
    BY <1>1, <2>1, <2>3, FoldType
<1> DEFINE s == h[n]
<1>10. s.out \in Seq(E) /\ s.saved \in PagesOf(list) \cup {None} /\ (s.saved # None => IsFirst(s.saved))
  <2> HIDE DEF s
  <2>1. s \in S
    BY <1>9 DEF s
  <2>2. QED
    BY <2>1 DEF S, JoinStates
<1> HIDE DEF s
<1>11. s.saved # None => FirstOnly(s.saved) \in E
  <2>1. s.saved # None => <<FirstOnly(s.saved)>> \in Seq(E)
    BY <1>10, FirstOnlyIs
  <2> HIDE DEF E
  <2>2. ASSUME s.saved # None PROVE FirstOnly(s.saved) \in E
    <3>1. <<FirstOnly(s.saved)>>[1] \in E
      BY <2>1, <2>2
    <3>2. QED
      BY <3>1
  <2>3. QED
    BY <2>2
<1>12. QED
  <2> HIDE DEF E
  <2>1. QED BY <1>2, <1>10, <1>11 DEF s, E

-----------------------------------------------------------------------------
(* The tree (create_pte_tree)                                                *)

\* Pairs of pages below the smallest size, which only emulation may use.
Tiny(e) == e.size < 2 * Smallest /\ Emulated(e.lo) /\ Emulated(e.hi)

\* What may stand in a slot of level i: an entry of its size, or smaller tables.
KidAt(n, i) ==
  IF IsNode(n) THEN \E j \in Levels : j < i /\ n.slot = 2 * Sizes[j]
  ELSE n.size = 2 * Sizes[i] \/ Tiny(n)

\* A node is some slots wide, unless it stands for a single tiny entry.
SizeAt(n, E) ==
  \/ \E m \in Nat : m >= 1 /\ n.size = m * n.slot
  \/ \E e \in E : e.size < 2 * Smallest

NodeAt(n, i, T, E) ==
  /\ n.slot = 2 * Sizes[i] /\ n.kids \in Seq(T)
  /\ \A j \in DOMAIN n.kids : KidAt(n.kids[j], i)
  /\ SizeAt(n, E)

\* T holds nodes over itself and the entries E.
Closed(T, E) ==
  \A n \in T : IF IsNode(n) THEN \E i \in Levels : NodeAt(n, i, T, E) ELSE n \in E

\* The items of level k: of a larger size, save for tiny entries at first.
Items(T, k) ==
  {x \in [addr : Nat, size : Nat, sub : T] :
     /\ \/ \E i \in Levels : i > k /\ x.size = 2 * Sizes[i]
        \/ k = 0 /\ x.size < 2 * Smallest
     /\ IF IsNode(x.sub) THEN \E j \in Levels : j <= k /\ x.sub.slot = 2 * Sizes[j]
        ELSE x.size = x.sub.size /\ (x.size < 2 * Smallest => Tiny(x.sub))}

\* The nodes that level k may put over T.
Nodes(T, E, k) ==
  {n \in [addr : Nat, size : Nat, slot : {2 * Sizes[k]}, kids : Seq(T)] : NodeAt(n, k, T, E)}

Over(T, E, k) == T \cup Nodes(T, E, k)

\* The node of level k that is being filled.
Open(T, E, k) == {n \in Nodes(T, E, k) : n.size = 2 * Sizes[k + 1] /\ n.kids # <<>>}

\* The nodes over T are closed with it.
LEMMA OverIsClosed ==
  ASSUME NEW T, NEW E, Closed(T, E), NEW k \in Levels
  PROVE  Closed(Over(T, E, k), E)
<1> DEFINE U == Over(T, E, k)
<1>1. \A l \in Seq(T) : l \in Seq(U)
  BY DEF Over
<1>2. ASSUME NEW n \in U PROVE IF IsNode(n) THEN \E i \in Levels : NodeAt(n, i, U, E) ELSE n \in E
  <2>1. CASE n \in T
    BY <1>1, <2>1 DEF Closed, NodeAt
  <2>2. CASE n \in Nodes(T, E, k)
    <3>1. NodeAt(n, k, U, E)
      BY <1>1, <2>2 DEF Nodes, NodeAt
    <3>2. IsNode(n)
      BY <2>2 DEF Nodes, IsNode
    <3>3. QED
      BY <3>1, <3>2
  <2>3. QED
    BY <2>1, <2>2 DEF Over
<1>3. QED
  BY <1>2 DEF Closed

\* A node that is complete becomes an item, without a level of its own when it
\* holds only one.
LEMMA SimplifyType ==
  ASSUME NEW E \in SUBSET EntryRecords, NEW T, Closed(T, E),
         NEW k \in Levels, k + 1 \in Levels, NEW n \in Open(T, E, k)
  PROVE  Item(n, Simplify(n)) \in Items(Over(T, E, k), k)
<1> DEFINE U == Over(T, E, k)
           x == Item(n, Simplify(n))
           only == n.kids[1]
<1>1. /\ n \in [addr : Nat, size : Nat, slot : {2 * Sizes[k]}, kids : Seq(T)]
      /\ NodeAt(n, k, T, E) /\ n.size = 2 * Sizes[k + 1] /\ n.kids # <<>>
  BY DEF Open, Nodes
<1>2. /\ k \in Nat /\ Sizes[k] \in Nat /\ Sizes[k] > 0 /\ Sizes[k + 1] \in Nat
      /\ Sizes[k + 1] >= 4 * Sizes[k] /\ Sizes[k] >= Smallest /\ Smallest \in Nat
  BY SizesAre, SizesGrow, SmallestIs DEF Levels
<1>3. n.slot = 2 * Sizes[k] /\ n.size # n.slot /\ ~(n.size < 2 * Smallest)
  BY <1>1, <1>2
<1>4. n \in Nodes(T, E, k)
  BY DEF Open
<1>5. 1 \in DOMAIN n.kids /\ only \in T /\ KidAt(only, k)
  BY <1>1 DEF NodeAt
<1>6. /\ Simplify(n) \in U
      /\ IsNode(Simplify(n)) /\ \E j \in Levels : j <= k /\ Simplify(n).slot = 2 * Sizes[j]
  <2>1. CASE Len(n.kids) # 1
    <3>1. Simplify(n) = n
      BY <2>1 DEF Simplify
    <3>2. IsNode(n)
      BY <1>1 DEF IsNode
    <3>3. QED
      BY <1>2, <1>3, <1>4, <3>1, <3>2 DEF Over
  <2>2. CASE Len(n.kids) = 1 /\ IsNode(only)
    <3>1. Simplify(n) = only
      BY <2>2 DEF Simplify
    <3>2. PICK j \in Levels : j < k /\ only.slot = 2 * Sizes[j]
      BY <1>5, <2>2 DEF KidAt
    <3>3. j <= k
      BY <1>2, <3>2 DEF Levels
    <3>4. QED
      BY <1>5, <2>2, <3>1, <3>2, <3>3 DEF Over
  <2>3. CASE Len(n.kids) = 1 /\ ~IsNode(only)
    <3> DEFINE m == [n EXCEPT !.addr = only.addr, !.size = only.size]
    <3>1. Simplify(n) = m
      BY <1>3, <2>3 DEF Simplify
    <3>2. only \in E /\ only.addr \in Nat /\ only.size \in Nat
      BY <1>5, <2>3 DEF Closed, EntryRecords
    <3>3. only.size = 2 * Sizes[k] \/ Tiny(only)
      BY <1>5, <2>3 DEF KidAt
    <3>4. /\ m \in [addr : Nat, size : Nat, slot : {2 * Sizes[k]}, kids : Seq(T)]
          /\ m.slot = n.slot /\ m.kids = n.kids /\ m.size = only.size
      BY <1>1, <3>2
    <3> HIDE DEF m
    <3>5. SizeAt(m, E)
      <4>1. CASE only.size = 2 * Sizes[k]
        <5>1. m.size = 1 * m.slot /\ 1 \in Nat /\ 1 >= 1
          BY <1>2, <1>3, <3>4, <4>1
        <5>2. QED
          BY <5>1 DEF SizeAt
      <4>2. CASE Tiny(only)
        BY <3>2, <4>2 DEF SizeAt, Tiny
      <4>3. QED
        BY <3>3, <4>1, <4>2
    <3>6. m \in Nodes(T, E, k)
      BY <1>1, <3>4, <3>5 DEF Nodes, NodeAt
    <3>7. IsNode(m)
      BY <3>4 DEF IsNode
    <3>8. QED
      BY <1>2, <1>3, <3>1, <3>4, <3>6, <3>7 DEF Over
  <2>4. QED
    BY <2>1, <2>2, <2>3
<1>7. x = [addr |-> n.addr, size |-> n.size, sub |-> Simplify(n)] /\ n.addr \in Nat /\ n.size \in Nat
  BY <1>1 DEF Item
<1> DEFINE y == Simplify(n)
<1> HIDE DEF x, y, U
<1>8. k + 1 > k
  BY <1>2
<1>9. QED
  BY <1>1, <1>3, <1>6, <1>7, <1>8 DEF Items, x, U, y

\* The state of the loop over one level.
GroupStates(T, E, k) ==
  [cur : Open(T, E, k) \cup {None}, out : Seq(Items(Over(T, E, k), k))]

\* The items of a level that is complete.
LEMMA FinishedType ==
  ASSUME NEW E \in SUBSET EntryRecords, NEW T, Closed(T, E),
         NEW k \in Levels, k + 1 \in Levels, NEW s \in GroupStates(T, E, k)
  PROVE  Finished(s) \in Seq(Items(Over(T, E, k), k))
<1> DEFINE I == Items(Over(T, E, k), k)
<1>1. s.cur \in Open(T, E, k) \cup {None} /\ s.out \in Seq(I)
  BY DEF GroupStates
<1>2. s.cur # None => Item(s.cur, Simplify(s.cur)) \in I
  BY <1>1, SimplifyType
<1> HIDE DEF I
<1>3. QED
  BY <1>1, <1>2 DEF Finished, I

\* create_pte_tree: one more item of a level.
LEMMA GroupStepKeeps ==
  ASSUME NEW E \in SUBSET EntryRecords, NEW T, Closed(T, E),
         NEW k \in Levels, k + 1 \in Levels,
         NEW s \in GroupStates(T, E, k), NEW e \in Items(T, k - 1)
  PROVE  GroupStep(2 * Sizes[k], 2 * Sizes[k + 1], s, e) \in GroupStates(T, E, k)
<1> DEFINE slot == 2 * Sizes[k]
           nodesize == 2 * Sizes[k + 1]
           O == Open(T, E, k)
           I == Items(Over(T, E, k), k)
           S == GroupStates(T, E, k)
<1>1. s.cur \in O \cup {None} /\ s.out \in Seq(I) /\ Finished(s) \in Seq(I)
  BY FinishedType DEF GroupStates
<1>2. e.addr \in Nat /\ e.size \in Nat /\ e.sub \in T /\ e \in [addr : Nat, size : Nat, sub : T]
  BY DEF Items
<1>3. /\ k \in Nat /\ Sizes[k] \in Nat /\ Sizes[k] > 0 /\ Sizes[k + 1] \in Nat
      /\ Sizes[k + 1] >= 4 * Sizes[k] /\ Sizes[k] >= Smallest /\ Smallest \in Nat /\ Smallest > 0
  BY SizesAre, SizesGrow, SmallestIs DEF Levels
<1>4. \/ \E i \in Levels : i > k - 1 /\ e.size = 2 * Sizes[i]
      \/ k - 1 = 0 /\ e.size < 2 * Smallest
  BY DEF Items
<1>5. IF IsNode(e.sub) THEN \E j \in Levels : j <= k - 1 /\ e.sub.slot = 2 * Sizes[j]
      ELSE e.size = e.sub.size /\ (e.size < 2 * Smallest => Tiny(e.sub))
  BY DEF Items
<1>6. e.size < nodesize => e.size = slot \/ e.size < 2 * Smallest
  <2>1. ASSUME NEW i \in Levels, i > k - 1, e.size = 2 * Sizes[i], e.size < nodesize PROVE i = k
    <3> SUFFICES ASSUME i > k PROVE FALSE
      BY <1>3, <2>1 DEF Levels
    <3>1. i = k + 1 \/ k + 1 < i
      BY <1>3 DEF Levels
    <3>2. k + 1 < i => Sizes[i] >= 4 * Sizes[k + 1]
      BY SizesGrow
    <3>3. Sizes[i] \in Nat
      BY SizesAre
    <3>4. QED
      BY <1>3, <2>1, <3>1, <3>2, <3>3
  <2>2. QED
    BY <1>4, <2>1
<1>7. e.size < nodesize => KidAt(e.sub, k)
  <2> SUFFICES ASSUME e.size < nodesize PROVE KidAt(e.sub, k)
    OBVIOUS
  <2>1. CASE IsNode(e.sub)
    <3>1. PICK j \in Levels : j <= k - 1 /\ e.sub.slot = 2 * Sizes[j]
      BY <1>5, <2>1
    <3>2. j < k
      BY <1>3, <3>1 DEF Levels
    <3>3. QED
      BY <2>1, <3>1, <3>2 DEF KidAt
  <2>2. CASE ~IsNode(e.sub)
    BY <1>5, <1>6, <2>2 DEF KidAt
  <2>3. QED
    BY <2>1, <2>2
<1>8. e.size >= nodesize => e \in I
  <2> SUFFICES ASSUME e.size >= nodesize PROVE e \in I
    OBVIOUS
  <2>1. PICK i \in Levels : i > k - 1 /\ e.size = 2 * Sizes[i]
    <3>1. nodesize \in Nat /\ nodesize >= 2 * Smallest /\ 2 * Smallest \in Nat
      BY <1>3
    <3> HIDE DEF nodesize
    <3>2. ~(e.size < 2 * Smallest)
      BY <1>2, <3>1
    <3>3. QED
      BY <1>4, <3>2
  <2>2. i > k
    <3>1. i # k
      BY <1>3, <2>1
    <3>2. QED
      BY <1>3, <2>1, <3>1 DEF Levels
  <2>3. IsNode(e.sub) => \E j \in Levels : j <= k /\ e.sub.slot = 2 * Sizes[j]
    <3> SUFFICES ASSUME IsNode(e.sub) PROVE \E j \in Levels : j <= k /\ e.sub.slot = 2 * Sizes[j]
      OBVIOUS
    <3>1. PICK j \in Levels : j <= k - 1 /\ e.sub.slot = 2 * Sizes[j]
      BY <1>5
    <3>2. j <= k
      BY <1>3, <3>1 DEF Levels
    <3>3. QED
      BY <3>1, <3>2
  <2>4. e \in [addr : Nat, size : Nat, sub : Over(T, E, k)]
    BY <1>2 DEF Over
  <2>5. QED
    BY <1>5, <2>1, <2>2, <2>3, <2>4 DEF Items
<1>9. slot \in Nat /\ slot > 0 /\ nodesize \in Nat /\ nodesize > 0 /\ slot < nodesize
      /\ \E m \in Nat : m >= 1 /\ nodesize = m * slot
  <2>1. Sizes[k + 1] = 4 * Sizes[k]
    <3>1. k + 1 \in 2 .. Len(Sizes) /\ (k + 1) - 1 = k
      BY <1>3 DEF Levels
    <3>2. QED
      BY <3>1, PageTablesAssumption
  <2>2. nodesize = 4 * slot
    BY <1>3, <2>1
  <2>3. QED
    BY <1>3, <2>2
<1>10. CASE s.cur # None /\ e.size = slot /\ End(s.cur) >= e.addr + slot
  <2> DEFINE c == s.cur
             d == [c EXCEPT !.kids = Append(@, e.sub)]
  <2>1. GroupStep(slot, nodesize, s, e) = [s EXCEPT !.cur.kids = Append(@, e.sub)]
    BY <1>10 DEF GroupStep
  <2>2. /\ c \in [addr : Nat, size : Nat, slot : {slot}, kids : Seq(T)]
        /\ NodeAt(c, k, T, E) /\ c.size = nodesize
    BY <1>1, <1>10 DEF Open, Nodes
  <2>3. KidAt(e.sub, k)
    BY <1>7, <1>9, <1>10
  <2> DEFINE l == Append(c.kids, e.sub)
  <2>4. c.kids \in Seq(T) /\ \A j \in DOMAIN c.kids : KidAt(c.kids[j], k)
    BY <2>2 DEF NodeAt
  <2> DEFINE o == c.kids
             a == e.sub
  <2> HIDE DEF o, a
  <2>5. l \in Seq(T) /\ l # <<>> /\ \A j \in DOMAIN l : KidAt(l[j], k)
    <3>1. o \in Seq(T) /\ a \in T /\ l = Append(o, a) /\ KidAt(a, k) /\ \A j \in DOMAIN o : KidAt(o[j], k)
      BY <1>2, <2>3, <2>4 DEF o, a
    <3> HIDE DEF l
    <3>2. l \in Seq(T) /\ l # <<>>
      BY <3>1
    <3>3. \A j \in DOMAIN l : (j \in DOMAIN o /\ l[j] = o[j]) \/ l[j] = a
      BY <3>1
    <3>4. QED
      BY <3>1, <3>2, <3>3
  <2> HIDE DEF l
  <2>6. /\ d \in [addr : Nat, size : Nat, slot : {slot}, kids : Seq(T)]
        /\ d.slot = c.slot /\ d.size = nodesize /\ d.kids = l
    BY <2>2, <2>5 DEF l
  <2>7. SizeAt(d, E)
    BY <2>2, <2>6 DEF NodeAt, SizeAt
  <2> HIDE DEF d
  <2>8. NodeAt(d, k, T, E)
    BY <2>2, <2>5, <2>6, <2>7 DEF NodeAt
  <2>9. d \in O
    BY <2>5, <2>6, <2>8 DEF Open, Nodes
  <2>10. [s EXCEPT !.cur.kids = Append(@, e.sub)] = [s EXCEPT !.cur = d]
    BY DEF d, GroupStates
  <2>11. [s EXCEPT !.cur = d] \in S
    BY <2>9 DEF GroupStates
  <2>12. QED
    BY <2>1, <2>10, <2>11
<1>11. CASE ~(s.cur # None /\ e.size = slot /\ End(s.cur) >= e.addr + slot) /\ e.size >= nodesize
  <2>1. GroupStep(slot, nodesize, s, e) = [cur |-> None, out |-> Append(Finished(s), e)]
    BY <1>11 DEF GroupStep
  <2> DEFINE l == Append(Finished(s), e)
  <2>2. l \in Seq(I)
    <3> HIDE DEF I
    <3>1. QED
      BY <1>1, <1>8, <1>11
  <2> HIDE DEF l
  <2>3. [cur |-> None, out |-> l] \in S
    BY <2>2 DEF GroupStates
  <2>4. QED
    BY <2>1, <2>3 DEF l
<1>12. CASE ~(s.cur # None /\ e.size = slot /\ End(s.cur) >= e.addr + slot) /\ ~(e.size >= nodesize)
  <2> DEFINE a == Down(e.addr, nodesize)
             d == [addr |-> a, size |-> nodesize, slot |-> slot, kids |-> <<e.sub>>]
             l == Finished(s)
  <2>1. GroupStep(slot, nodesize, s, e) = [cur |-> d, out |-> l]
    BY <1>12 DEF GroupStep
  <2>2. a \in Nat
    BY <1>2, <1>9, DownIs
  <2> HIDE DEF a
  <2>3. /\ d \in [addr : Nat, size : Nat, slot : {slot}, kids : Seq(T)]
        /\ d.kids = <<e.sub>> /\ d.slot = slot /\ d.size = nodesize /\ d.kids # <<>>
    BY <1>2, <1>9, <2>2
  <2>4. KidAt(e.sub, k)
    BY <1>2, <1>7, <1>9, <1>12
  <2>5. \A j \in DOMAIN d.kids : KidAt(d.kids[j], k)
    BY <2>3, <2>4
  <2> HIDE DEF d
  <2>6. SizeAt(d, E)
    BY <1>9, <2>3 DEF SizeAt
  <2>7. NodeAt(d, k, T, E)
    BY <2>3, <2>5, <2>6 DEF NodeAt
  <2>8. d \in O
    BY <2>3, <2>7 DEF Open, Nodes
  <2> HIDE DEF l
  <2>9. [cur |-> d, out |-> l] \in S
    BY <1>1, <2>8 DEF GroupStates, l
  <2>10. QED
    BY <2>1, <2>9
<1>13. QED
  BY <1>10, <1>11, <1>12

\* create_pte_tree: a level made of the one below.
LEMMA GroupType ==
  ASSUME NEW E \in SUBSET EntryRecords, NEW T, Closed(T, E),
         NEW k \in Levels, k + 1 \in Levels, NEW list \in Seq(Items(T, k - 1))
  PROVE  Group(list, 2 * Sizes[k], 2 * Sizes[k + 1]) \in Seq(Items(Over(T, E, k), k))
<1> DEFINE n == Len(list)
           slot == 2 * Sizes[k]
           nodesize == 2 * Sizes[k + 1]
           b == [cur |-> None, out |-> <<>>]
           Is(f) == f = [i \in 0 .. n |-> IF i = 0 THEN b
                                         ELSE GroupStep(slot, nodesize, f[i - 1], list[i])]
           h == CHOOSE f : Is(f)
           S == GroupStates(T, E, k)
           g == [x \in (1 .. n) \X S |-> GroupStep(slot, nodesize, x[2], list[x[1]])]
<1>1. n \in Nat /\ \A i \in 1 .. n : list[i] \in Items(T, k - 1)
  OBVIOUS
<1>2. Group(list, slot, nodesize) = Finished(h[n])
  BY DEF Group
<1>3. b \in S
  BY DEF GroupStates
<1>4. \A i \in 1 .. n : \A s \in S : GroupStep(slot, nodesize, s, list[i]) \in S
  BY <1>1, GroupStepKeeps
<1>5. \A i \in 1 .. n : \A s \in S : g[<<i, s>>] = GroupStep(slot, nodesize, s, list[i])
  OBVIOUS
<1> HIDE DEF n, b, S, g, slot, nodesize
<1>6. PICK f \in [0 .. n -> S] : IsFold(f, n, b, g)
  <2>1. \A i \in 1 .. n : \A s \in S : g[<<i, s>>] \in S
    BY <1>4, <1>5
  <2>2. n \in Nat
    BY <1>1
  <2>3. QED
    BY <1>3, <2>1, <2>2, FoldExists
<1>7. Is(f)
  <2>1. \A i \in 0 .. n : i # 0 => g[<<i, f[i - 1]>>] = GroupStep(slot, nodesize, f[i - 1], list[i])
    BY <1>1, <1>5
  <2>2. QED
    BY <1>6, <2>1 DEF IsFold
<1>8. Is(h)
  BY <1>7
<1> HIDE DEF h
<1>9. h[n] \in S
  <2>1. h[0] \in S
    BY <1>1, <1>3, <1>8
  <2>2. \A i \in 1 .. n : h[i] = GroupStep(slot, nodesize, h[i - 1], list[i])
    BY <1>1, <1>8
  <2>3. \A i \in 1 .. n : h[i - 1] \in S => h[i] \in S
    BY <1>4, <2>2
  <2>4. QED
    BY <1>1, <2>1, <2>3, FoldType
<1>10. QED
  BY <1>2, <1>9, FinishedType DEF S, slot, nodesize

\* The tree of a list of entries is made of nodes over these entries.
LEMMA TreeType ==
  ASSUME NEW list \in Seq(Blocks), NEW l \in Seq(EntriesOf(list))
  PROVE  \E T : Closed(T, ToSet(l)) /\ Tree(l) \in T /\ IsNode(Tree(l))
<1> DEFINE E == ToSet(l)
           n == Len(Sizes) - 1
           b == [i \in DOMAIN l |-> Item(l[i], l[i])]
           Is(f, m) == f = [k \in 0 .. m |-> IF k = 0 THEN b
                                            ELSE Group(f[k - 1], 2 * Sizes[k], 2 * Sizes[k + 1])]
           h == CHOOSE f : Is(f, n)
           t == [addr |-> 0, size |-> Space, slot |-> 2 * Largest,
                 kids |-> [i \in DOMAIN h[n] |-> h[n][i].sub]]
<1>1. Tree(l) = t
  BY DEF Tree
<1>2. n \in Nat /\ n + 1 = Len(Sizes)
  BY SizesAre
<1>3. E \in SUBSET EntryRecords /\ \A e \in E : e \in EntriesOf(list)
  BY DEF EntriesOf, ToSet
<1>4. Closed(E, E)
  <2>1. ASSUME NEW e \in EntryRecords PROVE ~IsNode(e)
    <3>1. DOMAIN e = {"addr", "size", "lo", "hi", "emu", "bm"}
      BY DEF EntryRecords
    <3>2. QED
      BY <3>1 DEF IsNode
  <2>2. QED
    BY <1>3, <2>1 DEF Closed
<1>5. b \in Seq(Items(E, 0))
  <2>1. ASSUME NEW e \in E PROVE Item(e, e) \in Items(E, 0)
    <3> DEFINE x == Item(e, e)
    <3>1. e.addr \in Nat /\ e.size \in Nat /\ ~IsNode(e) /\ e \in EntriesOf(list)
      <4>1. ~IsNode(e)
        <5>1. DOMAIN e = {"addr", "size", "lo", "hi", "emu", "bm"}
          BY <1>3 DEF EntryRecords
        <5>2. QED
          BY <5>1 DEF IsNode
      <4>2. QED
        BY <1>3, <4>1 DEF EntryRecords
    <3>2. PICK z \in Nat : EntryOf(e, z, list)
      BY <3>1 DEF EntriesOf
    <3>3. e.size = 2 * z
      BY <3>2 DEF EntryOf
    <3>4. CASE z \in ToSet(Sizes)
      <4>1. PICK i \in Levels : z = Sizes[i]
        BY <3>4, SizesAre
      <4>2. i > 0 /\ Sizes[i] \in Nat /\ Smallest \in Nat /\ Sizes[i] >= Smallest
        BY SizesAre, SmallestIs DEF Levels
      <4>3. e.size = 2 * Sizes[i] /\ ~(e.size < 2 * Smallest)
        BY <3>3, <4>1, <4>2
      <4>4. QED
        BY <3>1, <4>2, <4>3 DEF Items, Item
    <3>5. CASE z < Smallest /\ Emulated(e.lo) /\ Emulated(e.hi)
      <4>1. e.size < 2 * Smallest
        BY <3>3, <3>5, SizesAre
      <4>2. Tiny(e)
        BY <3>5, <4>1 DEF Tiny
      <4>3. QED
        BY <3>1, <4>1, <4>2 DEF Items, Item
    <3>6. QED
      BY <3>2, <3>4, <3>5 DEF EntryOf
  <2>2. l \in Seq(E)
    BY DEF ToSet
  <2> HIDE DEF E
  <2>3. QED
    BY <2>1, <2>2
<1> HIDE DEF E, b, n
<1>6. \E f : Is(f, n)
  <2> DEFINE N == {m \in Nat : \E f : Is(f, m)}
  <2>1. 0 \in N
    <3>1. Is([k \in 0 .. 0 |-> b], 0)
      OBVIOUS
    <3>2. QED
      BY <3>1
  <2>2. ASSUME NEW m \in Nat, m \in N PROVE m + 1 \in N
    <3>1. PICK f : Is(f, m)
      BY <2>2
    <3> DEFINE e == [k \in 0 .. m + 1 |-> IF k <= m THEN f[k]
                                          ELSE Group(f[m], 2 * Sizes[m + 1], 2 * Sizes[m + 2])]
    <3>2. ASSUME NEW k \in 0 .. m + 1
          PROVE  e[k] = IF k = 0 THEN b ELSE Group(e[k - 1], 2 * Sizes[k], 2 * Sizes[k + 1])
      <4>1. CASE k <= m
        <5>1. e[k] = f[k] /\ (k # 0 => e[k - 1] = f[k - 1])
          BY <4>1
        <5>2. f[k] = IF k = 0 THEN b ELSE Group(f[k - 1], 2 * Sizes[k], 2 * Sizes[k + 1])
          BY <3>1, <4>1
        <5>3. QED
          BY <5>1, <5>2
      <4>2. CASE k = m + 1
        <5>1. e[k] = Group(f[m], 2 * Sizes[m + 1], 2 * Sizes[m + 2]) /\ e[k - 1] = f[m] /\ k # 0
              /\ k + 1 = m + 2
          BY <4>2
        <5>2. QED
          BY <4>2, <5>1
      <4>3. QED
        BY <4>1, <4>2
    <3>3. e = [k \in 0 .. m + 1 |-> e[k]]
      OBVIOUS
    <3> HIDE DEF e
    <3>4. Is(e, m + 1)
      BY <3>2, <3>3
    <3>5. QED
      BY <3>4
  <2>3. Nat \subseteq N
    <3> HIDE DEF N
    <3>1. QED BY <2>1, <2>2, NatInd
  <2>4. QED
    BY <1>2, <2>3
<1>7. Is(h, n)
  BY <1>6
<1> HIDE DEF h
<1>8. h[0] = b /\ \A k \in 1 .. n : h[k] = Group(h[k - 1], 2 * Sizes[k], 2 * Sizes[k + 1])
  BY <1>2, <1>7
<1> DEFINE P(k) == \E T : Closed(T, E) /\ h[k] \in Seq(Items(T, k))
           K == {k \in Nat : k <= n => P(k)}
<1>9. 0 \in K
  BY <1>4, <1>5, <1>8
<1>10. ASSUME NEW k \in Nat, k \in K PROVE k + 1 \in K
  <2> SUFFICES ASSUME k + 1 <= n PROVE P(k + 1)
    OBVIOUS
  <2> DEFINE i == k + 1
  <2>1. i \in 1 .. n /\ i - 1 = k /\ i \in Levels /\ i + 1 \in Levels /\ k <= n
    BY <1>2 DEF Levels
  <2>2. PICK T : Closed(T, E) /\ h[k] \in Seq(Items(T, k))
    BY <1>10, <2>1
  <2> HIDE DEF i
  <2>3. h[k] \in Seq(Items(T, i - 1))
    BY <2>1, <2>2
  <2>4. Group(h[k], 2 * Sizes[i], 2 * Sizes[i + 1]) \in Seq(Items(Over(T, E, i), i))
    BY <1>3, <2>1, <2>2, <2>3, GroupType
  <2>5. h[i] \in Seq(Items(Over(T, E, i), i))
    BY <1>8, <2>1, <2>4
  <2>6. Closed(Over(T, E, i), E)
    BY <2>1, <2>2, OverIsClosed
  <2>7. P(i)
    BY <2>5, <2>6
  <2>8. QED
    BY <2>7 DEF i
<1>11. Nat \subseteq K
  <2> HIDE DEF K
  <2>1. QED BY <1>9, <1>10, NatInd
<1>12. PICK T : Closed(T, E) /\ h[n] \in Seq(Items(T, n))
  BY <1>2, <1>11
<1> DEFINE last_ == h[n]
           kids == [i \in DOMAIN last_ |-> last_[i].sub]
           U == T \cup {t}
<1>13. t = [addr |-> 0, size |-> Space, slot |-> 2 * Largest, kids |-> kids]
  OBVIOUS
<1>14. kids \in Seq(T) /\ \A j \in DOMAIN kids : KidAt(kids[j], Len(Sizes))
  <2>1. ASSUME NEW x \in Items(T, n) PROVE x.sub \in T /\ KidAt(x.sub, Len(Sizes))
    <3>1. /\ x.sub \in T /\ x.size \in Nat
          /\ \/ \E i \in Levels : i > n /\ x.size = 2 * Sizes[i]
             \/ n = 0 /\ x.size < 2 * Smallest
          /\ IF IsNode(x.sub) THEN \E j \in Levels : j <= n /\ x.sub.slot = 2 * Sizes[j]
             ELSE x.size = x.sub.size /\ (x.size < 2 * Smallest => Tiny(x.sub))
      BY DEF Items
    <3>2. (\A i \in Levels : i > n => i = Len(Sizes)) /\ (\A j \in Levels : j <= n => j < Len(Sizes))
      BY <1>2 DEF Levels
    <3>3. QED
      BY <3>1, <3>2 DEF KidAt
  <2> HIDE DEF last_
  <2>2. last_ \in Seq(Items(T, n))
    BY <1>12 DEF last_
  <2>3. QED
    BY <2>1, <2>2
<1> HIDE DEF kids, t
<1>15. t.slot = 2 * Sizes[Len(Sizes)] /\ t.kids = kids /\ t.size = Space /\ IsNode(t)
  BY <1>13, SmallestIs DEF IsNode
<1>16. SizeAt(t, E)
  <2> DEFINE y == 2 * Largest
             m == Space \div y
  <2>1. Space \in Nat /\ Space > 0 /\ Space % y = 0 /\ t.slot = y
    BY <1>15, PageTablesAssumption, SmallestIs DEF Largest
  <2>2. y \in Nat /\ y > 0
    BY SizesAre, SmallestIs
  <2> HIDE DEF y
  <2>3. Space = y * m + (Space % y) /\ m \in Nat
    BY <2>1, <2>2
  <2> HIDE DEF m
  <2>4. Space = m * y /\ m >= 1
    BY <2>1, <2>2, <2>3
  <2>5. QED
    BY <1>15, <2>1, <2>3, <2>4 DEF SizeAt
<1>17. \A s \in Seq(T) : s \in Seq(U)
  OBVIOUS
<1>18. NodeAt(t, Len(Sizes), U, E)
  BY <1>14, <1>15, <1>16, <1>17 DEF NodeAt
<1>19. Closed(U, E)
  <2>1. ASSUME NEW x \in T PROVE IF IsNode(x) THEN \E i \in Levels : NodeAt(x, i, U, E) ELSE x \in E
    BY <1>12, <1>17 DEF Closed, NodeAt
  <2>2. QED
    BY <1>15, <1>18, <2>1, SmallestIs DEF Closed
<1>20. QED
  BY <1>1, <1>15, <1>19 DEF E

-----------------------------------------------------------------------------
(* The search                                                                *)

\* A slot is of one level.
LEMMA LevelIsOne ==
  ASSUME NEW i \in Levels, NEW j \in Levels, 2 * Sizes[i] = 2 * Sizes[j]
  PROVE  i = j
<1>1. Sizes[i] \in Nat /\ Sizes[i] > 0 /\ Sizes[j] \in Nat /\ Sizes[j] > 0
  BY SizesAre
<1>2. ~(i < j)
  <2>1. i < j => Sizes[j] >= 4 * Sizes[i]
    BY SizesGrow
  <2>2. QED
    BY <1>1, <2>1
<1>3. ~(j < i)
  <2>1. j < i => Sizes[i] >= 4 * Sizes[j]
    BY SizesGrow
  <2>2. QED
    BY <1>1, <2>1
<1>4. QED
  BY <1>2, <1>3 DEF Levels

NodesOf(T) == {n \in T : IsNode(n)}

Slots == {2 * Sizes[i] : i \in Levels}

Found(T) == [found : {"node"}, node : NodesOf(T)]

Leaves(E) ==
  {s \in [found : {"leaf"}, leaf : E \cup {EmptyEntry}, slot : Slots] :
     s.leaf = EmptyEntry \/ s.leaf.size = s.slot \/ Tiny(s.leaf)}

Transits(T) ==
  {s \in [found : {"transit"}, node : NodesOf(T), under : NodesOf(T)] :
     \E i, j \in Levels : i < j /\ s.node.slot = 2 * Sizes[i] /\ s.under.slot = 2 * Sizes[j]}

SearchStates(T, E) == Found(T) \cup Leaves(E) \cup Transits(T) \cup {NoLeaf}

\* The level of the slot that the search has come to.
AtLevel(s, j) ==
  \/ s.found = "node" /\ s.node.slot = 2 * Sizes[j]
  \/ s.found = "leaf" /\ s.slot = 2 * Sizes[j]
  \/ s.found = "transit" /\ s.under.slot = 2 * Sizes[j]

\* output_ptetree: a slot holds a descendant or nothing.
LEMMA SlotIs ==
  ASSUME NEW n, NEW a
  PROVE  Slot(n, a) = None \/ \E i \in DOMAIN n.kids : Slot(n, a) = n.kids[i]
BY DEF Slot, InSlot

\* One step goes down a level or ends the search.
LEMMA SearchStepKeeps ==
  ASSUME NEW T, NEW E, Closed(T, E), NEW s \in SearchStates(T, E), NEW a, NEW software \in BOOLEAN
  PROVE  /\ SearchStep(s, a, software) \in SearchStates(T, E)
         /\ s.found # "node" => SearchStep(s, a, software) = s
         /\ \A j \in Levels : s.found = "node" /\ AtLevel(s, j) =>
              LET r == SearchStep(s, a, software) IN
              \/ r.found = "nothing"
              \/ r.found = "node" /\ \E i \in Levels : i < j /\ AtLevel(r, i)
              \/ r.found \in {"leaf", "transit"} /\ AtLevel(r, j)
<1>1. CASE s.found # "node"
  BY <1>1 DEF SearchStep
<1>2. CASE s.found = "node"
  <2> DEFINE n == s.node
             k == Slot(n, a)
             r == SearchStep(s, a, software)
  <2>1. n \in T /\ IsNode(n)
    BY <1>2 DEF SearchStates, Found, Leaves, Transits, NoLeaf, NodesOf
  <2>2. PICK i \in Levels : NodeAt(n, i, T, E)
    BY <2>1 DEF Closed
  <2>3. n.slot = 2 * Sizes[i] /\ n.slot \in Slots
    BY <2>2 DEF NodeAt, Slots
  <2>4. k = None \/ (k \in T /\ KidAt(k, i))
    <3>1. n.kids \in Seq(T) /\ \A j \in DOMAIN n.kids : KidAt(n.kids[j], i)
      BY <2>2 DEF NodeAt
    <3>2. \A j \in DOMAIN n.kids : n.kids[j] \in T
      BY <3>1
    <3>3. QED
      BY <3>1, <3>2, SlotIs
  <2>5. \A j \in Levels : AtLevel(s, j) => i = j
    BY <1>2, <2>3, LevelIsOne DEF AtLevel
  <2>6. r = IF k = None THEN Leaf(EmptyEntry, n.slot)
            ELSE IF IsTransit(k) /\ ~software THEN [found |-> "transit", node |-> k, under |-> n]
            ELSE IF ~IsNode(k) THEN Leaf(k, n.slot)
            ELSE IF Golden(n, k, a) THEN AtNode(k)
            ELSE NoLeaf
    BY <1>2 DEF SearchStep
  <2> HIDE DEF n, k, r
  <2> SUFFICES /\ r \in SearchStates(T, E)
               /\ \/ r.found = "nothing"
                  \/ r.found = "node" /\ \E j \in Levels : j < i /\ AtLevel(r, j)
                  \/ r.found \in {"leaf", "transit"} /\ AtLevel(r, i)
    BY <1>2, <2>5 DEF r
  <2>7. CASE k = None
    <3>1. r = [found |-> "leaf", leaf |-> EmptyEntry, slot |-> n.slot]
      BY <2>6, <2>7 DEF Leaf
    <3>2. r \in Leaves(E)
      BY <2>3, <3>1 DEF Leaves
    <3>3. AtLevel(r, i) /\ r.found = "leaf"
      BY <2>3, <3>1 DEF AtLevel
    <3>4. QED
      BY <3>2, <3>3 DEF SearchStates
  <2>8. CASE k # None /\ IsTransit(k) /\ ~software
    <3>1. r = [found |-> "transit", node |-> k, under |-> n]
      BY <2>6, <2>8
    <3>2. IsNode(k) /\ k \in T
      BY <2>4, <2>8 DEF IsTransit
    <3>3. \E j \in Levels : j < i /\ k.slot = 2 * Sizes[j]
      BY <2>4, <2>8, <3>2 DEF KidAt
    <3>4. r \in Transits(T)
      BY <2>1, <2>3, <3>1, <3>2, <3>3 DEF Transits, NodesOf
    <3>5. AtLevel(r, i) /\ r.found = "transit"
      BY <2>3, <3>1 DEF AtLevel
    <3>6. QED
      BY <3>4, <3>5 DEF SearchStates
  <2>9. CASE k # None /\ ~(IsTransit(k) /\ ~software) /\ ~IsNode(k)
    <3>1. r = [found |-> "leaf", leaf |-> k, slot |-> n.slot]
      BY <2>6, <2>9 DEF Leaf
    <3>2. k \in E /\ (k.size = n.slot \/ Tiny(k))
      BY <2>3, <2>4, <2>9 DEF Closed, KidAt
    <3>3. r \in Leaves(E)
      BY <2>3, <3>1, <3>2 DEF Leaves
    <3>4. AtLevel(r, i) /\ r.found = "leaf"
      BY <2>3, <3>1 DEF AtLevel
    <3>5. QED
      BY <3>3, <3>4 DEF SearchStates
  <2>10. CASE k # None /\ ~(IsTransit(k) /\ ~software) /\ IsNode(k) /\ Golden(n, k, a)
    <3>1. r = [found |-> "node", node |-> k]
      BY <2>6, <2>10 DEF AtNode
    <3>2. r \in Found(T)
      BY <2>4, <2>10, <3>1 DEF Found, NodesOf
    <3>3. r.found = "node" /\ \E j \in Levels : j < i /\ AtLevel(r, j)
      BY <2>4, <2>10, <3>1 DEF AtLevel, KidAt
    <3>4. QED
      BY <3>2, <3>3 DEF SearchStates
  <2>11. CASE k # None /\ ~(IsTransit(k) /\ ~software) /\ IsNode(k) /\ ~Golden(n, k, a)
    <3>1. r = NoLeaf /\ r.found = "nothing"
      BY <2>6, <2>11 DEF NoLeaf
    <3>2. QED
      BY <3>1 DEF SearchStates
  <2>12. QED
    BY <2>7, <2>8, <2>9, <2>10, <2>11
<1>3. QED
  BY <1>1, <1>2

\* The states that a search goes through.
Walk(w, n, a, software) ==
  /\ w[0] = AtNode(n)
  /\ \A d \in 1 .. Len(Sizes) : w[d] = SearchStep(w[d - 1], a, software)

Walks(T, E, n, a, software) ==
  \E w \in [0 .. Len(Sizes) -> SearchStates(T, E)] :
    Walk(w, n, a, software) /\ Search(n, a, software) = w[Len(Sizes)]

\* A search ends a walk through search states.
LEMMA SearchWalks ==
  ASSUME NEW T, NEW E, Closed(T, E), NEW n \in NodesOf(T), NEW a, NEW software \in BOOLEAN
  PROVE  Walks(T, E, n, a, software)
<1> DEFINE m == Len(Sizes)
           b == AtNode(n)
           Is(f) == f = [d \in 0 .. m |-> IF d = 0 THEN b ELSE SearchStep(f[d - 1], a, software)]
           h == CHOOSE f : Is(f)
           S == SearchStates(T, E)
           g == [x \in (1 .. m) \X S |-> SearchStep(x[2], a, software)]
<1>1. m \in Nat
  BY SizesAre
<1>2. Search(n, a, software) = h[m]
  BY DEF Search
<1>3. b \in S
  BY DEF AtNode, SearchStates, Found
<1>4. \A s \in S : SearchStep(s, a, software) \in S
  BY SearchStepKeeps
<1>5. \A i \in 1 .. m : \A s \in S : g[<<i, s>>] = SearchStep(s, a, software)
  OBVIOUS
<1> HIDE DEF m, b, S, g
<1>6. PICK f \in [0 .. m -> S] : IsFold(f, m, b, g)
  <2>1. \A i \in 1 .. m : \A s \in S : g[<<i, s>>] \in S
    BY <1>4, <1>5
  <2>2. QED
    BY <1>1, <1>3, <2>1, FoldExists
<1>7. Is(f)
  <2>1. \A i \in 0 .. m : i # 0 => g[<<i, f[i - 1]>>] = SearchStep(f[i - 1], a, software)
    BY <1>1, <1>5
  <2>2. QED
    BY <1>6, <2>1 DEF IsFold
<1>8. Is(h)
  BY <1>7
<1> HIDE DEF h
<1>9. h[0] = b /\ \A d \in 1 .. m : h[d] = SearchStep(h[d - 1], a, software)
  BY <1>1, <1>8
<1>10. \A d \in 0 .. m : h[d] \in S
  <2> DEFINE D == {d \in Nat : d <= m => h[d] \in S}
  <2>1. 0 \in D
    BY <1>3, <1>9
  <2>2. ASSUME NEW d \in Nat, d \in D PROVE d + 1 \in D
    <3> SUFFICES ASSUME d + 1 <= m PROVE h[d + 1] \in S
      OBVIOUS
    <3>1. d + 1 \in 1 .. m /\ (d + 1) - 1 = d /\ d <= m
      BY <1>1
    <3>2. h[d + 1] = SearchStep(h[d], a, software) /\ h[d] \in S
      BY <1>9, <2>2, <3>1
    <3>3. QED
      BY <1>4, <3>2
  <2>3. Nat \subseteq D
    <3> HIDE DEF D
    <3>1. QED BY <2>1, <2>2, NatInd
  <2>4. QED
    BY <1>1, <2>3
<1>11. h \in [0 .. m -> S]
  <2>1. h = [d \in 0 .. m |-> IF d = 0 THEN b ELSE SearchStep(h[d - 1], a, software)]
    BY <1>8
  <2>2. DOMAIN h = 0 .. m /\ h = [d \in 0 .. m |-> h[d]]
    BY <2>1
  <2>3. QED
    BY <1>10, <2>2
<1>12. Walk(h, n, a, software)
  BY <1>9 DEF Walk, m, b
<1>13. QED
  BY <1>2, <1>11, <1>12 DEF Walks, m, S

\* From level j in step c on a walk goes down a level with each step, until it ends.
GoesDown(w, c, j) ==
  \A d \in c .. Len(Sizes) :
    \/ w[d].found = "nothing"
    \/ w[d].found = "node" /\ \E i \in Levels : i <= j - (d - c) /\ AtLevel(w[d], i)
    \/ w[d].found \in {"leaf", "transit"} /\ \E i \in Levels : i <= j /\ AtLevel(w[d], i)

\* Further steps never come back to a larger slot, and the search ends.
LEMMA WalkGoesDown ==
  ASSUME NEW T, NEW E, Closed(T, E), NEW n \in NodesOf(T), NEW a, NEW software \in BOOLEAN,
         NEW w \in [0 .. Len(Sizes) -> SearchStates(T, E)], Walk(w, n, a, software),
         NEW c \in 0 .. Len(Sizes), NEW j \in Levels, AtLevel(w[c], j)
  PROVE  GoesDown(w, c, j)
<1> DEFINE m == Len(Sizes)
           P(e) == \/ w[c + e].found = "nothing"
                   \/ w[c + e].found = "node" /\ \E i \in Levels : i <= j - e /\ AtLevel(w[c + e], i)
                   \/ w[c + e].found \in {"leaf", "transit"} /\ \E i \in Levels : i <= j /\ AtLevel(w[c + e], i)
           D == {e \in Nat : c + e <= m => P(e)}
<1>1. m \in Nat /\ c \in Nat /\ j \in Nat /\ \A i \in Levels : i \in Nat
  BY SizesAre DEF Levels
<1>2. 0 \in D
  <2>1. c + 0 = c /\ j <= j - 0 /\ j <= j
    BY <1>1
  <2>2. P(0)
    BY <2>1 DEF AtLevel
  <2>3. QED
    BY <2>2
<1>3. ASSUME NEW e \in Nat, e \in D PROVE e + 1 \in D
  <2> SUFFICES ASSUME c + (e + 1) <= m PROVE P(e + 1)
    OBVIOUS
  <2> DEFINE d == c + e
             x == c + (e + 1)
             s == w[d]
             r == w[x]
  <2>1. d \in 0 .. m /\ x \in 1 .. m /\ x - 1 = d /\ d <= m
    BY <1>1
  <2>2. s \in SearchStates(T, E) /\ r = SearchStep(s, a, software)
    BY <2>1 DEF Walk
  <2>3. P(e)
    BY <1>3, <2>1
  <2> HIDE DEF d, x, s, r
  <2> SUFFICES \/ r.found = "nothing"
               \/ r.found = "node" /\ \E i \in Levels : i <= j - (e + 1) /\ AtLevel(r, i)
               \/ r.found \in {"leaf", "transit"} /\ \E i \in Levels : i <= j /\ AtLevel(r, i)
    BY DEF r, x
  <2>4. CASE s.found = "node"
    <3>1. PICK i \in Levels : i <= j - e /\ AtLevel(s, i)
      BY <2>3, <2>4 DEF s, d
    <3>2. \/ r.found = "nothing"
          \/ r.found = "node" /\ \E l \in Levels : l < i /\ AtLevel(r, l)
          \/ r.found \in {"leaf", "transit"} /\ AtLevel(r, i)
      BY <2>2, <2>4, <3>1, SearchStepKeeps
    <3>3. \A l \in Levels : l < i => l <= j - (e + 1)
      BY <1>1, <3>1
    <3>4. i <= j
      BY <1>1, <3>1
    <3>5. QED
      BY <3>2, <3>3, <3>4
  <2>5. CASE s.found # "node"
    <3>1. r = s
      BY <2>2, <2>5, SearchStepKeeps
    <3>2. QED
      BY <2>3, <2>5, <3>1 DEF s, d
  <2>6. QED
    BY <2>4, <2>5
<1>4. Nat \subseteq D
  <2> HIDE DEF D
  <2>1. QED BY <1>2, <1>3, NatInd
<1>5. ASSUME NEW d \in c .. m
      PROVE  \/ w[d].found = "nothing"
             \/ w[d].found = "node" /\ \E i \in Levels : i <= j - (d - c) /\ AtLevel(w[d], i)
             \/ w[d].found \in {"leaf", "transit"} /\ \E i \in Levels : i <= j /\ AtLevel(w[d], i)
  <2>1. d - c \in D /\ c + (d - c) = d /\ d <= m
    <3> HIDE DEF D, m
    <3>1. QED
      BY <1>1, <1>4
  <2>2. P(d - c)
    BY <2>1
  <2>3. QED
    BY <2>1, <2>2
<1>6. QED
  BY <1>5 DEF GoesDown

\* A search ends with a leaf, a transit entry or nothing.
LEMMA SearchType ==
  ASSUME NEW T, NEW E, Closed(T, E), NEW n \in NodesOf(T), NEW a, NEW software \in BOOLEAN
  PROVE  Search(n, a, software) \in Leaves(E) \cup Transits(T) \cup {NoLeaf}
<1> DEFINE m == Len(Sizes)
<1>1. PICK w \in [0 .. m -> SearchStates(T, E)] :
        Walk(w, n, a, software) /\ Search(n, a, software) = w[m]
  BY SearchWalks DEF Walks
<1>2. PICK j \in Levels : NodeAt(n, j, T, E)
  BY DEF NodesOf, Closed
<1>3. AtLevel(w[0], j)
  BY <1>1, <1>2 DEF Walk, AtNode, AtLevel, NodeAt
<1>4. m \in Nat /\ 0 \in 0 .. m /\ m \in 0 .. m /\ \A i \in Levels : i \in Nat /\ i >= 1 /\ i <= m
  BY SizesAre DEF Levels
<1>5. w[m].found # "node"
  <2> SUFFICES ASSUME w[m].found = "node" PROVE FALSE
    OBVIOUS
  <2>1. \E i \in Levels : i <= j - (m - 0) /\ AtLevel(w[m], i)
    BY <1>1, <1>3, <1>4, WalkGoesDown DEF GoesDown
  <2>2. QED
    BY <1>4, <2>1
<1>6. QED
  BY <1>1, <1>4, <1>5 DEF SearchStates, Found

-----------------------------------------------------------------------------
(* What the hardware may map                                                 *)

\* A page that TLB_refill loads as valid is part of a block, with its flags.
LEMMA DirectIs ==
  ASSUME NEW list \in Seq(Blocks), NEW l \in Seq(EntriesOf(list)),
         \A e \in ToSet(l) : PhysAligned(e),
         NEW a \in Nat, Direct(SearchTable(Tree(l), a), a)
  PROVE  LET f == SearchTable(Tree(l), a) IN
         \E r \in ToSet(list) :
           /\ HalfAt(f, a).half.flags = r.flags
           /\ DirectAddress(f, a) >= r.phys /\ DirectAddress(f, a) < r.phys + r.size
           /\ DirectAddress(f, a) \in Nat
<1> DEFINE f == SearchTable(Tree(l), a)
           e == f.leaf
           h == HalfAt(f, a).half
           within == HalfAt(f, a).within
           E == ToSet(l)
<1>1. PICK T : Closed(T, E) /\ Tree(l) \in T /\ IsNode(Tree(l))
  BY TreeType
<1>2. f \in Leaves(E) \cup Transits(T) \cup {NoLeaf}
  BY <1>1, SearchType DEF SearchTable, NodesOf
<1>3. f.found = "leaf" /\ h # None /\ "e" \notin h.flags
  BY DEF Direct
<1> HIDE DEF f
<1>4. f \in Leaves(E)
  BY <1>2, <1>3 DEF Transits, NoLeaf
<1>5. /\ e \in E \cup {EmptyEntry} /\ f.slot \in Slots
      /\ e = EmptyEntry \/ e.size = f.slot \/ Tiny(e)
  BY <1>4 DEF Leaves
<1> DEFINE offset == a % f.slot
           low == offset < f.slot \div 2
<1>6. h = (IF low THEN e.lo ELSE e.hi) /\ within = IF low THEN offset ELSE offset - f.slot \div 2
  BY DEF HalfAt
<1>7. h \in {e.lo, e.hi}
  BY <1>6
<1>8. e # EmptyEntry
  BY <1>3, <1>7 DEF EmptyEntry, Entry
<1>9. e \in E /\ e \in EntriesOf(list) /\ PhysAligned(e)
  BY <1>5, <1>8 DEF ToSet
<1>10. ~Tiny(e)
  BY <1>3, <1>7 DEF Tiny, Emulated
<1>11. e.size = f.slot
  BY <1>5, <1>8, <1>10
<1>12. PICK z \in Nat : EntryOf(e, z, list)
  BY <1>9 DEF EntriesOf
<1>13. f.slot \in Nat /\ f.slot > 0 /\ f.slot = 2 * z
  <2>1. f.slot \in Nat /\ f.slot > 0
    <3>1. \A i \in Levels : 2 * Sizes[i] \in Nat /\ 2 * Sizes[i] > 0
      BY SizesAre
    <3>2. QED
      BY <1>5, <3>1 DEF Slots
  <2>2. QED
    BY <1>11, <1>12, <2>1 DEF EntryOf
<1>14. f.slot \div 2 = z /\ z > 0
  <2>1. \A y \in Nat : (2 * y) \div 2 = y
    OBVIOUS
  <2>2. QED
    BY <1>13, <2>1
<1>15. within \in 0 .. z - 1
  <2> DEFINE n == f.slot
  <2> HIDE DEF n
  <2>1. a % n \in 0 .. n - 1 /\ n = 2 * z
    BY <1>13 DEF n
  <2>2. offset = a % n
    BY DEF n
  <2> HIDE DEF offset
  <2>3. within = IF offset < z THEN offset ELSE offset - z
    BY <1>6, <1>14
  <2> HIDE DEF within
  <2>4. QED
    BY <2>1, <2>2, <2>3
<1>16. h.phys % z = 0
  BY <1>3, <1>7, <1>9, <1>11, <1>14 DEF PhysAligned
<1>17. h \in Halves
  BY <1>3, <1>7, <1>9 DEF EntriesOf, EntryRecords
<1>18. PICK b \in Nat : HalfIsPart(h, b, z, list)
  <2>1. e.addr \in Nat /\ e.addr + z \in Nat
    BY <1>9 DEF EntriesOf, EntryRecords
  <2>2. QED
    BY <1>7, <1>12, <2>1 DEF EntryOf
<1>19. PICK r \in ToSet(list) :
         /\ h.flags = r.flags /\ b >= r.addr /\ b + z <= r.addr + r.size
         /\ h.phys - b = r.phys - r.addr
  BY <1>3, <1>18 DEF HalfIsPart
<1>20. r.addr \in Nat /\ r.size \in Nat /\ r.phys \in Nat
  <2>1. r \in Blocks
    BY DEF ToSet
  <2>2. QED
    BY <2>1 DEF Blocks
<1>21. DirectAddress(f, a) = h.phys + within
  <2>1. h.phys \in Nat
    BY <1>17 DEF Halves
  <2>2. Down(h.phys, z) = h.phys
    BY <1>16, <2>1 DEF Down
  <2>3. DirectAddress(f, a) = Down(h.phys, z) + within
    BY <1>14 DEF DirectAddress
  <2>4. QED
    BY <2>2, <2>3
<1> DEFINE p == h.phys
           o == r.phys
           n == r.size
           c == r.addr
<1>22. p \in Nat /\ o \in Nat /\ n \in Nat /\ c \in Nat /\ b >= c /\ b + z <= c + n /\ p - b = o - c
  BY <1>17, <1>19, <1>20 DEF Halves
<1>23. p + within >= o /\ p + within < o + n /\ p + within \in Nat
  <2> HIDE DEF p, o, n, c, within
  <2>1. QED
    BY <1>14, <1>15, <1>22
<1>24. QED
  <2>1. f = SearchTable(Tree(l), a)
    BY DEF f
  <2>2. QED
    BY <1>19, <1>21, <1>23, <2>1

-----------------------------------------------------------------------------
(* The script                                                                *)

BlocksOfVm(v) == SmallBlocks(regions[v])

EntriesOfVm(v) == Join(Split(BlocksOfVm(v)))

ScriptTypeOK ==
  /\ regions \in Configurations
  /\ todo \subseteq Vms /\ (stage = "lists" => todo = Vms)
  /\ DOMAIN pages = Vms /\ DOMAIN entries = Vms /\ DOMAIN tree = Vms

\* The script has made v's tables; Made says so too.
HasTables(v) == Made(v) \/ stage = "done" \/ (stage = "tables" /\ v \notin todo)

\* The lists are checked for all VMs before any has its tables made of them.
ListsAreChecked ==
  stage = "tables" \/ (\E v \in Vms : HasTables(v)) =>
    /\ \A v \in Vms : BlocksOfVm(v) # None
    /\ Unique([v \in Vms |-> BlocksOfVm(v)])

ListsAreKept == stage = "tables" => \A v \in todo : pages[v] = BlocksOfVm(v)

TreesAreTables ==
  \A v \in Vms : HasTables(v) =>
    /\ Split(BlocksOfVm(v)) # None /\ \A e \in ToSet(EntriesOfVm(v)) : PhysAligned(e)
    /\ tree[v] = Tree(EntriesOfVm(v))

ScriptInv == ScriptTypeOK /\ ListsAreChecked /\ ListsAreKept /\ TreesAreTables

\* The script starts with nothing made.
LEMMA ScriptInvInit == ScriptInit => ScriptInv
BY DEF ScriptInit, ScriptInv, ScriptTypeOK, ListsAreChecked, ListsAreKept, TreesAreTables,
       HasTables, Made

\* Each step of the script makes the tables of the lists it was given.
LEMMA ScriptInvNext == ScriptInv /\ [ScriptNext]_script => ScriptInv'
<1> SUFFICES ASSUME ScriptInv, [ScriptNext]_script PROVE ScriptInv'
  OBVIOUS
<1> USE DEF ScriptInv
<1>1. CASE CreateLists
  <2>1. stage = "lists" /\ UNCHANGED <<regions, entries, tree, todo>>
        /\ pages' = [v \in Vms |-> BlocksOfVm(v)]
    BY <1>1 DEF CreateLists, BlocksOfVm
  <2>2. stage' = IF (\E v \in Vms : pages'[v] = None) \/ ~Unique(pages') THEN "exit" ELSE "tables"
    BY <1>1 DEF CreateLists
  <2>3. ScriptTypeOK'
    BY <2>1, <2>2 DEF ScriptTypeOK
  <2>4. \A v \in Vms : /\ HasTables(v)' => HasTables(v)
                       /\ BlocksOfVm(v)' = BlocksOfVm(v) /\ EntriesOfVm(v)' = EntriesOfVm(v)
    BY <2>1, <2>2 DEF ScriptTypeOK, HasTables, Made, BlocksOfVm, EntriesOfVm
  <2>5. TreesAreTables'
    BY <2>1, <2>4 DEF TreesAreTables
  <2>6. ListsAreKept'
    BY <2>1 DEF ListsAreKept, ScriptTypeOK, BlocksOfVm
  <2>7. ListsAreChecked'
    <3>1. CASE stage' = "tables"
      <4>1. /\ \A v \in Vms : pages'[v] # None
            /\ Unique(pages')
        BY <2>2, <3>1
      <4>2. QED
        BY <2>1, <2>4, <4>1 DEF ListsAreChecked, Unique
    <3>2. CASE stage' # "tables"
      BY <2>4, <3>2 DEF ListsAreChecked, Unique
    <3>3. QED
      BY <3>1, <3>2
  <2>8. QED
    BY <2>3, <2>5, <2>6, <2>7
<1>2. ASSUME NEW v \in Vms, CreateTables(v) PROVE ScriptInv'
  <2>1. /\ stage = "tables" /\ v \in todo /\ todo' = todo \ {v} /\ regions' = regions
        /\ pages' = [pages EXCEPT ![v] = Split(@)]
        /\ entries' = IF pages'[v] = None THEN entries
                      ELSE [entries EXCEPT ![v] = Join(pages'[v])]
    BY <1>2 DEF CreateTables
  <2>2. \/ /\ pages'[v] # None /\ \A e \in ToSet(entries'[v]) : PhysAligned(e)
           /\ tree' = [tree EXCEPT ![v] = Tree(entries'[v])]
        \/ tree' = tree /\ stage' = "exit"
    BY <1>2 DEF CreateTables
  <2>3. /\ stage' \in {"tables", "done", "exit"} /\ (stage' = "done" => todo = {v})
    BY <1>2 DEF CreateTables
  <2>4. pages[v] = BlocksOfVm(v) /\ v \in DOMAIN pages /\ v \in DOMAIN entries
    BY <2>1 DEF ListsAreKept, ScriptTypeOK
  <2>5. pages'[v] = Split(BlocksOfVm(v)) /\ (pages'[v] # None => entries'[v] = EntriesOfVm(v))
    BY <2>1, <2>4 DEF EntriesOfVm
  <2>6. \A w \in Vms : BlocksOfVm(w)' = BlocksOfVm(w) /\ EntriesOfVm(w)' = EntriesOfVm(w)
    BY <2>1 DEF BlocksOfVm, EntriesOfVm
  <2>7. ScriptTypeOK'
    BY <2>1, <2>2, <2>3 DEF ScriptTypeOK
  <2>8. ListsAreChecked'
    BY <2>1, <2>6 DEF ListsAreChecked, Unique
  <2>9. ListsAreKept'
    <3>1. \A w \in todo' : w \in todo /\ w # v
      BY <2>1
    <3>2. QED
      BY <2>1, <2>6, <3>1 DEF ListsAreKept, ScriptTypeOK
  <2>10. TreesAreTables'
    <3>1. ASSUME NEW w \in Vms, w # v \/ tree' = tree
          PROVE  tree'[w] = tree[w]
      BY <2>2, <3>1 DEF ScriptTypeOK
    <3>2. CASE tree' = tree /\ stage' = "exit"
      <4>1. \A w \in Vms : HasTables(w)' => HasTables(w)
        BY <3>2 DEF HasTables, Made
      <4>2. QED
        BY <2>6, <3>2, <4>1 DEF TreesAreTables
    <3>3. CASE /\ pages'[v] # None /\ \A e \in ToSet(entries'[v]) : PhysAligned(e)
               /\ tree' = [tree EXCEPT ![v] = Tree(entries'[v])]
      <4>1. tree'[v] = Tree(EntriesOfVm(v)) /\ Split(BlocksOfVm(v)) # None
            /\ \A e \in ToSet(EntriesOfVm(v)) : PhysAligned(e)
        BY <2>5, <3>3 DEF ScriptTypeOK
      <4>2. ASSUME NEW w \in Vms, HasTables(w)'
            PROVE  /\ Split(BlocksOfVm(w)) # None /\ \A e \in ToSet(EntriesOfVm(w)) : PhysAligned(e)
                   /\ tree'[w] = Tree(EntriesOfVm(w))
        <5>1. CASE w = v
          BY <4>1, <5>1
        <5>2. CASE w # v
          <6>1. tree'[w] = tree[w]
            BY <3>1, <5>2
          <6>2. HasTables(w)
            BY <2>1, <2>3, <4>2, <5>2, <6>1 DEF HasTables, Made
          <6>3. QED
            BY <6>1, <6>2 DEF TreesAreTables
        <5>3. QED
          BY <5>1, <5>2
      <4>3. QED
        BY <2>6, <4>2 DEF TreesAreTables
    <3>4. QED
      BY <2>2, <3>2, <3>3
  <2>11. QED
    BY <2>7, <2>8, <2>9, <2>10
<1>3. CASE UNCHANGED script
  <2>1. stage' = stage /\ regions' = regions /\ pages' = pages /\ entries' = entries
        /\ tree' = tree /\ todo' = todo
    BY <1>3 DEF script
  <2>2. QED
    BY <2>1 DEF ScriptTypeOK, ListsAreChecked, ListsAreKept, TreesAreTables, HasTables, Made, BlocksOfVm,
                EntriesOfVm, Unique
<1>4. QED
  BY <1>1, <1>2, <1>3 DEF ScriptNext

\* A VM's blocks and entries, once its tables are made.
LEMMA TablesOf ==
  ASSUME ScriptInv, NEW v \in Vms, HasTables(v)
  PROVE  /\ BlocksOfVm(v) \in Seq(Blocks)
         /\ EntriesOfVm(v) \in Seq(EntriesOf(BlocksOfVm(v)))
         /\ \A e \in ToSet(EntriesOfVm(v)) : PhysAligned(e)
         /\ tree[v] = Tree(EntriesOfVm(v))
<1>1. regions[v] \in Seq(Regions)
  BY ConfiguratorAssumption DEF ScriptInv, ScriptTypeOK
<1>2. BlocksOfVm(v) # None
  BY DEF ScriptInv, ListsAreChecked
<1>3. BlocksOfVm(v) \in Seq(Blocks)
  <2>1. BlocksOfVm(v) \in Seq(BlocksOf(regions[v]))
    BY <1>1, <1>2, SmallBlocksType DEF BlocksOfVm
  <2>2. BlocksOf(regions[v]) \subseteq Blocks
    BY DEF BlocksOf
  <2>3. QED
    BY <2>1, <2>2
<1>4. /\ Split(BlocksOfVm(v)) # None
      /\ \A e \in ToSet(EntriesOfVm(v)) : PhysAligned(e)
      /\ tree[v] = Tree(EntriesOfVm(v))
  BY DEF ScriptInv, TreesAreTables
<1>5. Split(BlocksOfVm(v)) \in Seq(PagesOf(BlocksOfVm(v)))
  BY <1>3, <1>4, SplitType
<1>6. EntriesOfVm(v) \in Seq(EntriesOf(BlocksOfVm(v)))
  BY <1>3, <1>5, JoinType DEF EntriesOfVm
<1>7. QED
  BY <1>3, <1>4, <1>6

\* Blocks of two VMs that hold one physical word are compatible.
LEMMA SharedIsCompatible ==
  ASSUME ScriptInv, NEW v \in Vms, NEW w \in Vms, v # w, HasTables(v), HasTables(w),
         NEW r \in ToSet(BlocksOfVm(v)), NEW q \in ToSet(BlocksOfVm(w)), NEW pa \in Nat,
         pa >= r.phys, pa < r.phys + r.size, pa >= q.phys, pa < q.phys + q.size,
         "w" \in r.flags
  PROVE  "s" \in r.flags \cup q.flags
<1> DEFINE lists == [u \in Vms |-> BlocksOfVm(u)]
<1>1. PICK i \in DOMAIN lists[v] : lists[v][i] = r
  BY DEF ToSet
<1>2. PICK j \in DOMAIN lists[w] : lists[w][j] = q
  BY DEF ToSet
<1>3. Unique(lists)
  BY DEF ScriptInv, ListsAreChecked
<1>4. Overlaps(r, q) => Compatible(r.flags, q.flags)
  BY <1>1, <1>2, <1>3 DEF Unique
<1>5. Overlaps(q, r) => Compatible(q.flags, r.flags)
  BY <1>1, <1>2, <1>3 DEF Unique
<1>6. r.phys \in Nat /\ q.phys \in Nat /\ r.size \in Nat /\ q.size \in Nat
  <2>1. r \in Blocks /\ q \in Blocks
    BY TablesOf DEF ToSet
  <2>2. QED
    BY <2>1 DEF Blocks
<1>7. Overlaps(r, q) \/ Overlaps(q, r)
  <2>1. CASE q.phys >= r.phys
    <3>1. q.phys < r.phys + r.size
      BY <1>6
    <3>2. QED
      BY <2>1, <3>1 DEF Overlaps
  <2>2. CASE r.phys >= q.phys
    <3>1. r.phys < q.phys + q.size
      BY <1>6
    <3>2. QED
      BY <2>2, <3>1 DEF Overlaps
  <2>3. QED
    BY <1>6, <2>1, <2>2
<1>8. QED
  BY <1>4, <1>5, <1>7 DEF Compatible

\* With these tables the guests are apart.
LEMMA ApartOfInv == ScriptInv => GuestsApart
<1> SUFFICES ASSUME ScriptInv PROVE GuestsApart
  OBVIOUS
<1> DEFINE Mapped(v) == {a \in Addresses : Direct(SearchTable(tree[v], a), a)}
           At(v, a) == LET f == SearchTable(tree[v], a)
                       IN  [pa |-> DirectAddress(f, a), flags |-> HalfAt(f, a).half.flags]
           direct == [v \in Vms |-> IF ~Made(v) THEN {} ELSE {At(v, a) : a \in Mapped(v)}]
<1>1. ASSUME NEW v \in Vms, NEW x \in direct[v]
      PROVE  /\ Made(v) /\ x.pa \in Nat
             /\ \E r \in ToSet(BlocksOfVm(v)) :
                  x.flags = r.flags /\ x.pa >= r.phys /\ x.pa < r.phys + r.size
  <2>1. Made(v)
    BY <1>1
  <2>2. PICK a \in Mapped(v) : x = At(v, a)
    BY <1>1, <2>1
  <2> DEFINE l == EntriesOfVm(v)
             f == SearchTable(Tree(l), a)
  <2>3. a \in Nat /\ Direct(SearchTable(tree[v], a), a)
    BY PageTablesAssumption DEF Addresses
  <2>4. /\ BlocksOfVm(v) \in Seq(Blocks) /\ l \in Seq(EntriesOf(BlocksOfVm(v)))
        /\ \A e \in ToSet(l) : PhysAligned(e)
        /\ tree[v] = Tree(l)
    BY <2>1, TablesOf DEF HasTables
  <2>5. x.pa = DirectAddress(f, a) /\ x.flags = HalfAt(f, a).half.flags
    BY <2>2, <2>4
  <2>6. Direct(SearchTable(Tree(l), a), a)
    BY <2>3, <2>4
  <2> HIDE DEF l
  <2>7. \E r \in ToSet(BlocksOfVm(v)) :
           /\ HalfAt(f, a).half.flags = r.flags
           /\ DirectAddress(f, a) >= r.phys /\ DirectAddress(f, a) < r.phys + r.size
           /\ DirectAddress(f, a) \in Nat
    BY <2>3, <2>4, <2>6, DirectIs
  <2> HIDE DEF f, At, Mapped
  <2>8. QED
    BY <2>1, <2>5, <2>7
<1>2. GuestsApart =
        \A v, w \in Vms : v # w =>
          \A x \in direct[v], y \in direct[w] :
            x.pa = y.pa /\ "w" \in x.flags => "s" \in x.flags \cup y.flags
  BY DEF GuestsApart
<1> HIDE DEF direct
<1>3. SUFFICES ASSUME NEW v \in Vms, NEW w \in Vms, v # w,
                      NEW x \in direct[v], NEW y \in direct[w], x.pa = y.pa, "w" \in x.flags
               PROVE  "s" \in x.flags \cup y.flags
  BY <1>2
<1>4. PICK r \in ToSet(BlocksOfVm(v)) :
        x.flags = r.flags /\ x.pa >= r.phys /\ x.pa < r.phys + r.size
  BY <1>1
<1>5. PICK q \in ToSet(BlocksOfVm(w)) :
        y.flags = q.flags /\ y.pa >= q.phys /\ y.pa < q.phys + q.size
  BY <1>1
<1>6. Made(v) /\ Made(w) /\ x.pa \in Nat
  BY <1>1
<1>7. "s" \in r.flags \cup q.flags
  BY <1>3, <1>4, <1>5, <1>6, SharedIsCompatible DEF HasTables
<1>8. QED
  BY <1>4, <1>5, <1>7

\* For any configurations: what the script leaves of a VM is the tree of the entries
\* of the pages of its blocks, and no VM's tables are made before the blocks of all are
\* checked (create_pte_lists, then create_pte_tree, in the main program of vz-conf.py).
THEOREM TablesAreOfTheLists == RunSpec => []ScriptInv
<1>1. RunInit => ScriptInv
  BY ScriptInvInit DEF RunInit
<1>2. ScriptInv /\ [RunNext]_<<script, caches>> => ScriptInv'
  <2> SUFFICES ASSUME ScriptInv, [RunNext]_<<script, caches>> PROVE [ScriptNext]_script
    BY ScriptInvNext
  <2>1. QED
    BY DEF RunNext, Access
<1>3. QED
  BY <1>1, <1>2, PTL DEF RunSpec

\* Physical memory that one VM reaches directly with write permission is not reached
\* directly by another one, unless one of the two regions is shared: for any page sizes,
\* any regions, aligned or not, and any number of VMs (check_uniq_address_range and all
\* that is done to the regions after it).
THEOREM GuestsAreApart == RunSpec => []GuestsApart
BY TablesAreOfTheLists, ApartOfInv, PTL

-----------------------------------------------------------------------------
(* Addresses of one block                                                    *)

\* Quotient and remainder are unique.
LEMMA DivUnique ==
  ASSUME NEW y \in Nat, y > 0, NEW u \in Nat, NEW v \in 0 .. y - 1
  PROVE  (y * u + v) % y = v /\ (y * u + v) \div y = u
<1> DEFINE a == y * u + v
           q == a \div y
           r == a % y
<1>1. a \in Nat /\ y * u \in Nat
  OBVIOUS
<1>2. a = y * q + r /\ q \in Nat /\ r \in 0 .. y - 1
  <2> HIDE DEF a
  <2>1. QED
    BY <1>1
<1>3. y * q + r = y * u + v
  BY <1>2
<1> HIDE DEF a, q, r
<1>4. ASSUME NEW m \in Nat, NEW n \in Nat, m < n PROVE y * n >= y * m + y
  <2>1. PICK d \in Nat : n = (m + 1) + d
    <3>1. n - (m + 1) \in Nat /\ n = (m + 1) + (n - (m + 1))
      BY <1>4
    <3>2. QED
      BY <3>1
  <2>2. y * ((m + 1) + d) = (y * m + y) + y * d
    OBVIOUS
  <2>3. y * d \in Nat /\ y * m \in Nat
    OBVIOUS
  <2>4. QED
    BY <2>1, <2>2, <2>3
<1>5. q = u
  <2>1. y * q \in Nat /\ y * u \in Nat
    BY <1>2
  <2>2. q < u => y * u >= y * q + y
    BY <1>2, <1>4
  <2>3. u < q => y * q >= y * u + y
    BY <1>2, <1>4
  <2>4. ~(q < u) /\ ~(u < q)
    BY <1>2, <1>3, <2>1, <2>2, <2>3
  <2>5. QED
    BY <1>2, <2>4
<1>6. r = v
  <2>1. y * u \in Nat
    OBVIOUS
  <2>2. y * u + r = y * u + v
    BY <1>3, <1>5
  <2>3. QED
    BY <1>2, <2>1, <2>2
<1>7. QED
  BY <1>5, <1>6 DEF a, q, r

\* Blocks of k * z words, of which m * z words hold some, are blocks of blocks.
InBlocks(a, z, m, k) ==
  /\ (a % (m * z)) \div (k * z) = ((a \div z) % m) \div k
  /\ a \div (k * z) = (a \div z) \div k

\* The number of the larger block, and the place in it, by the smaller ones.
LEMMA DivIs ==
  ASSUME NEW z \in Nat, z > 0, NEW m \in Nat, m >= 1, NEW k \in Nat, k >= 1, NEW a \in Nat
  PROVE  InBlocks(a, z, m, k)
<1> DEFINE q == a \div z
           r == a % z
           u == q \div m
           s == q % m
<1>1. a = z * q + r /\ q \in Nat /\ r \in 0 .. z - 1
  OBVIOUS
<1> HIDE DEF q, r
<1>2. q = m * u + s /\ u \in Nat /\ s \in 0 .. m - 1
  BY <1>1
<1> HIDE DEF u, s
<1>3. ASSUME NEW c \in Nat, NEW n \in Nat, n >= 1, NEW p \in Nat, NEW x \in 0 .. n - 1, c = n * p + x
      PROVE  z * c + r = (n * z) * p + (z * x + r) /\ z * x + r \in 0 .. (n * z) - 1
             /\ n * z \in Nat /\ n * z > 0
  <2>1. z * (n * p + x) = (n * z) * p + z * x
    OBVIOUS
  <2>2. z * c + r = (n * z) * p + (z * x + r)
    <3>1. z * x \in Nat /\ (n * z) * p \in Nat
      OBVIOUS
    <3>2. QED
      BY <1>1, <1>3, <2>1, <3>1
  <2>3. PICK d \in Nat : n = (x + 1) + d
    <3>1. n - (x + 1) \in Nat /\ n = (x + 1) + (n - (x + 1))
      BY <1>3
    <3>2. QED
      BY <3>1
  <2>4. ((x + 1) + d) * z = (z * x + z) + d * z
    OBVIOUS
  <2>5. z * x \in Nat /\ d * z \in Nat
    OBVIOUS
  <2>6. n * z = (z * x + z) + d * z
    BY <2>3, <2>4
  <2> DEFINE e == z * x
             f == d * z
             y == n * z
  <2>7. e \in Nat /\ f \in Nat /\ y = (e + z) + f
    BY <2>5, <2>6
  <2> HIDE DEF e, f, y
  <2>8. e + r \in 0 .. y - 1 /\ y \in Nat /\ y > 0
    BY <1>1, <2>7
  <2>9. QED
    BY <2>2, <2>8 DEF e, y
<1>4. a % (m * z) = z * s + r
  <2> DEFINE y == m * z
             v == z * s + r
  <2>1. a = y * u + v /\ v \in 0 .. y - 1 /\ y \in Nat /\ y > 0
    BY <1>1, <1>2, <1>3
  <2> HIDE DEF y, v
  <2>2. (y * u + v) % y = v
    BY <1>2, <2>1, DivUnique
  <2>3. QED
    BY <2>1, <2>2 DEF y, v
<1>5. ASSUME NEW c \in Nat PROVE (z * c + r) \div (k * z) = c \div k
  <2> DEFINE t == c \div k
             x == c % k
             y == k * z
             v == z * x + r
  <2>1. c = k * t + x /\ t \in Nat /\ x \in 0 .. k - 1
    OBVIOUS
  <2> HIDE DEF t, x
  <2>2. z * c + r = y * t + v /\ v \in 0 .. y - 1 /\ y \in Nat /\ y > 0
    BY <1>3, <2>1
  <2> HIDE DEF y, v
  <2>3. (y * t + v) \div y = t
    BY <2>1, <2>2, DivUnique
  <2>4. QED
    BY <2>2, <2>3 DEF y, t
<1>6. (z * s + r) \div (k * z) = s \div k
  <2>1. s \in Nat
    BY <1>2
  <2>2. QED
    BY <1>5, <2>1, Zenon
<1>7. (z * q + r) \div (k * z) = q \div k
  BY <1>1, <1>5, Zenon
<1>8. QED
  BY <1>1, <1>4, <1>6, <1>7, Zenon DEF InBlocks, s, q

\* Two addresses in one block of z words.
Together(a, b, z) == a \in Nat /\ b \in Nat /\ a \div z = b \div z

\* Addresses with the same lower bound are in one block.
LEMMA DownTogether ==
  ASSUME NEW a \in Nat, NEW b \in Nat, NEW z \in Nat, z > 0
  PROVE  Down(a, z) = Down(b, z) => Together(a, b, z)
<1> DEFINE q == a \div z
           p == b \div z
<1>1. a = z * q + (a % z) /\ q \in Nat /\ b = z * p + (b % z) /\ p \in Nat
      /\ a % z \in Nat /\ b % z \in Nat
  OBVIOUS
<1> HIDE DEF q, p
<1>2. z * q \in Nat /\ z * p \in Nat
  BY <1>1
<1>3. Down(a, z) = z * q /\ Down(b, z) = z * p
  <2> DEFINE x == z * q
             y == z * p
             c == a % z
             d == b % z
  <2>1. x \in Nat /\ y \in Nat /\ c \in Nat /\ d \in Nat /\ a = x + c /\ b = y + d
    BY <1>1, <1>2
  <2> HIDE DEF x, y, c, d
  <2>2. a - c = x /\ b - d = y
    BY <2>1
  <2>3. QED
    BY <2>2 DEF Down, x, y, c, d
<1>4. z * q = z * p => q = p
  <2>1. q < p => z * p >= z * q + z
    <3> SUFFICES ASSUME q < p PROVE z * p >= z * q + z
      OBVIOUS
    <3>1. PICK d \in Nat : p = (q + 1) + d
      <4>1. p - (q + 1) \in Nat /\ p = (q + 1) + (p - (q + 1))
        BY <1>1
      <4>2. QED
        BY <4>1
    <3>2. z * ((q + 1) + d) = (z * q + z) + z * d /\ z * d \in Nat
      BY <1>1
    <3>3. QED
      BY <1>2, <3>1, <3>2
  <2>2. p < q => z * q >= z * p + z
    <3> SUFFICES ASSUME p < q PROVE z * q >= z * p + z
      OBVIOUS
    <3>1. PICK d \in Nat : q = (p + 1) + d
      <4>1. q - (p + 1) \in Nat /\ q = (p + 1) + (q - (p + 1))
        BY <1>1
      <4>2. QED
        BY <4>1
    <3>2. z * ((p + 1) + d) = (z * p + z) + z * d /\ z * d \in Nat
      BY <1>1
    <3>3. QED
      BY <1>2, <3>1, <3>2
  <2>3. QED
    BY <1>1, <1>2, <2>1, <2>2
<1>5. QED
  BY <1>3, <1>4 DEF Together, q, p

\* And then in one larger block, at the same place of it.
LEMMA TogetherIs ==
  ASSUME NEW a, NEW b, NEW z \in Nat, z > 0, Together(a, b, z),
         NEW m \in Nat, m >= 1, NEW k \in Nat, k >= 1,
         NEW y, y = m * z, NEW w, w = k * z
  PROVE  (a % y) \div w = (b % y) \div w /\ Together(a, b, w)
<1>1. a \div z = b \div z /\ a \in Nat /\ b \in Nat
  BY DEF Together
<1>2. InBlocks(a, z, m, k) /\ InBlocks(b, z, m, k)
  BY <1>1, DivIs
<1>3. QED
  BY <1>1, <1>2, Zenon DEF Together, InBlocks

Multiple(x, z) == \E m \in Nat : m >= 1 /\ x = m * z

\* Multiples of multiples.
LEMMA MultipleOf ==
  ASSUME NEW z \in Nat, NEW y, NEW x, Multiple(y, z), Multiple(x, y)
  PROVE  Multiple(x, z)
<1>1. PICK k \in Nat : k >= 1 /\ y = k * z
  BY DEF Multiple
<1>2. PICK m \in Nat : m >= 1 /\ x = m * y
  BY DEF Multiple
<1>3. m * (k * z) = (m * k) * z /\ m * k \in Nat
  OBVIOUS
<1>4. m * k >= 1
  <2>1. m * k = k + (m - 1) * k /\ (m - 1) * k \in Nat
    <3>1. m - 1 \in Nat /\ m = (m - 1) + 1
      BY <1>2
    <3>2. ((m - 1) + 1) * k = k + (m - 1) * k
      OBVIOUS
    <3>3. (m - 1) * k \in Nat
      BY <3>1
    <3>4. QED
      BY <3>1, <3>2, <3>3
  <2>2. QED
    BY <1>1, <2>1
<1>5. QED
  BY <1>1, <1>2, <1>3, <1>4 DEF Multiple

\* So two addresses of one slot index every larger table alike.
LEMMA TableTogether ==
  ASSUME NEW a, NEW b, NEW z \in Nat, z > 0, Together(a, b, z),
         NEW y, Multiple(y, z), NEW w, Multiple(w, z)
  PROVE  /\ (a % y) \div w = (b % y) \div w
         /\ Together(a, b, w)
<1>1. PICK m \in Nat : m >= 1 /\ y = m * z
  BY DEF Multiple
<1>2. PICK k \in Nat : k >= 1 /\ w = k * z
  BY DEF Multiple
<1>3. QED
  BY <1>1, <1>2, TogetherIs

\* A slot is some slots of any smaller level.
LEMMA SlotMultiple ==
  ASSUME NEW i \in Levels, NEW j \in Levels, i <= j
  PROVE  Multiple(2 * Sizes[j], 2 * Sizes[i])
<1>1. i \in Nat /\ j \in Nat /\ Sizes[i] \in Nat /\ Sizes[j] \in Nat
  BY SizesAre DEF Levels
<1>2. \E m \in Nat : m >= 1 /\ Sizes[j] = m * Sizes[i]
  <2>1. CASE i = j
    BY <1>1, <2>1
  <2>2. CASE i < j
    BY <2>2, SizesGrow
  <2>3. QED
    BY <1>1, <2>1, <2>2
<1>3. PICK m \in Nat : m >= 1 /\ Sizes[j] = m * Sizes[i]
  BY <1>2
<1>4. \A x \in Nat : 2 * (m * x) = m * (2 * x)
  OBVIOUS
<1>5. 2 * Sizes[j] = m * (2 * Sizes[i])
  BY <1>1, <1>3, <1>4
<1>6. QED
  BY <1>3, <1>5 DEF Multiple

\* No page of the smallest size is quartered for the entries E.
Whole(E) == \A e \in E : ~(e.size < 2 * Smallest)

\* One step of the search finds the same for two addresses in one slot of the
\* level it comes to.
LEMMA StepTogether ==
  ASSUME NEW T, NEW E, Closed(T, E), Whole(E), NEW s \in SearchStates(T, E),
         NEW software \in BOOLEAN, NEW a, NEW b,
         NEW j \in Levels, Together(a, b, 2 * Sizes[j]),
         NEW i \in Levels, j <= i, AtLevel(SearchStep(s, a, software), i)
  PROVE  SearchStep(s, b, software) = SearchStep(s, a, software)
<1>1. CASE s.found # "node"
  BY <1>1 DEF SearchStep
<1>2. CASE s.found = "node"
  <2> DEFINE n == s.node
             k == Slot(n, a)
             r == SearchStep(s, a, software)
             z == 2 * Sizes[j]
  <2>1. n \in T /\ IsNode(n)
    BY <1>2 DEF SearchStates, Found, Leaves, Transits, NoLeaf, NodesOf
  <2>2. PICK l \in Levels : NodeAt(n, l, T, E)
    BY <2>1 DEF Closed
  <2>3. n.slot = 2 * Sizes[l] /\ AtLevel(s, l)
    BY <1>2, <2>2 DEF NodeAt, AtLevel
  <2>4. r.found # "nothing"
    BY DEF AtLevel
  <2>5. i <= l /\ i \in Nat /\ j \in Nat /\ l \in Nat
    <3>1. \/ r.found = "node" /\ \E h \in Levels : h < l /\ AtLevel(r, h)
          \/ r.found \in {"leaf", "transit"} /\ AtLevel(r, l)
      BY <1>2, <2>3, <2>4, SearchStepKeeps
    <3>2. \A h \in Levels : AtLevel(r, h) => h = i
      BY LevelIsOne DEF AtLevel
    <3>3. QED
      BY <3>1, <3>2 DEF Levels
  <2>6. z \in Nat /\ z > 0
    BY SizesAre
  <2>7. Multiple(n.slot, z)
    <3>1. j <= l
      BY <2>5
    <3>2. QED
      BY <2>3, <3>1, SlotMultiple
  <2>8. \A x : SizeAt(x, E) => Multiple(x.size, x.slot)
    BY DEF SizeAt, Whole, Multiple
  <2>9. Multiple(n.size, z)
    <3>1. Multiple(n.size, n.slot)
      BY <2>2, <2>8 DEF NodeAt
    <3>2. QED
      BY <2>6, <2>7, <3>1, MultipleOf
  <2>10. Slot(n, b) = k
    <3>1. (a % n.size) \div n.slot = (b % n.size) \div n.slot
      BY <2>6, <2>7, <2>9, TableTogether
    <3>2. QED
      BY <3>1 DEF Slot
  <2>11. k = None \/ (k \in T /\ KidAt(k, l))
    <3>1. n.kids \in Seq(T) /\ \A h \in DOMAIN n.kids : KidAt(n.kids[h], l)
      BY <2>2 DEF NodeAt
    <3>2. \A h \in DOMAIN n.kids : n.kids[h] \in T
      BY <3>1
    <3>3. QED
      BY <3>1, <3>2, SlotIs
  <2>12. r = IF k = None THEN Leaf(EmptyEntry, n.slot)
            ELSE IF IsTransit(k) /\ ~software THEN [found |-> "transit", node |-> k, under |-> n]
            ELSE IF ~IsNode(k) THEN Leaf(k, n.slot)
            ELSE IF Golden(n, k, a) THEN AtNode(k)
            ELSE NoLeaf
    BY <1>2 DEF SearchStep
  <2>13. SearchStep(s, b, software) =
            IF k = None THEN Leaf(EmptyEntry, n.slot)
            ELSE IF IsTransit(k) /\ ~software THEN [found |-> "transit", node |-> k, under |-> n]
            ELSE IF ~IsNode(k) THEN Leaf(k, n.slot)
            ELSE IF Golden(n, k, b) THEN AtNode(k)
            ELSE NoLeaf
    BY <1>2, <2>10 DEF SearchStep
  <2> HIDE DEF n, k, r, z
  <2>14. ASSUME k # None, IsNode(k), Golden(n, k, a), ~(IsTransit(k) /\ ~software)
         PROVE  Golden(n, k, b)
    <3>1. r = AtNode(k)
      BY <2>12, <2>14
    <3>2. k.slot = 2 * Sizes[i]
      BY <3>1 DEF AtLevel, AtNode, r
    <3>3. PICK h \in Levels : NodeAt(k, h, T, E)
      BY <2>11, <2>14 DEF Closed
    <3>4. Multiple(k.size, k.slot)
      BY <2>8, <3>3 DEF NodeAt
    <3>5. Multiple(k.slot, z)
      BY <3>2, SlotMultiple DEF z
    <3>6. Multiple(k.size, z)
      BY <2>6, <3>4, <3>5, MultipleOf
    <3>7. (a % n.slot) \div k.size = (b % n.slot) \div k.size
      BY <2>6, <2>7, <3>6, TableTogether DEF z
    <3>8. QED
      BY <2>14, <3>7 DEF Golden
  <2>15. CASE k # None /\ IsNode(k) /\ ~(IsTransit(k) /\ ~software) /\ ~Golden(n, k, a)
    BY <2>4, <2>12, <2>15 DEF NoLeaf, r
  <2>16. QED
    BY <2>12, <2>13, <2>14, <2>15 DEF r
<1>3. QED
  BY <1>1, <1>2

\* A search that found something is at some level.
LEMMA StateHasLevel ==
  ASSUME NEW T, NEW E, Closed(T, E), NEW s \in SearchStates(T, E), s.found # "nothing"
  PROVE  \E i \in Levels : AtLevel(s, i)
<1>1. \A n \in NodesOf(T) : \E i \in Levels : n.slot = 2 * Sizes[i]
  BY DEF NodesOf, Closed, NodeAt
<1>2. CASE s \in Found(T)
  BY <1>1, <1>2 DEF Found, AtLevel
<1>3. CASE s \in Leaves(E)
  BY <1>3 DEF Leaves, Slots, AtLevel
<1>4. CASE s \in Transits(T)
  BY <1>1, <1>4 DEF Transits, AtLevel
<1>5. QED
  BY <1>2, <1>3, <1>4 DEF SearchStates, NoLeaf

\* A search that finds something was at its level or above all the time.
LEMMA WalkStaysAbove ==
  ASSUME NEW T, NEW E, Closed(T, E), NEW n \in NodesOf(T), NEW a, NEW software \in BOOLEAN,
         NEW w \in [0 .. Len(Sizes) -> SearchStates(T, E)], Walk(w, n, a, software),
         NEW j \in Levels, AtLevel(w[Len(Sizes)], j), NEW c \in 0 .. Len(Sizes)
  PROVE  \E i \in Levels : j <= i /\ AtLevel(w[c], i)
<1> DEFINE m == Len(Sizes)
<1>1. m \in Nat /\ c \in Nat /\ c <= m /\ m \in 0 .. m /\ m \in c .. m
  BY SizesAre
<1>2. w[m].found # "nothing"
  BY DEF AtLevel
<1>3. w[c].found # "nothing"
  <2> SUFFICES ASSUME w[c].found = "nothing" PROVE FALSE
    OBVIOUS
  <2> DEFINE D == {e \in Nat : c + e <= m => w[c + e].found = "nothing"}
  <2>1. 0 \in D
    <3>1. c + 0 = c
      BY <1>1
    <3>2. QED
      BY <3>1
  <2>2. ASSUME NEW e \in Nat, e \in D PROVE e + 1 \in D
    <3> SUFFICES ASSUME c + (e + 1) <= m PROVE w[c + (e + 1)].found = "nothing"
      OBVIOUS
    <3>1. c + e \in 0 .. m /\ c + (e + 1) \in 1 .. m /\ (c + (e + 1)) - 1 = c + e /\ c + e <= m
      BY <1>1
    <3>2. w[c + (e + 1)] = SearchStep(w[c + e], a, software) /\ w[c + e].found = "nothing"
      BY <2>2, <3>1 DEF Walk
    <3>3. QED
      BY <3>2 DEF SearchStep
  <2>3. Nat \subseteq D
    <3> HIDE DEF D
    <3>1. QED BY <2>1, <2>2, NatInd
  <2>4. m - c \in D /\ c + (m - c) = m
    <3> HIDE DEF D, m
    <3>1. QED BY <1>1, <2>3
  <2>5. QED
    BY <1>1, <1>2, <2>4
<1>4. PICK i \in Levels : AtLevel(w[c], i)
  BY <1>1, <1>3, StateHasLevel
<1>5. \/ w[m].found = "node" /\ \E h \in Levels : h <= i - (m - c) /\ AtLevel(w[m], h)
      \/ w[m].found \in {"leaf", "transit"} /\ \E h \in Levels : h <= i /\ AtLevel(w[m], h)
  <2>1. GoesDown(w, c, i)
    BY <1>4, WalkGoesDown
  <2>2. QED
    BY <1>1, <1>2, <2>1 DEF GoesDown
<1>6. \A h \in Levels : AtLevel(w[m], h) => h = j
  BY LevelIsOne DEF AtLevel
<1>7. j <= i
  <2>1. i \in Nat /\ j \in Nat
    BY DEF Levels
  <2>2. j <= i - (m - c) \/ j <= i
    <3> HIDE DEF m
    <3>1. QED BY <1>5, <1>6
  <2>3. QED
    <3> HIDE DEF m
    <3>1. QED BY <1>1, <2>1, <2>2
<1>8. QED
  BY <1>4, <1>7

\* What is found for one address of a slot is found for all.
LEMMA SearchTogether ==
  ASSUME NEW T, NEW E, Closed(T, E), Whole(E), NEW n \in NodesOf(T), NEW software \in BOOLEAN,
         NEW a, NEW b, NEW j \in Levels, AtLevel(Search(n, a, software), j),
         Together(a, b, 2 * Sizes[j])
  PROVE  Search(n, b, software) = Search(n, a, software)
<1> DEFINE m == Len(Sizes)
<1>1. m \in Nat /\ m \in 0 .. m
  BY SizesAre
<1>2. PICK w \in [0 .. m -> SearchStates(T, E)] :
        Walk(w, n, a, software) /\ Search(n, a, software) = w[m]
  BY SearchWalks DEF Walks
<1>3. PICK x \in [0 .. m -> SearchStates(T, E)] :
        Walk(x, n, b, software) /\ Search(n, b, software) = x[m]
  BY SearchWalks DEF Walks
<1> DEFINE D == {d \in Nat : d <= m => x[d] = w[d]}
<1>4. 0 \in D
  BY <1>2, <1>3 DEF Walk
<1>5. ASSUME NEW d \in Nat, d \in D PROVE d + 1 \in D
  <2> SUFFICES ASSUME d + 1 <= m PROVE x[d + 1] = w[d + 1]
    OBVIOUS
  <2>1. d \in 0 .. m /\ d + 1 \in 1 .. m /\ d + 1 \in 0 .. m /\ (d + 1) - 1 = d /\ d <= m
    BY <1>1
  <2>2. /\ w[d + 1] = SearchStep(w[d], a, software) /\ w[d] \in SearchStates(T, E)
        /\ x[d + 1] = SearchStep(w[d], b, software)
    BY <1>2, <1>3, <1>5, <2>1 DEF Walk
  <2>3. PICK i \in Levels : j <= i /\ AtLevel(w[d + 1], i)
    BY <1>2, <2>1, WalkStaysAbove
  <2>4. AtLevel(SearchStep(w[d], a, software), i)
    BY <2>2, <2>3
  <2>5. SearchStep(w[d], b, software) = SearchStep(w[d], a, software)
    BY <2>2, <2>3, <2>4, StepTogether
  <2>6. QED
    BY <2>2, <2>5
<1>6. Nat \subseteq D
  <2> HIDE DEF D
  <2>1. QED BY <1>4, <1>5, NatInd
<1>7. x[m] = w[m]
  BY <1>1, <1>6
<1>8. QED
  BY <1>2, <1>3, <1>7

\* The first search looks at slots for whole pairs of pages only.
High(s) == \A i \in Levels : AtLevel(s, i) => Sizes[i] >= Base

\* The first search stops before it leaves them.
LEMMA HighStep ==
  ASSUME NEW T, NEW E, Closed(T, E), NEW s \in SearchStates(T, E), High(s), NEW a
  PROVE  High(SearchStep(s, a, FALSE))
<1> DEFINE r == SearchStep(s, a, FALSE)
<1>1. CASE s.found # "node"
  BY <1>1 DEF SearchStep
<1>2. CASE s.found = "node"
  <2>1. PICK j \in Levels : AtLevel(s, j)
    BY <1>2, StateHasLevel
  <2>2. \/ r.found = "nothing"
        \/ r.found = "node"
        \/ r.found \in {"leaf", "transit"} /\ AtLevel(r, j)
    BY <1>2, <2>1, SearchStepKeeps
  <2>3. CASE r.found = "nothing"
    BY <2>3 DEF High, AtLevel
  <2>4. CASE r.found \in {"leaf", "transit"} /\ AtLevel(r, j)
    <3>1. \A i \in Levels : AtLevel(r, i) => i = j
      BY <2>4, LevelIsOne DEF AtLevel
    <3>2. QED
      BY <2>1, <3>1 DEF High
  <2>5. CASE r.found = "node"
    <3> DEFINE k == Slot(s.node, a)
    <3>1. r = AtNode(k) /\ IsNode(k) /\ ~IsTransit(k)
      BY <1>2, <2>5 DEF SearchStep, Leaf, NoLeaf
    <3> HIDE DEF k, r
    <3>2. ~(k.slot < Base) /\ r.node = k
      BY <3>1 DEF IsTransit, AtNode
    <3>3. ASSUME NEW i \in Levels, AtLevel(r, i) PROVE Sizes[i] >= Base
      <4>1. k.slot = 2 * Sizes[i]
        BY <2>5, <3>2, <3>3 DEF AtLevel
      <4>2. PICK h \in Levels : Sizes[h] = Base
        BY PageTablesAssumption DEF Levels
      <4>3. Sizes[i] \in Nat /\ Base \in Nat /\ Sizes[i] > 0
        BY SizesAre
      <4>4. i < h => Base >= 4 * Sizes[i]
        BY <4>2, SizesGrow
      <4>5. ~(i < h)
        BY <3>2, <4>1, <4>3, <4>4
      <4>6. h < i => Sizes[i] >= 4 * Base
        BY <4>2, SizesGrow
      <4>7. i = h \/ h < i
        BY <4>5 DEF Levels
      <4>8. QED
        BY <4>2, <4>3, <4>6, <4>7
    <3>4. QED
      BY <3>3 DEF High, r
  <2>6. QED
    BY <2>2, <2>3, <2>4, <2>5
<1>3. QED
  BY <1>1, <1>2

\* So it ends at one.
LEMMA HighSearch ==
  ASSUME NEW T, NEW E, Closed(T, E), NEW n \in NodesOf(T), n.slot = 2 * Largest, NEW a
  PROVE  High(Search(n, a, FALSE))
<1> DEFINE m == Len(Sizes)
           S == {s \in SearchStates(T, E) : High(s)}
<1>1. FALSE \in BOOLEAN /\ m \in Nat
  BY SizesAre
<1>2. PICK w \in [0 .. m -> SearchStates(T, E)] :
        Walk(w, n, a, FALSE) /\ Search(n, a, FALSE) = w[m]
  <2>1. Walks(T, E, n, a, FALSE)
    BY <1>1, SearchWalks, Zenon
  <2>2. QED
    BY <2>1, Zenon DEF Walks
<1>3. w[0] \in S
  <2>1. w[0] = AtNode(n) /\ w[0] \in SearchStates(T, E)
    BY <1>1, <1>2 DEF Walk
  <2>2. \A i \in Levels : AtLevel(w[0], i) => i = m
    <3>1. \A i \in Levels : AtLevel(w[0], i) => 2 * Sizes[i] = 2 * Sizes[m]
      BY <2>1, SmallestIs DEF AtLevel, AtNode
    <3>2. QED
      BY <3>1, SmallestIs, LevelIsOne
  <2>3. Sizes[m] >= Base
    <3>1. PICK h \in Levels : Sizes[h] = Base
      BY PageTablesAssumption DEF Levels
    <3>2. h = m \/ h < m
      BY <1>1 DEF Levels
    <3>3. h < m => Sizes[m] >= 4 * Base
      BY <3>1, SmallestIs, SizesGrow
    <3>4. Sizes[m] \in Nat /\ Base \in Nat
      BY SizesAre, SmallestIs
    <3>5. QED
      BY <3>1, <3>2, <3>3, <3>4
  <2>4. QED
    BY <2>1, <2>2, <2>3 DEF High
<1>4. ASSUME NEW i \in 1 .. m, w[i - 1] \in S PROVE w[i] \in S
  <2>1. w[i] = SearchStep(w[i - 1], a, FALSE) /\ w[i] \in SearchStates(T, E)
    BY <1>1, <1>2 DEF Walk
  <2>2. QED
    BY <1>4, <2>1, HighStep
<1>5. w[m] \in S
  <2> HIDE DEF S, m
  <2>1. QED BY <1>1, <1>3, <1>4, FoldType
<1>6. QED
  BY <1>2, <1>5

\* The second search goes to the leaves.
LEMMA SoftwareSearch ==
  ASSUME NEW T, NEW E, Closed(T, E), NEW n \in NodesOf(T), NEW a
  PROVE  Search(n, a, TRUE) \in Leaves(E) \cup {NoLeaf}
<1> DEFINE m == Len(Sizes)
           S == {s \in SearchStates(T, E) : s.found # "transit"}
<1>1. TRUE \in BOOLEAN /\ m \in Nat
  BY SizesAre
<1>2. PICK w \in [0 .. m -> SearchStates(T, E)] :
        Walk(w, n, a, TRUE) /\ Search(n, a, TRUE) = w[m]
  <2>1. Walks(T, E, n, a, TRUE)
    BY <1>1, SearchWalks, Zenon
  <2>2. QED
    BY <2>1, Zenon DEF Walks
<1>3. w[0] \in S
  BY <1>1, <1>2 DEF Walk, AtNode
<1>4. ASSUME NEW i \in 1 .. m, w[i - 1] \in S PROVE w[i] \in S
  <2>1. w[i] = SearchStep(w[i - 1], a, TRUE)
    BY <1>2, Zenon DEF Walk
  <2>2. w[i] \in SearchStates(T, E)
    BY <1>1
  <2>3. SearchStep(w[i - 1], a, TRUE).found # "transit"
    BY <1>4 DEF SearchStep, Leaf, AtNode, NoLeaf
  <2>4. QED
    BY <2>1, <2>2, <2>3
<1>5. w[m] \in S
  <2> HIDE DEF S, m
  <2>1. QED BY <1>1, <1>3, <1>4, FoldType
<1>6. Search(n, a, TRUE) \in Leaves(E) \cup Transits(T) \cup {NoLeaf}
  BY <1>1, SearchType
<1>7. QED
  BY <1>2, <1>5, <1>6 DEF Transits

-----------------------------------------------------------------------------
(* The caches of do_TLB                                                      *)

\* Only one guest has regions, so one guest runs.
OneGuest(c) == \A v, w \in Vms : c[v] # <<>> /\ c[w] # <<>> => v = w

\* Its pages of the smallest size all make pairs of their own.
NoneQuartered(c) ==
  \A v \in Vms : SmallBlocks(c[v]) # None /\ Split(SmallBlocks(c[v])) # None =>
    \A e \in ToSet(Join(Split(SmallBlocks(c[v])))) : e.size >= 2 * Smallest

\* The search of a tree of whole pairs.
LEMMA TreeIs ==
  ASSUME NEW list \in Seq(Blocks), NEW l \in Seq(EntriesOf(list)),
         \A e \in ToSet(l) : e.size >= 2 * Smallest
  PROVE  \E T : Closed(T, ToSet(l)) /\ Tree(l) \in NodesOf(T) /\ Whole(ToSet(l))
                /\ Tree(l).slot = 2 * Largest
<1>1. PICK T : Closed(T, ToSet(l)) /\ Tree(l) \in T /\ IsNode(Tree(l))
  BY TreeType
<1>2. Tree(l).slot = 2 * Largest
  BY DEF Tree
<1>3. \A e \in ToSet(l) : e.size \in Nat
  BY DEF ToSet, EntriesOf, EntryRecords
<1>4. Smallest \in Nat
  BY SizesAre
<1>5. Whole(ToSet(l))
  BY <1>3, <1>4 DEF Whole
<1>6. QED
  BY <1>1, <1>2, <1>5 DEF NodesOf

\* What one address of a span finds is found by the first search for all.
LEMMA SpanFinds ==
  ASSUME NEW list \in Seq(Blocks), NEW l \in Seq(EntriesOf(list)),
         \A e \in ToSet(l) : e.size >= 2 * Smallest,
         NEW a \in Nat, NEW b \in Nat, SearchTable(Tree(l), b).found # "nothing",
         Down(a, Span(SearchTable(Tree(l), b))) = Down(b, Span(SearchTable(Tree(l), b)))
  PROVE  SearchTable(Tree(l), a) = SearchTable(Tree(l), b)
<1> DEFINE f == SearchTable(Tree(l), b)
           E == ToSet(l)
<1>1. PICK T : Closed(T, E) /\ Tree(l) \in NodesOf(T) /\ Whole(E) /\ Tree(l).slot = 2 * Largest
  BY TreeIs
<1>2. FALSE \in BOOLEAN /\ f = Search(Tree(l), b, FALSE)
        /\ SearchTable(Tree(l), a) = Search(Tree(l), a, FALSE)
  BY DEF SearchTable
<1>3. f \in Leaves(E) \cup Transits(T) \cup {NoLeaf}
  BY <1>1, <1>2, SearchType
<1>4. f \in SearchStates(T, E) /\ f.found \in {"leaf", "transit"}
  BY <1>3 DEF SearchStates, Leaves, Transits, NoLeaf
<1>5. PICK j \in Levels : AtLevel(f, j)
  BY <1>1, <1>4, StateHasLevel
<1>6. High(f)
  BY <1>1, <1>2, HighSearch
<1>7. Sizes[j] \in Nat /\ Sizes[j] >= Base /\ Base \in Nat /\ Sizes[j] > 0
  BY <1>5, <1>6, SizesAre DEF High
<1> HIDE DEF f
<1>8. Span(f) = 2 * Sizes[j]
  <2>1. (IF f.found = "transit" THEN f.under.slot ELSE f.slot) = 2 * Sizes[j]
    BY <1>4, <1>5 DEF AtLevel
  <2>2. Span(f) = AtLeast(2 * Sizes[j], 2 * Base)
    BY <2>1 DEF Span
  <2>3. QED
    BY <1>7, <2>2 DEF AtLeast
<1>9. Together(b, a, 2 * Sizes[j])
  <2> DEFINE z == 2 * Sizes[j]
  <2>1. z \in Nat /\ z > 0
    BY <1>7
  <2>2. Down(b, z) = Down(a, z)
    BY <1>8 DEF f
  <2> HIDE DEF z
  <2>3. Together(b, a, z)
    BY <2>1, <2>2, DownTogether
  <2>4. QED
    BY <2>3 DEF z
<1>10. AtLevel(Search(Tree(l), b, FALSE), j)
  BY <1>2, <1>5
<1>11. Search(Tree(l), a, FALSE) = Search(Tree(l), b, FALSE)
  BY <1>1, <1>2, <1>9, <1>10, SearchTogether
<1>12. QED
  BY <1>2, <1>11 DEF f

\* And what one address of a small slot finds by both searches.
LEMMA SmallSlotFinds ==
  ASSUME NEW list \in Seq(Blocks), NEW l \in Seq(EntriesOf(list)),
         \A e \in ToSet(l) : e.size >= 2 * Smallest,
         NEW a \in Nat, NEW b \in Nat,
         NEW f, f = SearchTable(Tree(l), b), f.found = "transit",
         NEW g, g = SearchSmall(f, b), g.found # "nothing", Down(a, g.slot) = Down(b, g.slot)
  PROVE  SearchTable(Tree(l), a) = f /\ SearchSmall(f, a) = g
<1> DEFINE E == ToSet(l)
           n == f.node
           u == f.under
<1>1. PICK T : Closed(T, E) /\ Tree(l) \in NodesOf(T) /\ Whole(E) /\ Tree(l).slot = 2 * Largest
  BY TreeIs
<1>2. FALSE \in BOOLEAN /\ TRUE \in BOOLEAN /\ f = Search(Tree(l), b, FALSE)
        /\ SearchTable(Tree(l), a) = Search(Tree(l), a, FALSE)
  BY DEF SearchTable
<1>3. f \in Leaves(E) \cup Transits(T) \cup {NoLeaf}
  <2>1. Search(Tree(l), b, FALSE) \in Leaves(E) \cup Transits(T) \cup {NoLeaf}
    <3> HIDE DEF E
    <3>1. QED
      BY <1>1, <1>2, SearchType, Zenon
  <2>2. QED
    BY <1>2, <2>1
<1>4. f \in Transits(T)
  BY <1>3 DEF Leaves, NoLeaf
<1>5. PICK i \in Levels, j \in Levels : i < j /\ n.slot = 2 * Sizes[i] /\ u.slot = 2 * Sizes[j]
  BY <1>4 DEF Transits
<1>6. n \in NodesOf(T) /\ u \in NodesOf(T)
  BY <1>4 DEF Transits
<1>7. Golden(u, n, b) /\ g = Search(n, b, TRUE)
  BY DEF SearchSmall, NoLeaf
<1>8. g \in Leaves(E)
  <2>1. g \in Leaves(E) \cup {NoLeaf}
    BY <1>1, <1>6, <1>7, SoftwareSearch
  <2>2. QED
    BY <2>1 DEF NoLeaf
<1>9. PICK h \in Levels : g.slot = 2 * Sizes[h] /\ AtLevel(g, h)
  BY <1>8 DEF Leaves, Slots, AtLevel
<1> DEFINE z == 2 * Sizes[h]
<1>10. z \in Nat /\ z > 0
  BY SizesAre
<1>11. Together(b, a, z)
  <2>1. Down(b, z) = Down(a, z)
    BY <1>9
  <2> HIDE DEF z
  <2>2. QED
    BY <1>10, <2>1, DownTogether
<1>12. Search(n, a, TRUE) = g
  <2>1. AtLevel(Search(n, b, TRUE), h)
    BY <1>7, <1>9
  <2>2. QED
    BY <1>1, <1>2, <1>6, <1>7, <1>11, <2>1, SearchTogether
<1>13. h <= i
  <2>1. PICK w \in [0 .. Len(Sizes) -> SearchStates(T, E)] :
          Walk(w, n, b, TRUE) /\ Search(n, b, TRUE) = w[Len(Sizes)]
    <3>1. Walks(T, E, n, b, TRUE)
      BY <1>1, <1>2, <1>6, SearchWalks, Zenon
    <3>2. QED
      BY <3>1, Zenon DEF Walks
  <2>2. 0 \in 0 .. Len(Sizes) /\ TRUE \in BOOLEAN
    BY SizesAre
  <2>3. AtLevel(w[Len(Sizes)], h)
    BY <1>7, <1>9, <2>1
  <2>4. PICK k \in Levels : h <= k /\ AtLevel(w[0], k)
    BY <1>1, <1>6, <2>1, <2>2, <2>3, WalkStaysAbove
  <2>5. w[0] = AtNode(n)
    BY <2>1, Zenon DEF Walk
  <2>6. n.slot = 2 * Sizes[k]
    BY <2>4, <2>5 DEF AtLevel, AtNode
  <2>7. k = i
    BY <1>5, <2>6, LevelIsOne
  <2>8. QED
    BY <2>4, <2>7
<1>14. Multiple(n.slot, z) /\ Multiple(u.slot, z)
  <2>1. h <= j
    BY <1>5, <1>13 DEF Levels
  <2>2. QED
    BY <1>5, <1>13, <2>1, SlotMultiple
<1>15. Multiple(n.size, z)
  <2>1. SizeAt(n, E)
    BY <1>1, <1>6 DEF NodesOf, Closed, NodeAt
  <2>2. Multiple(n.size, n.slot)
    BY <1>1, <2>1 DEF SizeAt, Whole, Multiple
  <2> HIDE DEF z
  <2>3. QED
    BY <1>10, <1>14, <2>2, MultipleOf
<1>16. Golden(u, n, a)
  <2>1. (b % u.slot) \div n.size = (a % u.slot) \div n.size
    <3> HIDE DEF z
    <3>1. QED
      BY <1>10, <1>11, <1>14, <1>15, TableTogether
  <2>2. QED
    BY <1>7, <2>1 DEF Golden
<1>17. SearchSmall(f, a) = g
  BY <1>12, <1>16 DEF SearchSmall
<1>18. Search(Tree(l), a, FALSE) = f
  <2>1. AtLevel(Search(Tree(l), b, FALSE), j)
    BY <1>2, <1>5 DEF AtLevel
  <2>2. Together(b, a, u.slot)
    <3> HIDE DEF z
    <3>1. QED
      BY <1>10, <1>11, <1>14, TableTogether
  <2>3. Together(b, a, 2 * Sizes[j])
    BY <1>5, <2>2
  <2>4. QED
    BY <1>1, <1>2, <2>1, <2>3, SearchTogether
<1>19. QED
  BY <1>2, <1>17, <1>18

-----------------------------------------------------------------------------
(* The caches of do_TLB                                                      *)

\* c holds what the first search finds for b, an address of v.
TableEntry(c, v, b) ==
  LET f == SearchTable(tree[v], b) IN
  /\ stage = "done" /\ regions \in Running /\ regions[v] # <<>>
  /\ f.found # "nothing" /\ c = Cached(f, Span(f), b)

\* c holds what the second one finds.
SmallEntry(c, v, b) ==
  LET f == SearchTable(tree[v], b)
      g == SearchSmall(f, b)
  IN
  /\ stage = "done" /\ regions \in Running /\ regions[v] # <<>>
  /\ f.found = "transit" /\ g.found # "nothing" /\ c = Cached(g, g.slot, b)

IsTableEntry(c) == c = Unused \/ \E v \in Vms, b \in Accessed : TableEntry(c, v, b)

IsSmallEntry(c) == c = Unused \/ \E v \in Vms, b \in Accessed : SmallEntry(c, v, b)

\* What the caches hold, the tables hold.
CachesAreOfTables ==
  /\ DOMAIN cpte_cache = Ways /\ DOMAIN sw_cpte_cache = Ways
  /\ \A i \in Ways : IsTableEntry(cpte_cache[i]) /\ IsSmallEntry(sw_cpte_cache[i])
  /\ last # None => stage = "done"
  /\ CachesAreTransparent

\* What never was filled is never hit.
LEMMA UnusedMisses ==
  ASSUME NEW a \in Nat
  PROVE  ~Hit(Unused, a)
<1>1. a % 1 = 0
  OBVIOUS
<1>2. Down(a, 1) = a
  BY <1>1 DEF Down
<1>3. QED
  BY <1>2 DEF Hit, Unused

\* The tables of a guest that runs are those of its lists.
LEMMA RunningTables ==
  ASSUME ScriptInv, stage = "done", regions \in Running,
         OneGuest(regions) /\ NoneQuartered(regions), NEW v \in Vms
  PROVE  /\ BlocksOfVm(v) \in Seq(Blocks) /\ EntriesOfVm(v) \in Seq(EntriesOf(BlocksOfVm(v)))
         /\ \A e \in ToSet(EntriesOfVm(v)) : e.size >= 2 * Smallest
         /\ tree[v] = Tree(EntriesOfVm(v))
<1>1. HasTables(v)
  BY DEF HasTables
<1>2. \A e \in ToSet(EntriesOfVm(v)) : e.size >= 2 * Smallest
  <2>1. BlocksOfVm(v) # None /\ Split(BlocksOfVm(v)) # None
    BY <1>1 DEF ScriptInv, ListsAreChecked, TreesAreTables
  <2>2. QED
    BY <2>1 DEF NoneQuartered, EntriesOfVm, BlocksOfVm
<1>3. QED
  BY <1>1, <1>2, TablesOf

\* An entry of the first cache that is hit is what the search finds.
LEMMA HitIsFound ==
  ASSUME ScriptInv, NEW v \in Vms, stage = "done", regions \in Running, regions[v] # <<>>,
         OneGuest(regions) /\ NoneQuartered(regions),
         NEW c, IsTableEntry(c), NEW a \in Nat, Hit(c, a), Accessed \subseteq Nat
  PROVE  c.entry = SearchTable(tree[v], a)
<1>1. c # Unused
  BY UnusedMisses
<1>2. PICK w \in Vms, b \in Accessed : TableEntry(c, w, b)
  BY <1>1 DEF IsTableEntry
<1>3. w = v
  BY <1>2 DEF TableEntry, OneGuest
<1> DEFINE l == EntriesOfVm(v)
           f == SearchTable(Tree(l), b)
<1>4. /\ BlocksOfVm(v) \in Seq(Blocks) /\ l \in Seq(EntriesOf(BlocksOfVm(v)))
      /\ \A e \in ToSet(l) : e.size >= 2 * Smallest
      /\ tree[v] = Tree(l)
  BY RunningTables
<1>5. f.found # "nothing" /\ c = Cached(f, Span(f), b)
  BY <1>2, <1>3, <1>4 DEF TableEntry
<1>6. Down(a, Span(f)) = Down(b, Span(f)) /\ c.entry = f
  BY <1>5 DEF Hit, Cached
<1> HIDE DEF l
<1>7. b \in Nat
  OBVIOUS
<1>8. SearchTable(Tree(l), a) = f
  BY <1>4, <1>5, <1>6, <1>7, SpanFinds
<1>9. QED
  BY <1>4, <1>6, <1>8

\* And one of the second what both find.
LEMMA SmallHitIsFound ==
  ASSUME ScriptInv, NEW v \in Vms, stage = "done", regions \in Running, regions[v] # <<>>,
         OneGuest(regions) /\ NoneQuartered(regions),
         NEW c, IsSmallEntry(c), NEW a \in Nat, Hit(c, a), Accessed \subseteq Nat
  PROVE  c.entry = SearchSmall(SearchTable(tree[v], a), a)
<1>1. c # Unused
  BY UnusedMisses
<1>2. PICK w \in Vms, b \in Accessed : SmallEntry(c, w, b)
  BY <1>1 DEF IsSmallEntry
<1>3. w = v
  BY <1>2 DEF SmallEntry, OneGuest
<1> DEFINE l == EntriesOfVm(v)
           f == SearchTable(Tree(l), b)
           g == SearchSmall(f, b)
<1>4. /\ BlocksOfVm(v) \in Seq(Blocks) /\ l \in Seq(EntriesOf(BlocksOfVm(v)))
      /\ \A e \in ToSet(l) : e.size >= 2 * Smallest
      /\ tree[v] = Tree(l)
  BY RunningTables
<1>5. f.found = "transit" /\ g.found # "nothing" /\ c = Cached(g, g.slot, b)
  BY <1>2, <1>3, <1>4 DEF SmallEntry
<1>6. Down(a, g.slot) = Down(b, g.slot) /\ c.entry = g
  BY <1>5 DEF Hit, Cached
<1> HIDE DEF l
<1>7. b \in Nat
  OBVIOUS
<1>8. SearchTable(Tree(l), a) = f /\ SearchSmall(f, a) = g
  BY <1>4, <1>5, <1>6, <1>7, SmallSlotFinds
<1>9. QED
  BY <1>4, <1>6, <1>8

\* The caches start unused.
LEMMA CachesInit == RunInit => CachesAreOfTables
BY DEF RunInit, CachesAreOfTables, IsTableEntry, IsSmallEntry, CachesAreTransparent

\* The script fills no cache.
LEMMA CachesScript ==
  ASSUME CachesAreOfTables, ScriptNext, UNCHANGED caches
  PROVE  CachesAreOfTables'
<1>1. stage \in {"lists", "tables"}
  BY DEF ScriptNext, CreateLists, CreateTables
<1>2. last = None /\ \A i \in Ways : cpte_cache[i] = Unused /\ sw_cpte_cache[i] = Unused
  BY <1>1 DEF CachesAreOfTables, IsTableEntry, IsSmallEntry, TableEntry, SmallEntry
<1>3. QED
  BY <1>2 DEF CachesAreOfTables, IsTableEntry, IsSmallEntry, CachesAreTransparent, caches

\* An access comes to what the searches give, and caches that.
LEMMA CachesAccess ==
  ASSUME ScriptInv, CachesAreOfTables, \A c \in Running : OneGuest(c) /\ NoneQuartered(c),
         NEW v \in Vms, NEW a \in Accessed, Access(v, a)
  PROVE  CachesAreOfTables'
<1> DEFINE i == Hash(a)
           j == HashSmall(a)
           loaded == SearchTable(tree[v], a)
           small == SearchSmall(loaded, a)
           hit == Hit(cpte_cache[i], a)
           f == IF hit THEN cpte_cache[i].entry ELSE loaded
           hitSmall == Hit(sw_cpte_cache[j], a)
           g == IF f.found # "transit" THEN NoLeaf
                ELSE IF hitSmall THEN sw_cpte_cache[j].entry ELSE SearchSmall(f, a)
<1>1. /\ stage = "done" /\ regions \in Running /\ regions[v] # <<>>
      /\ UNCHANGED script
      /\ IF Direct(loaded, a)
         THEN /\ last' = [vm |-> v, addr |-> a, is |-> Outcome("direct", DirectAddress(loaded, a), None)]
              /\ UNCHANGED <<cpte_cache, sw_cpte_cache>>
         ELSE /\ cpte_cache' = IF hit \/ f.found = "nothing" THEN cpte_cache
                               ELSE [cpte_cache EXCEPT ![i] = Cached(f, Span(f), a)]
              /\ sw_cpte_cache' = IF f.found # "transit" \/ hitSmall \/ g.found = "nothing"
                                  THEN sw_cpte_cache
                                  ELSE [sw_cpte_cache EXCEPT ![j] = Cached(g, g.slot, a)]
              /\ \E o \in Handle(f, g, a) : last' = [vm |-> v, addr |-> a, is |-> o]
  BY DEF Access
<1>2. Accessed \subseteq Nat /\ a \in Nat /\ i \in Ways /\ j \in Ways
  BY PageTablesAssumption, PageFaultsAssumption
<1>3. OneGuest(regions) /\ NoneQuartered(regions)
  BY <1>1
<1>4. f = loaded
  <2>1. hit => cpte_cache[i].entry = loaded
    BY <1>1, <1>2, <1>3, HitIsFound DEF CachesAreOfTables
  <2>2. QED
    BY <2>1
<1>5. g = IF loaded.found = "transit" THEN small ELSE NoLeaf
  <2>1. hitSmall => sw_cpte_cache[j].entry = small
    BY <1>1, <1>2, <1>3, SmallHitIsFound DEF CachesAreOfTables
  <2>2. QED
    BY <1>4, <2>1
<1> HIDE DEF hit, f, hitSmall, g, i, j
<1>6. regions' = regions /\ tree' = tree /\ stage' = stage
  BY <1>1 DEF script
<1>7. \A c : (IsTableEntry(c) => IsTableEntry(c)') /\ (IsSmallEntry(c) => IsSmallEntry(c)')
  BY <1>6 DEF IsTableEntry, IsSmallEntry, TableEntry, SmallEntry
<1>8. loaded.found # "nothing" => IsTableEntry(Cached(loaded, Span(loaded), a))
  BY <1>1 DEF IsTableEntry, TableEntry
<1>9. loaded.found = "transit" /\ small.found # "nothing" => IsSmallEntry(Cached(small, small.slot, a))
  BY <1>1 DEF IsSmallEntry, SmallEntry
<1> HIDE DEF loaded, small
<1>10. DOMAIN cpte_cache' = Ways /\ \A x \in Ways : IsTableEntry(cpte_cache'[x])
  BY <1>1, <1>2, <1>4, <1>8 DEF CachesAreOfTables
<1>11. DOMAIN sw_cpte_cache' = Ways /\ \A x \in Ways : IsSmallEntry(sw_cpte_cache'[x])
  BY <1>1, <1>2, <1>4, <1>5, <1>9 DEF CachesAreOfTables
<1>12. \A x \in Ways : IsTableEntry(cpte_cache[x])' /\ IsSmallEntry(sw_cpte_cache[x])'
  BY <1>6, <1>10, <1>11 DEF IsTableEntry, IsSmallEntry, TableEntry, SmallEntry
<1>13. CachesAreTransparent'
  <2>1. Resolve(tree[v], a) = IF Direct(loaded, a) THEN {Outcome("direct", DirectAddress(loaded, a), None)}
                              ELSE Handle(f, g, a)
    BY <1>4, <1>5 DEF Resolve, loaded, small
  <2>2. last'.vm = v /\ last'.addr = a /\ last'.is \in Resolve(tree[v], a)
    BY <1>1, <2>1
  <2>3. QED
    BY <1>6, <2>2 DEF CachesAreTransparent
<1>14. QED
  BY <1>1, <1>6, <1>10, <1>11, <1>12, <1>13 DEF CachesAreOfTables

\* do_TLB with its two caches comes to what the search of the tables gives, for any
\* tables, hashes and accesses, when one guest runs and none of its pages of the smallest
\* size is quartered.  The caches are looked up by address only, so a second guest breaks
\* it; and a slot below the smallest pair is not what the search compares.
THEOREM CachesAreTransparentAlways ==
  ASSUME \A c \in Running : OneGuest(c) /\ NoneQuartered(c)
  PROVE  RunSpec => []CachesAreTransparent
<1>1. RunInit => CachesAreOfTables
  BY CachesInit
<1>2. ScriptInv /\ CachesAreOfTables /\ [RunNext]_<<script, caches>> => CachesAreOfTables'
  <2> SUFFICES ASSUME ScriptInv, CachesAreOfTables, [RunNext]_<<script, caches>>
               PROVE  CachesAreOfTables'
    OBVIOUS
  <2>1. CASE ScriptNext /\ UNCHANGED caches
    BY <2>1, CachesScript
  <2>2. ASSUME NEW v \in Vms, NEW a \in Accessed, Access(v, a) PROVE CachesAreOfTables'
    BY <2>2, CachesAccess
  <2>3. CASE UNCHANGED <<script, caches>>
    BY <2>3 DEF script, caches, CachesAreOfTables, IsTableEntry, IsSmallEntry, TableEntry,
                SmallEntry, CachesAreTransparent
  <2>4. QED
    BY <2>1, <2>2, <2>3 DEF RunNext
<1>3. CachesAreOfTables => CachesAreTransparent
  BY DEF CachesAreOfTables
<1>4. QED
  BY <1>1, <1>2, <1>3, TablesAreOfTheLists, PTL DEF RunSpec

-----------------------------------------------------------------------------
(* Entries in order (join_pairs)                                             *)

\* split_page: the quarters stay in the page.
LEMMA QuartersSpan ==
  ASSUME NEW list \in Seq(Blocks), NEW p \in PagesOf(list)
  PROVE  Spans(Quarters(p), p.addr, p.addr + p.size)
<1> DEFINE z == p.size \div 4
           a == p.addr
           n == p.size
           x == Quarters(p)[1]
           y == Quarters(p)[2]
<1>1. a \in Nat /\ n \in Nat
  BY PageIs
<1>2. z \in Nat /\ 4 * z <= n
  <2>1. \A m \in Nat : m \div 4 \in Nat /\ 4 * (m \div 4) <= m
    OBVIOUS
  <2>2. QED
    BY <1>1, <2>1
<1>3. Quarters(p) = <<x, y>> /\ x.addr = a + 0 * z /\ x.size = 2 * z /\ y.addr = a + 2 * z /\ y.size = 2 * z
  BY DEF Quarters, Entry
<1> DEFINE l == Quarters(p)
<1>4. DOMAIN l = {1, 2} /\ l[1] = x /\ l[2] = y
  <2> HIDE DEF x, y
  <2>1. QED
    BY <1>3
<1> HIDE DEF l, x, y, z
<1>5. x.addr = a
  BY <1>1, <1>2, <1>3
<1> HIDE DEF a, n
<1>6. /\ x.addr + x.size <= y.addr /\ x.addr >= a /\ y.addr >= a
      /\ x.addr + x.size <= a + n /\ y.addr + y.size <= a + n
  BY <1>1, <1>2, <1>3, <1>5
<1>7. Ascending(l)
  BY <1>4, <1>6 DEF Ascending
<1>8. (\A i \in DOMAIN l : l[i].addr >= a) /\ Below(l, a + n)
  BY <1>4, <1>6 DEF Below
<1>9. QED
  BY <1>7, <1>8 DEF Spans, a, n, l

\* The entries of join_pairs are in order, and what follows starts at a or behind.
JoinedTo(s, a) ==
  IF s.saved = None THEN Spans(s.out, 0, s.last) /\ s.last <= a
  ELSE Spans(s.out, 0, s.saved.addr) /\ s.saved.addr + s.saved.size <= a

\* join_pairs: what each page adds comes behind the others.
LEMMA JoinPageOrder ==
  ASSUME NEW list \in Seq(Blocks), NEW s \in JoinStates(list), NEW p \in PagesOf(list),
         JoinedTo(s, p.addr)
  PROVE  JoinedTo(JoinPage(s, p), p.addr + p.size)
<1> DEFINE E == EntriesOf(list)
           q == s.saved
           o == s.out
           a == p.addr
           n == p.size
           done(es, e) == [saved |-> None, last |-> e, out |-> s.out \o es]
           keep(es, e) == [saved |-> p, last |-> e, out |-> s.out \o es]
<1>1. /\ o \in Seq(E) /\ s.last \in Nat /\ q \in PagesOf(list) \cup {None}
      /\ q # None => IsFirst(q)
  BY DEF JoinStates
<1>2. a \in Nat /\ n \in Nat /\ n > 0 /\ End(p) = a + n
  BY PageIs DEF End
<1>3. Spans(Quarters(p), a, a + n) /\ Quarters(p) \in Seq(E)
  BY QuartersSpan, QuartersIs
<1>4. ~IsFirst(p) => /\ <<SecondOnly(p)>> \in Seq(E) /\ a - n \in Nat
                     /\ Spans(<<SecondOnly(p)>>, a - n, a + n)
  BY SecondOnlyIs
<1>5. p # None
  BY PageIs, ConfiguratorAssumption
<1> DEFINE Added(l, d, c) == l \in Seq(E) /\ Spans(l, d, c)
<1>6. ASSUME NEW l, NEW b \in Nat, NEW d \in Nat, NEW c \in Nat, Spans(o, 0, b), Added(l, d, c),
             b <= d, d <= c
      PROVE  Spans(o \o l, 0, c)
  BY <1>1, <1>6, JoinedSpans
<1>7. ASSUME NEW l, NEW m, NEW d \in Nat, NEW b \in Nat, NEW e \in Nat, NEW c \in Nat,
             Added(l, d, b), Added(m, e, c), d <= b, b <= e, e <= c
      PROVE  Added(l \o m, d, c)
  BY <1>7, JoinedSpans
<1>8. Added(Quarters(p), a, a + n) /\ (~IsFirst(p) => a - n \in Nat /\ Added(<<SecondOnly(p)>>, a - n, a + n))
  BY <1>3, <1>4
<1> HIDE DEF E, Added
<1>9. CASE q = None
  <2>1. JoinPage(s, p) =
          CASE IsFirst(p)                                -> keep(<<>>, End(p))
            [] ~IsFirst(p) /\ s.last + p.size <= p.addr  -> done(<<SecondOnly(p)>>, End(p))
            [] OTHER                                     -> done(Quarters(p), End(p))
    BY <1>9 DEF JoinPage
  <2>2. Spans(o, 0, s.last) /\ s.last <= a
    BY <1>9 DEF JoinedTo
  <2>3. CASE IsFirst(p)
    <3>1. JoinPage(s, p) = keep(<<>>, End(p))
      BY <2>1, <2>3
    <3>2. o \o <<>> = o
      BY <1>1
    <3>3. Spans(o, 0, a)
      <4>1. \A i \in DOMAIN o : o[i].addr \in Nat /\ o[i].size \in Nat
        BY <1>1 DEF E, EntriesOf, EntryRecords
      <4>2. QED
        BY <1>1, <1>2, <2>2, <4>1 DEF Spans, Below
    <3>4. QED
      BY <1>5, <1>2, <3>1, <3>2, <3>3 DEF JoinedTo
  <2>4. CASE ~IsFirst(p) /\ s.last + n <= a
    <3>1. JoinPage(s, p) = done(<<SecondOnly(p)>>, a + n)
      BY <1>2, <2>1, <2>4
    <3> DEFINE u == s.last
               d == a - n
    <3>2. u \in Nat /\ d \in Nat /\ u <= d /\ d <= a + n /\ a + n \in Nat
      <4> HIDE DEF a, n
      <4>1. QED
        BY <1>1, <1>2, <1>8, <2>4 DEF u
    <3>3. Spans(o \o <<SecondOnly(p)>>, 0, a + n)
      BY <1>6, <1>8, <2>2, <2>4, <3>2
    <3>4. QED
      BY <1>2, <3>1, <3>3 DEF JoinedTo
  <2>5. CASE ~IsFirst(p) /\ ~(s.last + n <= a)
    <3>1. JoinPage(s, p) = done(Quarters(p), a + n)
      BY <1>2, <2>1, <2>5
    <3>2. a + n \in Nat /\ a <= a + n
      BY <1>2
    <3>3. Spans(o \o Quarters(p), 0, a + n)
      BY <1>1, <1>2, <1>6, <1>8, <2>2, <3>2
    <3>4. QED
      BY <1>2, <3>1, <3>3 DEF JoinedTo
  <2>6. QED
    BY <2>3, <2>4, <2>5
<1>10. CASE q # None
  <2> DEFINE beyond == q.addr + 2 * q.size
             b == q.addr
             m == q.size
  <2>1. JoinPage(s, p) =
          IF Matches(q, p) THEN
            done(<<Both(q, p)>>, End(p))
          ELSE IF beyond <= p.addr /\ (IsFirst(p) \/ beyond <= p.addr - p.size) THEN
            IF IsFirst(p) THEN keep(<<FirstOnly(q)>>, End(q))
            ELSE done(<<FirstOnly(q), SecondOnly(p)>>, End(p))
          ELSE IF beyond <= p.addr THEN
            done(<<FirstOnly(q)>> \o Quarters(p), End(p))
          ELSE IF IsFirst(p) THEN keep(Quarters(q), End(q))
          ELSE done(Quarters(q) \o Quarters(p), End(p))
    BY <1>10 DEF JoinPage
  <2>2. Spans(o, 0, b) /\ b + m <= a
    BY <1>10 DEF JoinedTo
  <2>3. q \in PagesOf(list) /\ IsFirst(q) /\ b \in Nat /\ m \in Nat
    BY <1>1, <1>10, PageIs
  <2>4. /\ Added(<<FirstOnly(q)>>, b, beyond) /\ Added(Quarters(q), b, b + m)
        /\ Matches(q, p) => Added(<<Both(q, p)>>, b, a + n)
    <3> HIDE DEF q
    <3>1. Added(<<FirstOnly(q)>>, b, beyond)
      BY <2>3, FirstOnlyIs DEF Added, E
    <3>2. Added(Quarters(q), b, b + m)
      BY <2>3, QuartersIs, QuartersSpan DEF Added, E
    <3>3. Matches(q, p) => Added(<<Both(q, p)>>, b, a + n)
      BY <2>3, BothIs DEF Added, E
    <3>4. QED
      BY <3>1, <3>2, <3>3
  <2> HIDE DEF q
  <2>5. /\ b <= b + m /\ b + m \in Nat /\ beyond \in Nat /\ b <= beyond
        /\ b <= a + n /\ a + n \in Nat /\ a <= a + n /\ b <= a
    <3> DEFINE x == b
               y == m
               u == a
               w == n
    <3>1. x \in Nat /\ y \in Nat /\ u \in Nat /\ w \in Nat /\ x + y <= u
      BY <1>2, <2>2, <2>3
    <3>2. beyond = x + 2 * y
      OBVIOUS
    <3> HIDE DEF beyond, x, y, u, w
    <3>3. /\ x <= x + y /\ x + y \in Nat /\ beyond \in Nat /\ x <= beyond
          /\ x <= u + w /\ u + w \in Nat /\ u <= u + w /\ x <= u
      BY <3>1, <3>2
    <3>4. QED
      BY <3>3 DEF x, y, u, w
  <2> DEFINE r == JoinPage(s, p)
  <2>6. ASSUME NEW l, NEW c \in Nat, Added(l, b, c), b <= c, c <= a + n,
               r.saved = None, r.out = o \o l, r.last = a + n
        PROVE  JoinedTo(r, a + n)
    <3>1. Spans(o \o l, 0, c)
      BY <1>6, <2>2, <2>3, <2>6
    <3>2. Spans(o \o l, 0, a + n)
      <4>1. o \o l \in Seq(E)
        BY <1>1, <2>6 DEF Added
      <4>2. \A e \in E : e.addr \in Nat /\ e.size \in Nat
        BY DEF E, EntriesOf, EntryRecords
      <4> DEFINE w == o \o l
                 x == a + n
      <4>3. x \in Nat /\ c <= x /\ w \in Seq(E)
        BY <2>5, <2>6, <4>1
      <4>4. Spans(w, 0, c)
        BY <3>1
      <4> HIDE DEF w, x
      <4>5. Spans(w, 0, x)
        <5>1. \A i \in DOMAIN w : w[i].addr \in Nat /\ w[i].size \in Nat
          BY <4>2, <4>3
        <5>2. QED
          BY <4>3, <4>4, <5>1 DEF Spans, Below
      <4>6. QED
        BY <4>5 DEF w, x
    <3>3. QED
      BY <2>5, <2>6, <3>2 DEF JoinedTo
  <2>7. ASSUME NEW l, NEW c \in Nat, Added(l, b, c), b <= c, c <= a, r.saved = p, r.out = o \o l
        PROVE  JoinedTo(r, a + n)
    <3>1. Spans(o \o l, 0, c)
      BY <1>6, <2>2, <2>3, <2>7
    <3>2. Spans(o \o l, 0, a)
      <4>1. o \o l \in Seq(E)
        BY <1>1, <2>7 DEF Added
      <4>2. \A e \in E : e.addr \in Nat /\ e.size \in Nat
        BY DEF E, EntriesOf, EntryRecords
      <4> DEFINE w == o \o l
                 x == a
      <4>3. x \in Nat /\ c <= x /\ w \in Seq(E)
        BY <1>2, <2>7, <4>1
      <4>4. Spans(w, 0, c)
        BY <3>1
      <4> HIDE DEF w, x
      <4>5. Spans(w, 0, x)
        <5>1. \A i \in DOMAIN w : w[i].addr \in Nat /\ w[i].size \in Nat
          BY <4>2, <4>3
        <5>2. QED
          BY <4>3, <4>4, <5>1 DEF Spans, Below
      <4>6. QED
        BY <4>5 DEF w, x
    <3>3. QED
      BY <1>2, <1>5, <2>7, <3>2 DEF JoinedTo
  <2>8. CASE Matches(q, p)
    <3>1. r = done(<<Both(q, p)>>, a + n)
      BY <1>2, <2>1, <2>8
    <3>2. r.saved = None /\ r.out = o \o <<Both(q, p)>> /\ r.last = a + n
      BY <3>1
    <3> HIDE DEF r, beyond
    <3>3. JoinedTo(r, a + n)
      <4>1. a + n <= a + n
        BY <2>5
      <4>2. QED
        BY <2>4, <2>5, <2>6, <2>8, <3>2, <4>1
    <3>4. QED
      BY <3>3 DEF r
  <2>9. CASE ~Matches(q, p) /\ beyond <= a /\ IsFirst(p)
    <3>1. r = keep(<<FirstOnly(q)>>, End(q))
      BY <2>1, <2>9
    <3>2. r.saved = p /\ r.out = o \o <<FirstOnly(q)>>
      BY <3>1
    <3> HIDE DEF r, beyond
    <3>3. QED
      BY <2>4, <2>5, <2>7, <2>9, <3>2 DEF r
  <2>10. CASE ~Matches(q, p) /\ beyond <= a - n /\ beyond <= a /\ ~IsFirst(p)
    <3> DEFINE l == <<FirstOnly(q), SecondOnly(p)>>
    <3>1. r = done(l, a + n)
      BY <1>2, <2>1, <2>10
    <3>2. r.saved = None /\ r.out = o \o l /\ r.last = a + n
      BY <3>1
    <3>3. l = <<FirstOnly(q)>> \o <<SecondOnly(p)>>
      <4> DEFINE x == FirstOnly(q)
                 y == SecondOnly(p)
      <4> HIDE DEF x, y
      <4>1. <<x, y>> = <<x>> \o <<y>>
        <5> DEFINE w == <<x>> \o <<y>>
        <5>1. <<x>> \in Seq({x, y}) /\ <<y>> \in Seq({x, y}) /\ Len(<<x>>) = 1 /\ Len(<<y>>) = 1
              /\ <<x>>[1] = x /\ <<y>>[1] = y
          OBVIOUS
        <5>2. w \in Seq({x, y}) /\ Len(w) = 2 /\ w[1] = x /\ w[2] = y
          BY <5>1
        <5> HIDE DEF w
        <5>3. w = [i \in 1 .. 2 |-> w[i]] /\ <<x, y>> = [i \in 1 .. 2 |-> IF i = 1 THEN x ELSE y]
          BY <5>2
        <5>4. \A i \in 1 .. 2 : w[i] = IF i = 1 THEN x ELSE y
          BY <5>2
        <5>5. QED
          BY <5>3, <5>4 DEF w
      <4>2. QED
        BY <4>1 DEF x, y
    <3>4. Added(l, b, a + n)
      <4>1. a - n \in Nat /\ a - n <= a + n
        BY <1>2, <1>8, <2>10
      <4> HIDE DEF l, beyond
      <4>2. QED
        BY <1>7, <1>8, <2>3, <2>4, <2>5, <2>10, <3>3, <4>1
    <3> HIDE DEF r, l
    <3>5. QED
      BY <2>5, <2>6, <3>2, <3>4 DEF r
  <2>11. CASE ~Matches(q, p) /\ beyond <= a /\ ~IsFirst(p) /\ ~(beyond <= a - n)
    <3> DEFINE l == <<FirstOnly(q)>> \o Quarters(p)
    <3>1. r = done(l, a + n)
      BY <1>2, <2>1, <2>11
    <3> HIDE DEF r, l
    <3>2. r.saved = None /\ r.out = o \o l /\ r.last = a + n
      BY <3>1
    <3>4. Added(l, b, a + n)
      <4> HIDE DEF beyond
      <4>2. QED
        BY <1>2, <1>7, <1>8, <2>3, <2>4, <2>5, <2>11 DEF l
    <3> HIDE DEF r, l
    <3>5. QED
      BY <2>5, <2>6, <3>2, <3>4 DEF r
  <2>12. CASE ~Matches(q, p) /\ ~(beyond <= a) /\ IsFirst(p)
    <3>1. r = keep(Quarters(q), End(q))
      BY <2>1, <2>12
    <3>2. r.saved = p /\ r.out = o \o Quarters(q)
      BY <3>1
    <3> HIDE DEF r, beyond
    <3>3. QED
      BY <2>2, <2>4, <2>5, <2>7, <3>2 DEF r
  <2>13. CASE ~Matches(q, p) /\ ~(beyond <= a) /\ ~IsFirst(p)
    <3> DEFINE l == Quarters(q) \o Quarters(p)
    <3>1. r = done(l, a + n)
      BY <1>2, <2>1, <2>13
    <3> HIDE DEF r, l
    <3>2. r.saved = None /\ r.out = o \o l /\ r.last = a + n
      BY <3>1
    <3>4. Added(l, b, a + n)
      <4> HIDE DEF beyond
      <4>2. QED
        BY <1>2, <1>7, <1>8, <2>2, <2>3, <2>4, <2>5 DEF l
    <3> HIDE DEF r, l
    <3>5. QED
      BY <2>5, <2>6, <3>2, <3>4 DEF r
  <2>14. QED
    BY <2>8, <2>9, <2>10, <2>11, <2>12, <2>13
<1>11. QED
  BY <1>9, <1>10

\* join_pairs: the entries of pages in order are in order.
LEMMA JoinAscends ==
  ASSUME NEW list \in Seq(Blocks), NEW ps \in Seq(PagesOf(list)), Ascending(ps)
  PROVE  Ascending(Join(ps))
<1> DEFINE n == Len(ps)
           b == [saved |-> None, last |-> 0, out |-> <<>>]
           Is(f) == f = [i \in 0 .. n |-> IF i = 0 THEN b ELSE JoinPage(f[i - 1], ps[i])]
           h == CHOOSE f : Is(f)
           S == JoinStates(list)
           g == [x \in (1 .. n) \X S |-> JoinPage(x[2], ps[x[1]])]
           E == EntriesOf(list)
<1>1. n \in Nat /\ \A i \in 1 .. n : ps[i] \in PagesOf(list)
  OBVIOUS
<1>2. Join(ps) = IF h[n].saved = None THEN h[n].out ELSE Append(h[n].out, FirstOnly(h[n].saved))
  BY DEF Join
<1>3. b \in S
  BY DEF JoinStates
<1>4. \A i \in 1 .. n : \A s \in S : JoinPage(s, ps[i]) \in S
  BY <1>1, JoinPageKeeps
<1>5. \A i \in 1 .. n : \A s \in S : g[<<i, s>>] = JoinPage(s, ps[i])
  OBVIOUS
<1>6. JoinedTo(b, 0)
  BY DEF JoinedTo, Spans, Ascending, Below
<1>7. \A i \in 1 .. n : ps[i].addr \in Nat /\ ps[i].size \in Nat
  BY <1>1, PageIs
<1>8. \A i, j \in 1 .. n : i < j => ps[i].addr + ps[i].size <= ps[j].addr
  BY DEF Ascending
<1> HIDE DEF n, b, S, g
<1>9. PICK f \in [0 .. n -> S] : IsFold(f, n, b, g)
  <2>1. \A i \in 1 .. n : \A s \in S : g[<<i, s>>] \in S
    BY <1>4, <1>5
  <2>2. n \in Nat
    BY <1>1
  <2>3. QED
    BY <1>3, <2>1, <2>2, FoldExists
<1>10. Is(f)
  <2>1. \A i \in 0 .. n : i # 0 => g[<<i, f[i - 1]>>] = JoinPage(f[i - 1], ps[i])
    BY <1>1, <1>5
  <2>2. QED
    BY <1>9, <2>1 DEF IsFold
<1>11. Is(h)
  BY <1>10
<1> HIDE DEF h
<1>12. h[0] = b /\ \A i \in 1 .. n : h[i] = JoinPage(h[i - 1], ps[i])
  BY <1>1, <1>11
<1> DEFINE Ordered(i) == \E a \in Nat : JoinedTo(h[i], a) /\ \A j \in i + 1 .. n : a <= ps[j].addr
           N == {i \in Nat : i <= n => h[i] \in S /\ Ordered(i)}
<1>13. 0 \in N
  <2>1. 0 \in Nat /\ \A j \in 0 + 1 .. n : 0 <= ps[j].addr
    BY <1>1, <1>7
  <2>2. QED
    BY <1>3, <1>6, <1>12, <2>1
<1>14. ASSUME NEW k \in Nat, k \in N PROVE k + 1 \in N
  <2> SUFFICES ASSUME k + 1 <= n PROVE h[k + 1] \in S /\ Ordered(k + 1)
    OBVIOUS
  <2> DEFINE i == k + 1
             p == ps[i]
             s == h[k]
             c == p.addr + p.size
  <2>1. i \in 1 .. n /\ i - 1 = k /\ k <= n /\ i \in Nat
    BY <1>1
  <2>2. p \in PagesOf(list) /\ p.addr \in Nat /\ p.size \in Nat
    BY <1>1, <1>7, <2>1
  <2>3. s \in S /\ Ordered(k)
    BY <1>14, <2>1
  <2>4. PICK a \in Nat : JoinedTo(s, a) /\ \A j \in k + 1 .. n : a <= ps[j].addr
    BY <2>3
  <2>5. a <= p.addr
    BY <1>1, <2>1, <2>4
  <2>6. h[i] = JoinPage(s, p)
    BY <1>12, <2>1
  <2> HIDE DEF i, s
  <2>7. JoinedTo(s, p.addr)
    <3> DEFINE u == p.addr
               v == s.saved.addr + s.saved.size
    <3>1. s.saved # None => v \in Nat
      <4>1. s.saved # None => s.saved \in PagesOf(list)
        BY <2>3 DEF S, JoinStates
      <4>2. QED
        BY <4>1, PageIs
    <3>2. s.last \in Nat /\ u \in Nat /\ a <= u
      BY <2>2, <2>3, <2>5 DEF S, JoinStates
    <3>3. IF s.saved = None THEN Spans(s.out, 0, s.last) /\ s.last <= a
          ELSE Spans(s.out, 0, s.saved.addr) /\ v <= a
      BY <2>4 DEF JoinedTo
    <3> DEFINE w == s.last
    <3> HIDE DEF u, v, w
    <3>4. (s.saved # None /\ v <= a => v <= u) /\ (w <= a => w <= u)
      BY <3>1, <3>2 DEF w
    <3>5. QED
      BY <3>3, <3>4 DEF JoinedTo, u, v, w
  <2> HIDE DEF p
  <2>8. JoinedTo(h[i], c)
    BY <2>2, <2>3, <2>6, <2>7, JoinPageOrder DEF S
  <2>9. h[i] \in S
    BY <1>4, <2>1, <2>3, <2>6 DEF p
  <2>10. c \in Nat
    BY <2>2
  <2>11. \A j \in i + 1 .. n : c <= ps[j].addr
    <3> SUFFICES ASSUME NEW j \in i + 1 .. n PROVE c <= ps[j].addr
      OBVIOUS
    <3>1. j \in 1 .. n /\ i < j
      BY <1>1, <2>1
    <3>2. QED
      BY <1>8, <2>1, <3>1 DEF p
  <2>12. Ordered(i)
    BY <2>8, <2>10, <2>11
  <2>13. QED
    BY <2>9, <2>12 DEF i
<1>15. Nat \subseteq N
  <2> HIDE DEF N
  <2>1. QED BY <1>13, <1>14, NatInd
<1> DEFINE s == h[n]
<1>16. s \in S /\ \E a \in Nat : JoinedTo(s, a)
  BY <1>1, <1>15
<1> HIDE DEF s
<1>17. PICK a \in Nat : JoinedTo(s, a)
  BY <1>16
<1>18. /\ s.out \in Seq(E) /\ s.saved \in PagesOf(list) \cup {None}
       /\ s.saved # None => IsFirst(s.saved)
  BY <1>16 DEF S, JoinStates
<1>19. CASE s.saved = None
  BY <1>2, <1>17, <1>19 DEF s, JoinedTo, Spans
<1>20. CASE s.saved # None
  <2> DEFINE q == s.saved
             x == FirstOnly(q)
             o == s.out
  <2>1. q \in PagesOf(list) /\ IsFirst(q)
    BY <1>18, <1>20
  <2>2. q.addr \in Nat /\ q.size \in Nat /\ Spans(o, 0, q.addr)
    BY <1>17, <1>20, <2>1, PageIs DEF JoinedTo
  <2> HIDE DEF q
  <2>3. <<x>> \in Seq(E)
    BY <2>1, FirstOnlyIs
  <2>4. x.addr = q.addr /\ x.size = 2 * q.size
    BY DEF FirstOnly, Entry
  <2> HIDE DEF E, x, o
  <2>5. x \in E
    <3>1. <<x>>[1] \in E
      BY <2>3
    <3>2. QED
      BY <3>1
  <2>6. \A e \in E : e.addr \in Nat /\ e.size \in Nat
    BY DEF E, EntriesOf, EntryRecords
  <2>7. x.addr + x.size \in Nat
    BY <2>5, <2>6
  <2>8. o \in Seq(E) /\ Ascending(o) /\ Below(o, x.addr)
    BY <1>18, <2>2, <2>4 DEF Spans, o
  <2> DEFINE c == x.addr + x.size
  <2>9. c <= c
    BY <2>7
  <2>10. Ascending(Append(o, x))
    BY <2>5, <2>6, <2>7, <2>8, <2>9, AppendAscends
  <2>11. Join(ps) = Append(o, x)
    BY <1>2, <1>20 DEF s, o, x, q
  <2>12. QED
    BY <2>10, <2>11
<1>21. QED
  BY <1>19, <1>20

-----------------------------------------------------------------------------
(* Addresses on the grid of one size                                         *)

Grid(a, z) == \E t \in Nat : a = z * t

\* What is left by a division is on the grid.
LEMMA GridIs ==
  ASSUME NEW a \in Nat, NEW z \in Nat, z > 0
  PROVE  /\ a % z = 0 <=> Grid(a, z)
         /\ Grid(Down(a, z), z) /\ Down(a, z) \in Nat /\ Down(a, z) <= a /\ Together(a, Down(a, z), z)
<1> DEFINE q == a \div z
           r == a % z
           y == z * q
<1>1. a = z * q + r /\ q \in Nat /\ r \in 0 .. z - 1
  OBVIOUS
<1>2. y \in Nat /\ a = y + r
  BY <1>1
<1>3. Down(a, z) = y
  <2> HIDE DEF y, r
  <2>1. a - r = y
    BY <1>1, <1>2
  <2>2. QED
    BY <2>1 DEF Down, r
<1>4. Grid(y, z)
  BY <1>1 DEF Grid
<1>5. Grid(a, z) => r = 0
  <2> SUFFICES ASSUME Grid(a, z) PROVE r = 0
    OBVIOUS
  <2>1. PICK t \in Nat : a = z * t
    BY DEF Grid
  <2>2. (z * t + 0) % z = 0
    BY DivUnique
  <2>3. z * t + 0 = z * t
    OBVIOUS
  <2>4. QED
    BY <2>1, <2>2, <2>3
<1>6. r = 0 => Grid(a, z)
  <2> HIDE DEF y
  <2>1. r = 0 => a = y
    BY <1>2
  <2>2. QED
    BY <1>4, <2>1
<1>7. a \div z = y \div z
  <2>1. (z * q + 0) \div z = q
    BY <1>1, DivUnique
  <2>2. z * q + 0 = y
    BY <1>2
  <2>3. QED
    BY <2>1, <2>2
<1> HIDE DEF y, q
<1>8. y <= a
  BY <1>1, <1>2
<1>9. QED
  BY <1>2, <1>3, <1>4, <1>5, <1>6, <1>7, <1>8 DEF Together

\* The next one is z words away.
LEMMA GridNext ==
  ASSUME NEW z \in Nat, z > 0, NEW a \in Nat, NEW b \in Nat, Grid(a, z), Grid(b, z)
  PROVE  a < b => a + z <= b
<1>1. PICK s \in Nat : a = z * s
  BY DEF Grid
<1>2. PICK t \in Nat : b = z * t
  BY DEF Grid
<1>3. CASE s < t
  <2>1. PICK d \in Nat : t = (s + 1) + d
    <3>1. t - (s + 1) \in Nat /\ t = (s + 1) + (t - (s + 1))
      BY <1>3
    <3>2. QED
      BY <3>1
  <2>2. z * ((s + 1) + d) = (z * s + z) + z * d /\ z * d \in Nat /\ z * s \in Nat
    OBVIOUS
  <2>3. b = (a + z) + z * d
    BY <1>1, <1>2, <2>1, <2>2
  <2> DEFINE x == z * d
  <2>4. x \in Nat /\ b = (a + z) + x
    BY <2>2, <2>3
  <2> HIDE DEF x
  <2>5. QED
    BY <2>4
<1>4. CASE t <= s
  <2>1. PICK d \in Nat : s = t + d
    <3>1. s - t \in Nat /\ s = t + (s - t)
      BY <1>4
    <3>2. QED
      BY <3>1
  <2>2. z * (t + d) = z * t + z * d /\ z * d \in Nat
    OBVIOUS
  <2> DEFINE x == z * d
  <2>3. x \in Nat /\ a = b + x
    BY <1>1, <1>2, <2>1, <2>2
  <2> HIDE DEF x
  <2>4. QED
    BY <2>3
<1>5. QED
  BY <1>3, <1>4

\* The words between two of them are in one block.
LEMMA GridBlock ==
  ASSUME NEW z \in Nat, z > 0, NEW a \in Nat, Grid(a, z), NEW b \in Nat
  PROVE  Together(b, a, z) <=> a <= b /\ b < a + z
<1> DEFINE c == Down(b, z)
<1>1. Grid(c, z) /\ c \in Nat /\ c <= b /\ b \div z = c \div z /\ b < c + z
  <2>1. b - c < z
    BY DownIs
  <2>2. Grid(c, z) /\ c \in Nat /\ c <= b /\ b \div z = c \div z
    BY GridIs DEF Together
  <2> HIDE DEF c
  <2>3. QED
    BY <2>1, <2>2
<1> HIDE DEF c
<1>2. ASSUME NEW x \in Nat, Grid(x, z) PROVE x = z * (x \div z)
  <2>1. PICK t \in Nat : x = z * t
    BY <1>2 DEF Grid
  <2>2. (z * t + 0) \div z = t /\ z * t + 0 = z * t
    BY DivUnique
  <2>3. QED
    BY <2>1, <2>2
<1>3. a = z * (a \div z) /\ c = z * (c \div z)
  BY <1>1, <1>2
<1>4. b \div z = a \div z => c = a
  BY <1>1, <1>3
<1>5. ASSUME a <= b, b < a + z PROVE c = a
  <2>1. ~(c < a)
    BY <1>1, <1>5, GridNext
  <2>2. ~(a < c)
    BY <1>1, <1>5, GridNext
  <2>3. QED
    BY <1>1, <2>1, <2>2
<1>6. QED
  BY <1>1, <1>4, <1>5 DEF Together

\* Smaller sizes have finer grids.
LEMMA GridFiner ==
  ASSUME NEW z \in Nat, NEW y \in Nat, Multiple(y, z), NEW a \in Nat, Grid(a, y)
  PROVE  Grid(a, z) /\ Grid(a + y, y) /\ Grid(a + y, z)
<1>1. PICK m \in Nat : y = m * z
  BY DEF Multiple
<1>2. PICK t \in Nat : a = y * t
  BY DEF Grid
<1>3. (m * z) * t = z * (m * t) /\ m * t \in Nat
  OBVIOUS
<1>4. y * t + y = y * (t + 1) /\ t + 1 \in Nat
  OBVIOUS
<1>5. (m * z) * (t + 1) = z * (m * (t + 1)) /\ m * (t + 1) \in Nat
  OBVIOUS
<1>6. Grid(a, z)
  BY <1>1, <1>2, <1>3 DEF Grid
<1>7. Grid(a + y, y)
  BY <1>2, <1>4 DEF Grid
<1>8. Grid(a + y, z)
  <2>1. a + y = z * (m * (t + 1))
    BY <1>1, <1>2, <1>4, <1>5
  <2>2. QED
    BY <1>5, <2>1 DEF Grid
<1>9. QED
  BY <1>6, <1>7, <1>8

\* What lies before an address of the grid is in a block before.
LEMMA GridBefore ==
  ASSUME NEW z \in Nat, z > 0, NEW a \in Nat, Grid(a, z), NEW b \in Nat
  PROVE  b < a => b \div z < a \div z
<1> DEFINE q == b \div z
           p == a \div z
           y == z * q
           x == z * p
<1>1. b = z * q + (b % z) /\ q \in Nat /\ b % z \in Nat
  OBVIOUS
<1>2. p \in Nat /\ a = x
  <2>1. PICK t \in Nat : a = z * t
    BY DEF Grid
  <2>2. (z * t + 0) \div z = t /\ z * t + 0 = z * t
    BY DivUnique
  <2>3. QED
    BY <2>1, <2>2
<1>3. y \in Nat /\ y <= b
  <2> DEFINE r == b % z
  <2>1. y \in Nat /\ b = y + r /\ r \in Nat
    BY <1>1
  <2> HIDE DEF y, r
  <2>2. QED
    BY <2>1
<1>4. p <= q => x <= y
  <2> HIDE DEF p, q, x, y
  <2> SUFFICES ASSUME p <= q PROVE x <= y
    OBVIOUS
  <2>1. PICK d \in Nat : q = p + d
    <3>1. q - p \in Nat /\ q = p + (q - p)
      BY <1>1, <1>2
    <3>2. QED
      BY <3>1
  <2>2. z * (p + d) = z * p + z * d /\ z * d \in Nat /\ z * p \in Nat
    BY <1>2
  <2> DEFINE w == z * d
  <2>3. w \in Nat /\ y = x + w /\ x \in Nat
    BY <2>1, <2>2 DEF x, y
  <2> HIDE DEF w
  <2>4. QED
    BY <2>3
<1> HIDE DEF p, q, x, y
<1>5. b < a => q < p
  BY <1>1, <1>2, <1>3, <1>4
<1>6. QED
  BY <1>5 DEF p, q

-----------------------------------------------------------------------------
(* Where the nodes of the tree stand                                         *)

Aligned(n) == n.addr \in Nat /\ n.size \in Nat /\ n.size > 0 /\ Grid(n.addr, n.size)

\* k fits a slot of n: a leaf fills it, a smaller table is a part of it.
Fits(k, n) ==
  /\ k.addr >= n.addr
  /\ IF IsNode(k) THEN Multiple(n.slot, k.size) ELSE k.size = n.slot

\* The descendants of n stand in slots of their own, in the order of addresses.
InSlots(n) ==
  /\ Multiple(n.size, n.slot)
  /\ \A i \in DOMAIN n.kids : Fits(n.kids[i], n)
  /\ \A i, j \in DOMAIN n.kids :
       i < j => n.kids[i].addr \div n.slot < n.kids[j].addr \div n.slot

Placed(T) == \A n \in T : Aligned(n) /\ (IsNode(n) => InSlots(n))

\* An item stands for the words of its leaf, or for all that its node may hold.
Stands(x) ==
  /\ Aligned(x)
  /\ IF IsNode(x.sub) THEN Together(x.sub.addr, x.addr, x.size) /\ Multiple(x.size, x.sub.size)
     ELSE x.sub.addr = x.addr

Standing(T, k) == {x \in Items(T, k) : Stands(x)}

\* The nodes that level k may put over T.
InOrder(T, E, k) == {n \in Nodes(T, E, k) : Aligned(n) /\ InSlots(n)}

OverPlaced(T, E, k) == T \cup InOrder(T, E, k)

\* The nodes over T are closed and placed with it.
LEMMA OverIsPlaced ==
  ASSUME NEW T, NEW E, Closed(T, E), Placed(T), NEW k \in Levels
  PROVE  Closed(OverPlaced(T, E, k), E) /\ Placed(OverPlaced(T, E, k))
<1> DEFINE U == OverPlaced(T, E, k)
<1>1. \A l \in Seq(T) : l \in Seq(U)
  BY DEF OverPlaced
<1>2. ASSUME NEW n \in U PROVE IF IsNode(n) THEN \E i \in Levels : NodeAt(n, i, U, E) ELSE n \in E
  <2>1. CASE n \in T
    BY <1>1, <2>1 DEF Closed, NodeAt
  <2>2. CASE n \in InOrder(T, E, k)
    <3>1. NodeAt(n, k, U, E)
      BY <1>1, <2>2 DEF InOrder, Nodes, NodeAt
    <3>2. IsNode(n)
      BY <2>2 DEF InOrder, Nodes, IsNode
    <3>3. QED
      BY <3>1, <3>2
  <2>3. QED
    BY <2>1, <2>2 DEF OverPlaced
<1>3. Placed(U)
  BY DEF Placed, OverPlaced, InOrder
<1>4. QED
  BY <1>2, <1>3 DEF Closed

\* The node that is being filled, up to address p.
Filled(n, T, E, k, p) ==
  /\ n \in Open(T, E, k) /\ Aligned(n) /\ InSlots(n)
  /\ \A i \in DOMAIN n.kids : n.kids[i].addr < p /\ Together(n.kids[i].addr, n.addr, n.size)

\* A complete node becomes an item where it stands.
LEMMA SimplifyStands ==
  ASSUME NEW E \in SUBSET EntryRecords, NEW T, Closed(T, E), Placed(T),
         NEW k \in Levels, k + 1 \in Levels, NEW n, NEW p, Filled(n, T, E, k, p)
  PROVE  Item(n, Simplify(n)) \in Standing(OverPlaced(T, E, k), k)
<1> DEFINE U == OverPlaced(T, E, k)
           x == Item(n, Simplify(n))
           y == Simplify(n)
           only == n.kids[1]
<1>1. /\ n \in [addr : Nat, size : Nat, slot : {2 * Sizes[k]}, kids : Seq(T)]
      /\ n \in Nodes(T, E, k) /\ NodeAt(n, k, T, E) /\ n.size = 2 * Sizes[k + 1] /\ n.kids # <<>>
      /\ n \in Open(T, E, k) /\ Aligned(n) /\ InSlots(n)
  BY DEF Filled, Open, Nodes
<1>2. /\ k \in Nat /\ Sizes[k] \in Nat /\ Sizes[k] > 0 /\ Sizes[k + 1] \in Nat
      /\ Sizes[k + 1] >= 4 * Sizes[k]
  BY SizesAre, SizesGrow DEF Levels
<1>3. n.slot = 2 * Sizes[k] /\ n.size # n.slot
  BY <1>1, <1>2
<1>4. /\ 1 \in DOMAIN n.kids /\ only \in T /\ Fits(only, n) /\ Aligned(only)
      /\ Together(only.addr, n.addr, n.size)
  <2>1. 1 \in DOMAIN n.kids /\ only \in T
    BY <1>1
  <2>2. QED
    BY <1>1, <2>1 DEF Filled, InSlots, Placed
<1>5. x \in Items(Over(T, E, k), k)
  BY <1>1, SimplifyType
<1>6. x.addr = n.addr /\ x.size = n.size /\ x.sub = y
  BY DEF Item
<1> SUFFICES /\ y \in U /\ IsNode(y)
             /\ Together(y.addr, n.addr, n.size) /\ Multiple(n.size, y.size)
  <2> HIDE DEF x, y
  <2>1. Stands(x)
    BY <1>1, <1>6 DEF Stands, Aligned
  <2>2. x \in Items(U, k)
    <3> HIDE DEF U
    <3>1. QED BY <1>5, <1>6 DEF Items
  <2>3. QED
    BY <2>1, <2>2 DEF Standing, x, y
<1>7. Multiple(n.size, n.slot) /\ n.size \in Nat /\ n.slot \in Nat
  BY <1>1, <1>2 DEF InSlots
<1>8. CASE Len(n.kids) # 1
  <2>1. y = n
    BY <1>8 DEF Simplify
  <2>2. IsNode(n)
    BY <1>1 DEF IsNode
  <2>3. n \in U
    BY <1>1 DEF OverPlaced, InOrder
  <2>4. Together(n.addr, n.addr, n.size)
    BY <1>1 DEF Together
  <2>5. Multiple(n.size, n.size)
    BY <1>7 DEF Multiple
  <2>6. QED
    BY <2>1, <2>2, <2>3, <2>4, <2>5
<1>9. CASE Len(n.kids) = 1 /\ IsNode(only)
  <2>1. y = only
    BY <1>9 DEF Simplify
  <2>2. Multiple(n.slot, only.size) /\ only.size \in Nat
    BY <1>4, <1>9 DEF Fits, Aligned
  <2>3. Multiple(n.size, only.size)
    BY <1>7, <2>2, MultipleOf
  <2>4. only \in U
    BY <1>4 DEF OverPlaced
  <2>5. QED
    BY <1>4, <1>9, <2>1, <2>3, <2>4
<1>10. CASE Len(n.kids) = 1 /\ ~IsNode(only)
  <2> DEFINE m == [n EXCEPT !.addr = only.addr, !.size = only.size]
  <2>1. y = m
    BY <1>3, <1>10 DEF Simplify
  <2>2. only.addr \in Nat /\ only.size \in Nat /\ only.size = n.slot
    BY <1>4, <1>10 DEF Fits, Aligned
  <2>3. /\ m \in [addr : Nat, size : Nat, slot : {2 * Sizes[k]}, kids : Seq(T)]
        /\ m.slot = n.slot /\ m.kids = n.kids /\ m.size = only.size /\ m.addr = only.addr
    BY <1>1, <2>2
  <2> HIDE DEF m
  <2>4. m.size = 1 * m.slot /\ 1 \in Nat /\ 1 >= 1
    BY <1>2, <1>3, <2>2, <2>3
  <2>5. SizeAt(m, E)
    BY <2>4 DEF SizeAt
  <2>6. m \in Nodes(T, E, k)
    BY <1>1, <2>3, <2>5 DEF Nodes, NodeAt
  <2>7. IsNode(m)
    BY <2>3 DEF IsNode
  <2>8. Aligned(m)
    BY <1>4, <2>3 DEF Aligned
  <2>9. InSlots(m)
    <3>1. Multiple(m.size, m.slot)
      BY <2>4 DEF Multiple
    <3>2. \A i \in DOMAIN m.kids : m.kids[i] = only /\ i = 1
      BY <1>1, <1>10, <2>3
    <3>3. Fits(only, m)
      BY <1>4, <1>10, <2>2, <2>3 DEF Fits
    <3>4. QED
      BY <3>1, <3>2, <3>3 DEF InSlots
  <2>10. m \in U
    BY <2>6, <2>8, <2>9 DEF OverPlaced, InOrder
  <2>11. QED
    BY <1>4, <1>7, <2>1, <2>2, <2>3, <2>7, <2>10
<1>11. QED
  BY <1>8, <1>9, <1>10

\* The loop over one level has come to address p.
GroupedTo(s, T, E, k, p) ==
  /\ s.out \in Seq(Standing(OverPlaced(T, E, k), k)) /\ Ascending(s.out)
  /\ IF s.cur = None THEN Below(s.out, p)
     ELSE Filled(s.cur, T, E, k, p) /\ Below(s.out, s.cur.addr)

\* The end of what is complete.
DoneTo(s, p) == IF s.cur = None THEN p ELSE s.cur.addr + s.cur.size

\* The items of a complete level are in order.
LEMMA FinishedStands ==
  ASSUME NEW E \in SUBSET EntryRecords, NEW T, Closed(T, E), Placed(T),
         NEW k \in Levels, k + 1 \in Levels, NEW s, NEW p \in Nat, GroupedTo(s, T, E, k, p)
  PROVE  /\ Finished(s) \in Seq(Standing(OverPlaced(T, E, k), k))
         /\ Ascending(Finished(s)) /\ Below(Finished(s), DoneTo(s, p))
<1> DEFINE I == Standing(OverPlaced(T, E, k), k)
<1>1. \A x \in I : x.addr \in Nat /\ x.size \in Nat
  BY DEF Standing, Items
<1>2. s.out \in Seq(I) /\ Ascending(s.out)
  BY DEF GroupedTo
<1>3. CASE s.cur = None
  BY <1>2, <1>3 DEF GroupedTo, Finished, DoneTo
<1>4. CASE s.cur # None
  <2> DEFINE n == s.cur
             x == Item(n, Simplify(n))
             o == s.out
  <2>1. Filled(n, T, E, k, p) /\ Below(o, n.addr)
    BY <1>4 DEF GroupedTo
  <2>2. x.addr = n.addr /\ x.size = n.size
    BY DEF Item
  <2>3. Finished(s) = Append(o, x) /\ DoneTo(s, p) = n.addr + n.size
    BY <1>4 DEF Finished, DoneTo
  <2> HIDE DEF n, x, o, I
  <2>4. x \in I
    BY <2>1, SimplifyStands DEF x, I
  <2>5. n.addr \in Nat /\ n.size \in Nat
    BY <1>1, <2>2, <2>4
  <2> DEFINE c == n.addr + n.size
  <2>6. c \in Nat /\ x.addr + x.size <= c /\ Below(o, x.addr)
    BY <2>1, <2>2, <2>5
  <2> HIDE DEF c
  <2>7. Append(o, x) \in Seq(I) /\ Ascending(Append(o, x)) /\ Below(Append(o, x), c)
    BY <1>1, <1>2, <2>4, <2>6, AppendAscends DEF o
  <2>8. QED
    BY <2>3, <2>7 DEF c, I
<1>5. QED
  BY <1>3, <1>4

\* An item has the size of a level, and stands on its grid.
LEMMA ItemIs ==
  ASSUME NEW E, NEW T, Closed(T, E), Whole(E), NEW k \in Nat, NEW x \in Standing(T, k)
  PROVE  /\ x.addr \in Nat /\ x.size \in Nat /\ x.size > 0 /\ x.sub \in T
         /\ x.sub.addr >= x.addr /\ x.sub.addr < x.addr + x.size /\ Together(x.sub.addr, x.addr, x.size)
         /\ IsNode(x.sub) => Multiple(x.size, x.sub.size)
         /\ ~IsNode(x.sub) => x.sub.size = x.size
         /\ \E i \in Levels : i > k /\ x.size = 2 * Sizes[i]
         /\ \A i \in Levels : i <= k + 1 => Grid(x.addr, 2 * Sizes[i])
                                             /\ Grid(x.addr + x.size, 2 * Sizes[i])
<1>1. /\ x.addr \in Nat /\ x.size \in Nat /\ x.sub \in T
      /\ \/ \E i \in Levels : i > k /\ x.size = 2 * Sizes[i]
         \/ k = 0 /\ x.size < 2 * Smallest
      /\ IF IsNode(x.sub) THEN \E j \in Levels : j <= k /\ x.sub.slot = 2 * Sizes[j]
         ELSE x.size = x.sub.size /\ (x.size < 2 * Smallest => Tiny(x.sub))
  BY DEF Standing, Items
<1>2. /\ x.size > 0 /\ Grid(x.addr, x.size)
      /\ IF IsNode(x.sub) THEN Together(x.sub.addr, x.addr, x.size) /\ Multiple(x.size, x.sub.size)
         ELSE x.sub.addr = x.addr
  BY DEF Standing, Stands, Aligned
<1>3. Together(x.sub.addr, x.addr, x.size) /\ x.sub.addr \in Nat
  BY <1>1, <1>2 DEF Together
<1>4. x.sub.addr >= x.addr /\ x.sub.addr < x.addr + x.size
  <2> DEFINE a == x.addr
             b == x.sub.addr
             z == x.size
  <2>1. a \in Nat /\ b \in Nat /\ z \in Nat /\ z > 0 /\ Grid(a, z) /\ Together(b, a, z)
    BY <1>1, <1>2, <1>3
  <2> HIDE DEF a, b, z
  <2>2. a <= b /\ b < a + z
    BY <2>1, GridBlock
  <2>3. b >= a /\ b < a + z
    BY <2>1, <2>2
  <2>4. QED
    BY <2>3 DEF a, b, z
<1>5. \E i \in Levels : i > k /\ x.size = 2 * Sizes[i]
  <2> SUFFICES ASSUME k = 0, x.size < 2 * Smallest PROVE FALSE
    BY <1>1
  <2>1. ~IsNode(x.sub)
    BY <1>1 DEF Levels
  <2>2. x.sub \in E
    BY <1>1, <2>1 DEF Closed
  <2>3. QED
    BY <1>1, <2>1, <2>2 DEF Whole
<1>6. ASSUME NEW i \in Levels, i <= k + 1
      PROVE  Grid(x.addr, 2 * Sizes[i]) /\ Grid(x.addr + x.size, 2 * Sizes[i])
  <2>1. PICK j \in Levels : j > k /\ x.size = 2 * Sizes[j]
    BY <1>5
  <2>2. i <= j
    BY <1>6, <2>1 DEF Levels
  <2>3. Multiple(x.size, 2 * Sizes[i]) /\ 2 * Sizes[i] \in Nat
    BY <2>1, <2>2, SlotMultiple, SizesAre
  <2>4. QED
    BY <1>1, <1>2, <2>3, GridFiner
<1>7. QED
  BY <1>1, <1>2, <1>3, <1>4, <1>5, <1>6

\* One more descendant of the node that is being filled.
LEMMA FilledMore ==
  ASSUME NEW E \in SUBSET EntryRecords, NEW T, Closed(T, E), Placed(T), Whole(E),
         NEW k \in Levels, k + 1 \in Levels, NEW c, NEW p \in Nat, Filled(c, T, E, k, p),
         NEW e \in Standing(T, k - 1), e.size = 2 * Sizes[k], p <= e.addr,
         c.addr + c.size >= e.addr + e.size,
         NEW d \in Open(T, E, k), d.addr = c.addr, d.size = c.size, d.slot = c.slot,
         d.kids = Append(c.kids, e.sub)
  PROVE  Filled(d, T, E, k, e.addr + e.size)
<1> DEFINE z == 2 * Sizes[k]
           y == 2 * Sizes[k + 1]
           a == e.addr
           b == e.sub.addr
           u == c.addr
           o == c.kids
           l == d.kids
<1>1. /\ k \in Nat /\ k - 1 \in Nat /\ (k - 1) + 1 = k /\ z \in Nat /\ z > 0 /\ y \in Nat /\ y > 0
  BY SizesAre DEF Levels
<1>2. /\ a \in Nat /\ b \in Nat /\ b >= a /\ b < a + z /\ Together(b, a, z) /\ e.sub \in T
      /\ IsNode(e.sub) => Multiple(z, e.sub.size)
      /\ ~IsNode(e.sub) => e.sub.size = z
      /\ Grid(a, z)
  <2>1. k <= (k - 1) + 1
    BY <1>1
  <2>2. Grid(a, z)
    BY <1>1, <2>1, ItemIs
  <2>3. b \in Nat
    BY <1>1, ItemIs DEF Together
  <2>4. QED
    BY <1>1, <2>2, <2>3, ItemIs
<1>3. /\ c \in [addr : Nat, size : Nat, slot : {z}, kids : Seq(T)] /\ c.size = y
      /\ Aligned(c) /\ InSlots(c) /\ o # <<>> /\ o \in Seq(T)
      /\ \A i \in DOMAIN o : o[i].addr < p /\ Together(o[i].addr, u, y)
  BY DEF Filled, Open, Nodes
<1>4. c.slot = z /\ u \in Nat /\ Grid(u, y)
  BY <1>3 DEF Aligned
<1>5. /\ l \in Seq(T) /\ DOMAIN o = 1 .. Len(o) /\ Len(o) \in Nat /\ DOMAIN l = 1 .. Len(o) + 1
      /\ \A i \in 1 .. Len(o) : l[i] = o[i]
      /\ l[Len(o) + 1] = e.sub
  <2> DEFINE w == e.sub
  <2>1. o \in Seq(T) /\ w \in T /\ l = Append(o, w)
    BY <1>2, <1>3
  <2> HIDE DEF o, w, l
  <2>2. QED
    BY <2>1 DEF w
<1>6. u + y >= a + z
  BY <1>3
<1>7. \A i \in DOMAIN o : /\ o[i].addr \in Nat /\ u <= o[i].addr /\ o[i].addr < p
                          /\ Together(o[i].addr, u, y) /\ Fits(o[i], c)
  <2> SUFFICES ASSUME NEW i \in DOMAIN o
               PROVE  /\ o[i].addr \in Nat /\ u <= o[i].addr /\ o[i].addr < p
                      /\ Together(o[i].addr, u, y) /\ Fits(o[i], c)
    OBVIOUS
  <2>1. Together(o[i].addr, u, y) /\ o[i].addr < p /\ Fits(o[i], c)
    BY <1>3 DEF InSlots
  <2>2. o[i].addr \in Nat
    BY <2>1 DEF Together
  <2>3. u <= o[i].addr
    BY <1>1, <1>4, <2>1, <2>2, GridBlock
  <2>4. QED
    BY <2>1, <2>2, <2>3
<1>8. u < a
  <2>1. 1 \in DOMAIN o
    BY <1>3, <1>5
  <2>2. u <= o[1].addr /\ o[1].addr < p /\ o[1].addr \in Nat
    BY <1>7, <2>1
  <2> HIDE DEF u, a, o
  <2>3. QED
    BY <1>2, <1>4, <2>2 DEF a
<1>9. u <= b /\ b < u + y
  <2> HIDE DEF u, b, a, z, y
  <2>1. QED
    BY <1>1, <1>2, <1>4, <1>6, <1>8
<1>10. Together(b, u, y)
  BY <1>1, <1>2, <1>4, <1>9, GridBlock
<1>11. Fits(e.sub, d) /\ \A i \in DOMAIN o : Fits(o[i], d)
  BY <1>2, <1>4, <1>7, <1>9 DEF Fits
<1>12. \A i \in DOMAIN o : o[i].addr \div z < b \div z
  <2> SUFFICES ASSUME NEW i \in DOMAIN o PROVE o[i].addr \div z < b \div z
    OBVIOUS
  <2> DEFINE x == o[i].addr
  <2>1. x \in Nat /\ x < p
    BY <1>7
  <2> HIDE DEF x
  <2>2. x < a
    <3> HIDE DEF a
    <3>1. QED BY <1>2, <2>1 DEF a
  <2>3. x \div z < a \div z
    BY <1>1, <1>2, <2>1, <2>2, GridBefore
  <2>4. b \div z = a \div z
    BY <1>2 DEF Together
  <2>5. QED
    BY <2>3, <2>4 DEF x
<1>13. InSlots(d)
  <2>1. Multiple(d.size, d.slot)
    BY <1>3 DEF InSlots
  <2>2. \A i \in DOMAIN l : Fits(l[i], d)
    <3>1. \A i \in DOMAIN l : (i \in DOMAIN o /\ l[i] = o[i]) \/ l[i] = e.sub
      BY <1>5
    <3> HIDE DEF l
    <3>2. QED
      BY <1>11, <3>1
  <2>3. \A i, j \in DOMAIN o : i < j => o[i].addr \div z < o[j].addr \div z
    BY <1>3, <1>4 DEF InSlots
  <2>4. \A i, j \in DOMAIN l : i < j => l[i].addr \div z < l[j].addr \div z
    <3> SUFFICES ASSUME NEW i \in DOMAIN l, NEW j \in DOMAIN l, i < j
                 PROVE  l[i].addr \div z < l[j].addr \div z
      OBVIOUS
    <3>1. i \in DOMAIN o /\ l[i] = o[i]
      BY <1>5
    <3>2. CASE j \in DOMAIN o
      <4>1. l[j] = o[j]
        BY <1>5, <3>2
      <4>2. o[i].addr \div z < o[j].addr \div z
        BY <2>3, <3>1, <3>2
      <4> HIDE DEF l, o, z
      <4>3. QED
        BY <3>1, <4>1, <4>2
    <3>3. CASE j \notin DOMAIN o
      <4>1. l[j] = e.sub
        BY <1>5, <3>3
      <4>2. o[i].addr \div z < e.sub.addr \div z
        BY <1>12, <3>1
      <4> HIDE DEF l, o, z
      <4>3. QED
        BY <3>1, <4>1, <4>2
    <3>4. QED
      BY <3>2, <3>3
  <2>5. d.slot = z
    BY <1>4
  <2> HIDE DEF l, z
  <2>6. QED
    BY <2>1, <2>2, <2>4, <2>5 DEF InSlots, l
<1>14. Aligned(d)
  BY <1>3 DEF Aligned
<1>15. \A i \in DOMAIN l : l[i].addr < e.addr + e.size /\ Together(l[i].addr, d.addr, d.size)
  <2> SUFFICES ASSUME NEW i \in DOMAIN l
               PROVE  l[i].addr < e.addr + e.size /\ Together(l[i].addr, d.addr, d.size)
    OBVIOUS
  <2>1. d.addr = u /\ d.size = y /\ e.size = z /\ e.addr = a
    BY <1>3
  <2>2. CASE i \in DOMAIN o
    <3> DEFINE x == o[i].addr
    <3>1. l[i] = o[i] /\ x \in Nat /\ x < p /\ Together(x, u, y)
      BY <1>5, <1>7, <2>2
    <3>2. p <= a
      OBVIOUS
    <3> HIDE DEF x, a, z, u, y
    <3>3. x < a + z
      BY <1>1, <1>2, <3>1, <3>2
    <3>4. QED
      BY <2>1, <3>1, <3>3 DEF x
  <2>3. CASE i \notin DOMAIN o
    <3>1. l[i] = e.sub
      BY <1>5, <2>3
    <3> HIDE DEF a, z, u, y, l
    <3>2. QED
      BY <1>2, <1>10, <2>1, <3>1
  <2>4. QED
    BY <2>2, <2>3
<1>16. QED
  BY <1>13, <1>14, <1>15 DEF Filled

\* A node with its first descendant.
LEMMA FilledFirst ==
  ASSUME NEW E \in SUBSET EntryRecords, NEW T, Closed(T, E), Placed(T), Whole(E),
         NEW k \in Levels, k + 1 \in Levels,
         NEW e \in Standing(T, k - 1), e.size = 2 * Sizes[k],
         NEW d \in Open(T, E, k), d.addr = Down(e.addr, 2 * Sizes[k + 1]), d.kids = <<e.sub>>
  PROVE  Filled(d, T, E, k, e.addr + e.size)
<1> DEFINE z == 2 * Sizes[k]
           y == 2 * Sizes[k + 1]
           a == e.addr
           b == e.sub.addr
           u == d.addr
           l == d.kids
<1>1. /\ k \in Nat /\ k - 1 \in Nat /\ (k - 1) + 1 = k /\ z \in Nat /\ z > 0 /\ y \in Nat /\ y > 0
  BY SizesAre DEF Levels
<1>2. /\ a \in Nat /\ b \in Nat /\ b >= a /\ b < a + z /\ Together(b, a, z)
      /\ IsNode(e.sub) => Multiple(z, e.sub.size)
      /\ ~IsNode(e.sub) => e.sub.size = z
  <2>1. b \in Nat
    BY <1>1, ItemIs DEF Together
  <2>2. QED
    BY <1>1, <2>1, ItemIs
<1>3. d \in [addr : Nat, size : Nat, slot : {z}, kids : Seq(T)] /\ d.size = y
  BY DEF Open, Nodes
<1>4. u \in Nat /\ u <= a /\ Grid(u, y) /\ Together(a, u, y) /\ d.slot = z /\ u = Down(a, y)
  BY <1>1, <1>2, <1>3, GridIs
<1>5. Multiple(y, z)
  <2>1. k <= k + 1
    BY <1>1
  <2>2. QED
    BY <2>1, SlotMultiple
<1>6. Together(b, u, y)
  <2>1. Together(b, a, y)
    BY <1>1, <1>2, <1>5, TableTogether
  <2>2. QED
    BY <1>4, <2>1 DEF Together
<1>7. DOMAIN l = {1} /\ l[1] = e.sub
  OBVIOUS
<1>8. b >= u
  <2> HIDE DEF a, b, u
  <2>1. QED
    BY <1>2, <1>4
<1>9. Fits(e.sub, d)
  BY <1>2, <1>4, <1>8 DEF Fits
<1>10. InSlots(d)
  BY <1>3, <1>4, <1>5, <1>7, <1>9 DEF InSlots
<1>11. Aligned(d)
  BY <1>1, <1>3, <1>4 DEF Aligned
<1>12. QED
  BY <1>2, <1>3, <1>6, <1>7, <1>10, <1>11 DEF Filled

\* create_pte_tree: one more item of a level, in its place.
LEMMA GroupStepOrder ==
  ASSUME NEW E \in SUBSET EntryRecords, NEW T, Closed(T, E), Placed(T), Whole(E),
         NEW k \in Levels, k + 1 \in Levels,
         NEW s \in GroupStates(T, E, k), NEW p \in Nat, GroupedTo(s, T, E, k, p),
         NEW e \in Standing(T, k - 1), p <= e.addr
  PROVE  GroupedTo(GroupStep(2 * Sizes[k], 2 * Sizes[k + 1], s, e), T, E, k, e.addr + e.size)
<1> DEFINE z == 2 * Sizes[k]
           y == 2 * Sizes[k + 1]
           a == e.addr
           w == e.size
           c == s.cur
           I == Standing(OverPlaced(T, E, k), k)
           r == GroupStep(z, y, s, e)
<1>1. /\ k \in Nat /\ k - 1 \in Nat /\ (k - 1) + 1 = k /\ z \in Nat /\ z > 0 /\ y \in Nat /\ y > 0
      /\ z < y /\ Multiple(y, z)
  <2>1. Sizes[k] \in Nat /\ Sizes[k] > 0 /\ Sizes[k + 1] \in Nat /\ Sizes[k + 1] >= 4 * Sizes[k]
        /\ k \in Nat /\ k > 0
    BY SizesAre, SizesGrow DEF Levels
  <2>2. k <= k + 1
    BY <2>1
  <2>3. Multiple(y, z)
    BY <2>2, SlotMultiple
  <2>4. QED
    BY <2>1, <2>3
<1>2. /\ a \in Nat /\ w \in Nat /\ w > 0 /\ a + w \in Nat /\ Grid(a, z)
      /\ \E i \in Levels : i > k - 1 /\ w = 2 * Sizes[i]
  <2>1. k <= (k - 1) + 1
    BY <1>1
  <2>2. QED
    BY <1>1, <2>1, ItemIs
<1>3. w < y => w = z
  <2> SUFFICES ASSUME w < y PROVE w = z
    OBVIOUS
  <2>1. PICK i \in Levels : i > k - 1 /\ w = 2 * Sizes[i]
    BY <1>2
  <2>2. ~(i > k)
    <3> SUFFICES ASSUME i > k PROVE FALSE
      OBVIOUS
    <3>1. i = k + 1 \/ k + 1 < i
      BY <1>1 DEF Levels
    <3>2. k + 1 < i => Sizes[i] >= 4 * Sizes[k + 1]
      BY SizesGrow
    <3>3. Sizes[i] \in Nat /\ Sizes[k + 1] \in Nat
      BY SizesAre
    <3>4. QED
      BY <2>1, <3>1, <3>2, <3>3
  <2>3. i = k
    BY <1>1, <2>1, <2>2 DEF Levels
  <2>4. QED
    BY <2>1, <2>3
<1>4. w >= y => e \in I /\ Grid(a, y)
  <2> SUFFICES ASSUME w >= y PROVE e \in I /\ Grid(a, y)
    OBVIOUS
  <2>1. PICK i \in Levels : i > k - 1 /\ w = 2 * Sizes[i]
    BY <1>2
  <2>2. i > k
    <3>1. i # k
      BY <1>1, <2>1
    <3>2. QED
      BY <1>1, <2>1, <3>1 DEF Levels
  <2>3. Grid(a, y)
    <3>1. k + 1 <= i
      BY <1>1, <2>2 DEF Levels
    <3>2. Multiple(w, y)
      BY <2>1, <3>1, SlotMultiple
    <3>3. Grid(a, w)
      BY DEF Standing, Stands, Aligned
    <3> HIDE DEF y, w, a
    <3>4. QED
      BY <1>1, <1>2, <3>2, <3>3, GridFiner
  <2>4. e \in Items(OverPlaced(T, E, k), k)
    <3>1. e \in [addr : Nat, size : Nat, sub : T]
          /\ IF IsNode(e.sub) THEN \E j \in Levels : j <= k - 1 /\ e.sub.slot = 2 * Sizes[j]
             ELSE e.size = e.sub.size /\ (e.size < 2 * Smallest => Tiny(e.sub))
      BY DEF Standing, Items
    <3>2. e \in [addr : Nat, size : Nat, sub : OverPlaced(T, E, k)]
      BY <3>1 DEF OverPlaced
    <3>3. IsNode(e.sub) => \E j \in Levels : j <= k /\ e.sub.slot = 2 * Sizes[j]
      <4> SUFFICES ASSUME IsNode(e.sub) PROVE \E j \in Levels : j <= k /\ e.sub.slot = 2 * Sizes[j]
        OBVIOUS
      <4>1. PICK j \in Levels : j <= k - 1 /\ e.sub.slot = 2 * Sizes[j]
        BY <3>1
      <4>2. j <= k
        BY <1>1, <4>1 DEF Levels
      <4>3. QED
        BY <4>1, <4>2
    <3>4. QED
      BY <2>1, <2>2, <3>1, <3>2, <3>3 DEF Items
  <2>5. QED
    BY <2>3, <2>4 DEF Standing
<1>5. /\ Finished(s) \in Seq(I) /\ Ascending(Finished(s)) /\ Below(Finished(s), DoneTo(s, p))
  BY FinishedStands
<1>6. \A x \in I : x.addr \in Nat /\ x.size \in Nat /\ x.size > 0 /\ Grid(x.addr + x.size, y)
  <2>1. Closed(OverPlaced(T, E, k), E)
    BY OverIsPlaced
  <2>2. k + 1 <= k + 1
    BY <1>1
  <2>3. QED
    BY <1>1, <2>1, <2>2, ItemIs
<1>7. c # None =>
        /\ c.addr \in Nat /\ c.size = y /\ Grid(c.addr, y) /\ c.addr < a
        /\ Grid(c.addr + y, y) /\ Grid(c.addr + y, z)
  <2> SUFFICES ASSUME c # None
               PROVE  /\ c.addr \in Nat /\ c.size = y /\ Grid(c.addr, y) /\ c.addr < a
                      /\ Grid(c.addr + y, y) /\ Grid(c.addr + y, z)
    OBVIOUS
  <2>1. Filled(c, T, E, k, p)
    BY DEF GroupedTo
  <2>2. /\ c \in [addr : Nat, size : Nat, slot : {z}, kids : Seq(T)] /\ c.size = y
        /\ Aligned(c) /\ InSlots(c) /\ c.kids # <<>>
        /\ \A i \in DOMAIN c.kids : c.kids[i].addr < p /\ Together(c.kids[i].addr, c.addr, y)
    BY <2>1 DEF Filled, Open, Nodes
  <2>3. c.addr \in Nat /\ Grid(c.addr, y)
    BY <2>2 DEF Aligned
  <2>4. 1 \in DOMAIN c.kids
    BY <2>2
  <2> DEFINE b == c.kids[1].addr
             u == c.addr
  <2>5. b < p /\ Together(b, u, y) /\ b \in Nat
    BY <2>2, <2>4 DEF Together
  <2>6. u <= b
    BY <1>1, <2>3, <2>5, GridBlock
  <2>7. u < a
    <3>1. p <= a
      OBVIOUS
    <3> HIDE DEF u, b, a
    <3>2. QED BY <1>2, <2>3, <2>5, <2>6, <3>1 DEF u
  <2>8. Grid(u + y, y) /\ Grid(u + y, z)
    BY <1>1, <2>3, GridFiner
  <2>9. QED
    BY <2>2, <2>3, <2>7, <2>8
<1>8. CASE s.cur # None /\ e.size = z /\ End(s.cur) >= e.addr + z
  <2> DEFINE d == [c EXCEPT !.kids = Append(@, e.sub)]
  <2>1. r = [s EXCEPT !.cur.kids = Append(@, e.sub)]
    BY <1>8 DEF GroupStep
  <2>2. r = [s EXCEPT !.cur = d] /\ r.cur = d /\ r.out = s.out
    BY <2>1 DEF GroupStates
  <2>3. r \in GroupStates(T, E, k)
    <3>1. e \in Items(T, k - 1)
      BY DEF Standing
    <3>2. QED
      BY <3>1, GroupStepKeeps
  <2>4. c \in Open(T, E, k) /\ Filled(c, T, E, k, p) /\ Below(s.out, c.addr)
    BY <1>8 DEF GroupedTo, Filled
  <2>5. c \in [addr : Nat, size : Nat, slot : {z}, kids : Seq(T)]
    BY <2>4 DEF Open, Nodes
  <2>6. d.addr = c.addr /\ d.size = c.size /\ d.slot = c.slot /\ d.kids = Append(c.kids, e.sub)
    BY <2>5
  <2>7. e.sub \in T
    BY DEF Standing, Items
  <2>8. d \in Open(T, E, k)
    <3>1. r.cur \in Open(T, E, k) \cup {None}
      BY <2>3 DEF GroupStates
    <3>2. CASE r.cur \in Open(T, E, k)
      BY <2>2, <3>2
    <3>3. CASE r.cur = None
      <4>1. NodeAt(c, k, T, E) /\ c.size = y
        BY <2>4 DEF Open, Nodes
      <4> DEFINE l == Append(c.kids, e.sub)
      <4>2. KidAt(e.sub, k)
        <5>1. CASE IsNode(e.sub)
          <6>1. PICK j \in Levels : j <= k - 1 /\ e.sub.slot = 2 * Sizes[j]
            BY <5>1 DEF Standing, Items
          <6>2. j < k
            BY <1>1, <6>1 DEF Levels
          <6>3. QED
            BY <5>1, <6>1, <6>2 DEF KidAt
        <5>2. CASE ~IsNode(e.sub)
          BY <1>8, <5>2 DEF KidAt, Standing, Items
        <5>3. QED
          BY <5>1, <5>2
      <4>3. l \in Seq(T) /\ l # <<>> /\ \A j \in DOMAIN l : KidAt(l[j], k)
        <5> DEFINE o == c.kids
                   x == e.sub
        <5>1. o \in Seq(T) /\ x \in T /\ l = Append(o, x) /\ KidAt(x, k) /\ \A j \in DOMAIN o : KidAt(o[j], k)
          BY <2>7, <4>1, <4>2 DEF NodeAt
        <5> HIDE DEF l, o, x
        <5>2. l \in Seq(T) /\ l # <<>>
          BY <5>1
        <5>3. \A j \in DOMAIN l : (j \in DOMAIN o /\ l[j] = o[j]) \/ l[j] = x
          BY <5>1
        <5>4. QED
          BY <5>1, <5>2, <5>3
      <4> HIDE DEF l
      <4>4. d \in [addr : Nat, size : Nat, slot : {z}, kids : Seq(T)] /\ d.kids = l
        BY <2>5, <4>3 DEF l
      <4> HIDE DEF d
      <4>5. SizeAt(d, E) /\ d.slot = z
        BY <2>5, <2>6, <4>1 DEF NodeAt, SizeAt
      <4>6. NodeAt(d, k, T, E)
        BY <4>3, <4>4, <4>5 DEF NodeAt
      <4>7. QED
        BY <2>6, <4>1, <4>3, <4>4, <4>6 DEF Open, Nodes
    <3>4. QED
      BY <3>1, <3>2, <3>3
  <2>9. c.addr + c.size >= e.addr + e.size
    BY <1>8 DEF End
  <2> HIDE DEF d, c
  <2>10. Filled(d, T, E, k, a + w)
    BY <1>8, <2>4, <2>6, <2>8, <2>9, FilledMore
  <2>11. d # None => GroupedTo(r, T, E, k, a + w)
    BY <2>2, <2>4, <2>6, <2>10 DEF GroupedTo
  <2>12. d = None => GroupedTo(r, T, E, k, a + w)
    <3>1. s.out \in Seq(I) /\ Ascending(s.out) /\ Below(s.out, c.addr)
      BY <2>4 DEF GroupedTo
    <3>2. c.addr \in Nat /\ c.addr < a
      BY <1>7, <1>8 DEF c
    <3> DEFINE o == s.out
               u == c.addr
               q == a + w
    <3>3. u \in Nat /\ q \in Nat /\ u <= q
      <4> HIDE DEF a, w
      <4>1. QED
        BY <1>2, <3>2
    <3> HIDE DEF o, u, q, I
    <3>4. Below(o, q)
      BY <1>6, <3>1, <3>3 DEF Below, o, u
    <3>5. QED
      BY <2>2, <3>1, <3>4 DEF GroupedTo, o, q, I
  <2>13. QED
    BY <2>11, <2>12
<1>9. CASE ~(s.cur # None /\ e.size = z /\ End(s.cur) >= e.addr + z) /\ e.size >= y
  <2> DEFINE f == Finished(s)
             g == DoneTo(s, p)
             q == a + w
  <2>1. r = [cur |-> None, out |-> Append(f, e)]
    BY <1>9 DEF GroupStep
  <2>2. e \in I /\ Grid(a, y)
    BY <1>4, <1>9
  <2>3. g <= a /\ g \in Nat
    <3>1. CASE c = None
      BY <3>1 DEF DoneTo
    <3>2. CASE c # None
      <4>1. c.addr + y <= a
        BY <1>1, <1>2, <1>7, <2>2, <3>2, GridNext
      <4>2. g = c.addr + y
        BY <1>7, <3>2 DEF DoneTo
      <4>3. c.addr + y \in Nat
        BY <1>1, <1>7, <3>2
      <4>4. QED
        BY <4>1, <4>2, <4>3
    <3>3. QED
      BY <3>1, <3>2
  <2> HIDE DEF f, g, I
  <2>4. Below(f, a)
    BY <1>2, <1>5, <1>6, <2>3 DEF Below, f, g
  <2>5. q \in Nat /\ e.addr + e.size <= q
    BY <1>2
  <2>6. Append(f, e) \in Seq(I) /\ Ascending(Append(f, e)) /\ Below(Append(f, e), q)
    <3>1. f \in Seq(I) /\ Ascending(f)
      BY <1>5 DEF f
    <3>2. \A x \in I : x.addr \in Nat /\ x.size \in Nat
      BY <1>6
    <3>3. e \in I /\ Below(f, e.addr)
      BY <2>2, <2>4
    <3> HIDE DEF q
    <3>4. QED
      BY <2>5, <3>1, <3>2, <3>3, AppendAscends
  <2> DEFINE l == Append(f, e)
  <2>7. l \in Seq(I) /\ Ascending(l) /\ Below(l, q) /\ r.cur = None /\ r.out = l
    BY <2>1, <2>6
  <2> HIDE DEF l, r, q
  <2>8. GroupedTo(r, T, E, k, q)
    BY <2>7 DEF GroupedTo, I
  <2>9. QED
    BY <2>8 DEF r, q
<1>10. CASE ~(s.cur # None /\ e.size = z /\ End(s.cur) >= e.addr + z) /\ ~(e.size >= y)
  <2> DEFINE u == Down(a, y)
             d == [addr |-> u, size |-> y, slot |-> z, kids |-> <<e.sub>>]
             f == Finished(s)
             g == DoneTo(s, p)
  <2>1. r = [cur |-> d, out |-> f]
    BY <1>10 DEF GroupStep
  <2>2. w = z
    BY <1>1, <1>2, <1>3, <1>10
  <2>3. u \in Nat /\ u <= a /\ Grid(u, y)
    BY <1>1, <1>2, GridIs
  <2>4. \A b \in Nat : Grid(b, y) /\ b <= a => b <= u
    <3> SUFFICES ASSUME NEW b \in Nat, Grid(b, y), b <= a PROVE b <= u
      OBVIOUS
    <3>1. u < b => u + y <= b
      BY <1>1, <2>3, GridNext
    <3>2. a - u < y
      BY <1>1, <1>2, DownIs
    <3> HIDE DEF u
    <3>3. QED
      BY <1>1, <1>2, <2>3, <3>1, <3>2
  <2>5. Below(f, u)
    <3>1. CASE c = None
      <4>1. Below(f, p)
        BY <1>5, <3>1 DEF DoneTo
      <4> HIDE DEF f, I, u
      <4>2. ASSUME NEW i \in DOMAIN f PROVE f[i].addr + f[i].size <= u
        <5>1. f[i] \in I
          BY <1>5 DEF f
        <5> DEFINE b == f[i].addr + f[i].size
        <5>2. b \in Nat /\ Grid(b, y) /\ b <= p
          BY <1>6, <4>1, <5>1 DEF Below
        <5>3. p <= a
          OBVIOUS
        <5> HIDE DEF b
        <5>4. b <= a
          BY <1>2, <5>2, <5>3
        <5>5. QED
          BY <2>4, <5>2, <5>4 DEF b
      <4>3. QED
        BY <4>2 DEF Below
    <3>2. CASE c # None
      <4> DEFINE b == c.addr + y
      <4>1. b \in Nat /\ Grid(b, y) /\ Grid(b, z) /\ g = b
        BY <1>1, <1>7, <3>2 DEF DoneTo
      <4>2. ~(b >= a + z)
        BY <1>7, <1>10, <2>2, <3>2 DEF End
      <4>3. a < b => a + z <= b
        BY <1>1, <1>2, <4>1, GridNext
      <4> HIDE DEF b
      <4>4. b <= a
        BY <1>1, <1>2, <4>1, <4>2, <4>3
      <4>5. b <= u
        BY <2>4, <4>1, <4>4
      <4> HIDE DEF f, u, I
      <4>6. \A i \in DOMAIN f : f[i].addr + f[i].size \in Nat /\ f[i].addr + f[i].size <= b
        BY <1>5, <1>6, <4>1 DEF Below, f
      <4>7. QED
        BY <2>3, <4>1, <4>5, <4>6 DEF Below
    <3>3. QED
      BY <3>1, <3>2
  <2>6. e.sub \in T /\ KidAt(e.sub, k)
    <3>1. CASE IsNode(e.sub)
      <4>1. PICK j \in Levels : j <= k - 1 /\ e.sub.slot = 2 * Sizes[j]
        BY <3>1 DEF Standing, Items
      <4>2. j < k
        BY <1>1, <4>1 DEF Levels
      <4>3. e.sub \in T
        BY DEF Standing, Items
      <4>4. QED
        BY <3>1, <4>1, <4>2, <4>3 DEF KidAt
    <3>2. CASE ~IsNode(e.sub)
      BY <2>2, <3>2 DEF KidAt, Standing, Items
    <3>3. QED
      BY <3>1, <3>2
  <2> HIDE DEF u
  <2>7. /\ d \in [addr : Nat, size : Nat, slot : {z}, kids : Seq(T)]
        /\ d.kids = <<e.sub>> /\ d.slot = z /\ d.size = y /\ d.kids # <<>> /\ d.addr = u
    BY <1>1, <2>3, <2>6
  <2>8. \A j \in DOMAIN d.kids : KidAt(d.kids[j], k)
    BY <2>6, <2>7
  <2> HIDE DEF d
  <2>9. SizeAt(d, E)
    BY <1>1, <2>7 DEF SizeAt, Multiple
  <2>10. d \in Open(T, E, k)
    BY <2>7, <2>8, <2>9 DEF Open, Nodes, NodeAt
  <2>11. Filled(d, T, E, k, a + w)
    BY <2>2, <2>7, <2>10, FilledFirst DEF u
  <2>12. d # None => GroupedTo(r, T, E, k, a + w)
    <3> HIDE DEF f
    <3>1. QED
      BY <1>5, <2>1, <2>5, <2>7, <2>11 DEF GroupedTo, f
  <2>13. d = None => GroupedTo(r, T, E, k, a + w)
    <3> DEFINE q == a + w
    <3>1. u <= q /\ q \in Nat
      <4> HIDE DEF a, w
      <4>1. QED
        BY <1>2, <2>3
    <3> HIDE DEF f, q, I
    <3>2. \A i \in DOMAIN f : f[i].addr + f[i].size \in Nat
      BY <1>5, <1>6 DEF f
    <3>3. Below(f, q)
      BY <2>3, <2>5, <3>1, <3>2 DEF Below
    <3>4. QED
      BY <1>5, <2>1, <3>3 DEF GroupedTo, f, q, I
  <2>14. QED
    BY <2>12, <2>13
<1>11. QED
  BY <1>8, <1>9, <1>10

\* Tables lead from n down to entry e, and each of them holds the address a.
Leads(n, a, e) ==
  \E P : /\ n \in P
         /\ \A m \in P :
              IF IsNode(m) THEN Together(a, m.addr, m.size) /\ \E i \in DOMAIN m.kids : m.kids[i] \in P
              ELSE m = e

\* One of the items holds a, and leads to e.
ItemLeads(list, a, e) ==
  \E i \in DOMAIN list : Together(a, list[i].addr, list[i].size) /\ Leads(list[i].sub, a, e)

\* An item that is complete does, or the node that is being filled.
StateLeads(s, a, e) ==
  \/ ItemLeads(s.out, a, e)
  \/ /\ s.cur # None /\ Together(a, s.cur.addr, s.cur.size)
     /\ \E i \in DOMAIN s.cur.kids : Leads(s.cur.kids[i], a, e)

\* An entry leads to itself.
LEMMA EntryLeads ==
  ASSUME NEW e, ~IsNode(e), NEW a
  PROVE  Leads(e, a, e)
<1> DEFINE P == {e}
<1>1. e \in P /\ \A m \in P : IF IsNode(m) THEN Together(a, m.addr, m.size) /\ \E i \in DOMAIN m.kids : m.kids[i] \in P
                              ELSE m = e
  OBVIOUS
<1> HIDE DEF P
<1>2. QED
  BY <1>1 DEF Leads

\* A table leads where its descendants do.
LEMMA LeadsUp ==
  ASSUME NEW n, IsNode(n), NEW a, NEW e, Together(a, n.addr, n.size),
         NEW i \in DOMAIN n.kids, Leads(n.kids[i], a, e)
  PROVE  Leads(n, a, e)
<1>1. PICK P : /\ n.kids[i] \in P
               /\ \A m \in P :
                    IF IsNode(m) THEN Together(a, m.addr, m.size) /\ \E j \in DOMAIN m.kids : m.kids[j] \in P
                    ELSE m = e
  BY DEF Leads
<1> DEFINE Q == P \cup {n}
<1>2. n \in Q /\ n.kids[i] \in Q
  BY <1>1
<1>3. \A m \in Q :
        IF IsNode(m) THEN Together(a, m.addr, m.size) /\ \E j \in DOMAIN m.kids : m.kids[j] \in Q
        ELSE m = e
  BY <1>1
<1>4. QED
  BY <1>2, <1>3 DEF Leads

\* And it holds what it leads to, or is that.
LEMMA LeadsHolds ==
  ASSUME NEW n, NEW a, NEW e, Leads(n, a, e)
  PROVE  IF IsNode(n) THEN Together(a, n.addr, n.size) /\ \E i \in DOMAIN n.kids : Leads(n.kids[i], a, e)
         ELSE n = e
<1>1. PICK P : /\ n \in P
               /\ \A m \in P :
                    IF IsNode(m) THEN Together(a, m.addr, m.size) /\ \E j \in DOMAIN m.kids : m.kids[j] \in P
                    ELSE m = e
  BY DEF Leads
<1>2. CASE IsNode(n)
  <2>1. Together(a, n.addr, n.size) /\ \E i \in DOMAIN n.kids : n.kids[i] \in P
    BY <1>1, <1>2
  <2>2. PICK i \in DOMAIN n.kids : n.kids[i] \in P
    BY <2>1
  <2>3. Leads(n.kids[i], a, e)
    BY <1>1, <2>2 DEF Leads
  <2>4. QED
    BY <1>2, <2>1, <2>3
<1>3. CASE ~IsNode(n)
  BY <1>1, <1>3
<1>4. QED
  BY <1>2, <1>3

\* simplify_tree leaves out no table that is needed.
LEMMA SimplifyLeads ==
  ASSUME NEW n, IsNode(n), NEW a, NEW e, ~IsNode(e), Together(a, e.addr, e.size),
         NEW T, \A k \in T : k.addr \in Nat /\ k.size \in Nat,
         NEW z, n \in [addr : Nat, size : Nat, slot : {z}, kids : Seq(T)],
         Together(a, n.addr, n.size), NEW i \in DOMAIN n.kids, Leads(n.kids[i], a, e)
  PROVE  Leads(Simplify(n), a, e)
<1> DEFINE only == n.kids[1]
           u == only.addr
           v == only.size
           m == [n EXCEPT !.addr = u, !.size = v]
<1>1. Simplify(n) = n \/ (Len(n.kids) = 1 /\ (Simplify(n) = only \/ Simplify(n) = m))
  BY DEF Simplify
<1>2. CASE Simplify(n) = n
  BY <1>2, LeadsUp
<1>3. CASE Len(n.kids) = 1 /\ (Simplify(n) = only \/ Simplify(n) = m)
  <2>1. n.kids \in Seq(T) /\ i = 1 /\ 1 \in DOMAIN n.kids /\ Leads(only, a, e)
    BY <1>3
  <2>2. Together(a, only.addr, only.size)
    BY <2>1, LeadsHolds
  <2>3. DOMAIN m = DOMAIN n /\ m.addr = u /\ m.size = v /\ m.kids = n.kids
    <3>1. u \in Nat /\ v \in Nat
      BY <2>1
    <3> HIDE DEF u, v
    <3>2. QED
      BY <3>1
  <2> HIDE DEF m
  <2>4. IsNode(m) /\ m.addr = only.addr /\ m.size = only.size /\ m.kids = n.kids
    BY <2>3 DEF IsNode
  <2>5. Leads(m, a, e)
    BY <2>1, <2>2, <2>4, LeadsUp
  <2>6. QED
    BY <1>3, <2>1, <2>5 DEF m
<1>4. QED
  BY <1>1, <1>2, <1>3

\* A further item takes nothing away.
LEMMA MoreItemsLead ==
  ASSUME NEW I, NEW list \in Seq(I), NEW x, NEW a, NEW e
  PROVE  /\ ItemLeads(list, a, e) => ItemLeads(Append(list, x), a, e)
         /\ Together(a, x.addr, x.size) /\ Leads(x.sub, a, e) => ItemLeads(Append(list, x), a, e)
<1> DEFINE n == Len(list)
           m == Append(list, x)
<1>1. /\ n \in Nat /\ DOMAIN list = 1 .. n /\ DOMAIN m = 1 .. n + 1
      /\ \A i \in 1 .. n : m[i] = list[i]
      /\ m[n + 1] = x
  OBVIOUS
<1>2. n + 1 \in DOMAIN m /\ \A i \in DOMAIN list : i \in DOMAIN m /\ m[i] = list[i]
  BY <1>1
<1> HIDE DEF m, n
<1>3. QED
  BY <1>1, <1>2 DEF ItemLeads, m

\* A level that is complete leads where its last state did.
LEMMA FinishedLeads ==
  ASSUME NEW E, NEW T, Placed(T), NEW k \in Levels, NEW s \in GroupStates(T, E, k),
         NEW a, NEW e, ~IsNode(e), Together(a, e.addr, e.size), StateLeads(s, a, e)
  PROVE  ItemLeads(Finished(s), a, e)
<1> DEFINE c == s.cur
           x == Item(c, Simplify(c))
<1>1. CASE c = None
  BY <1>1 DEF Finished, StateLeads
<1>2. CASE c # None
  <2>1. c \in Open(T, E, k) /\ s.out \in Seq(Items(Over(T, E, k), k))
    BY <1>2 DEF GroupStates
  <2>2. c \in [addr : Nat, size : Nat, slot : {2 * Sizes[k]}, kids : Seq(T)] /\ IsNode(c)
    BY <2>1 DEF Open, Nodes, IsNode
  <2>3. \A m \in T : m.addr \in Nat /\ m.size \in Nat
    BY DEF Placed, Aligned
  <2>4. Finished(s) = Append(s.out, x)
    BY <1>2 DEF Finished
  <2>5. x.addr = c.addr /\ x.size = c.size /\ x.sub = Simplify(c)
    BY DEF Item
  <2> HIDE DEF x, c
  <2>6. CASE ItemLeads(s.out, a, e)
    BY <2>1, <2>4, <2>6, MoreItemsLead
  <2>7. CASE Together(a, c.addr, c.size) /\ \E i \in DOMAIN c.kids : Leads(c.kids[i], a, e)
    <3>1. PICK i \in DOMAIN c.kids : Leads(c.kids[i], a, e)
      BY <2>7
    <3>2. Leads(Simplify(c), a, e)
      BY <2>2, <2>3, <2>7, <3>1, SimplifyLeads
    <3>3. Together(a, x.addr, x.size) /\ Leads(x.sub, a, e)
      BY <2>5, <2>7, <3>2
    <3>4. QED
      BY <2>1, <2>4, <3>3, MoreItemsLead
  <2>8. QED
    BY <2>6, <2>7 DEF StateLeads, c
<1>3. QED
  BY <1>1, <1>2

\* None is a value of its own: not a record.
NoneIsNoRecord == None # [x \in DOMAIN None |-> None[x]]

\* So it is none of these.
LEMMA RecordsAreNotNone ==
  ASSUME NoneIsNoRecord
  PROVE  /\ \A T, z : \A n \in [addr : Nat, size : Nat, slot : z, kids : T] : n # None
         /\ \A e \in EntryRecords : e # None
         /\ \A h \in Halves : h # None
         /\ \A b \in Blocks : b # None
<1>1. ASSUME NEW n, n = [x \in DOMAIN n |-> n[x]] PROVE n # None
  BY <1>1 DEF NoneIsNoRecord
<1>2. \A T, z : \A n \in [addr : Nat, size : Nat, slot : z, kids : T] : n = [x \in DOMAIN n |-> n[x]]
  OBVIOUS
<1>3. \A n \in EntryRecords : n = [x \in DOMAIN n |-> n[x]]
  BY DEF EntryRecords
<1>4. \A n \in Halves : n = [x \in DOMAIN n |-> n[x]]
  BY DEF Halves
<1>5. \A n \in Blocks : n = [x \in DOMAIN n |-> n[x]]
  BY DEF Blocks
<1>6. QED
  BY <1>1, <1>2, <1>3, <1>4, <1>5

\* A step of the loop over one level leads where its item does, and where it did before.
LEMMA GroupStepLeads ==
  ASSUME NoneIsNoRecord, NEW E \in SUBSET EntryRecords, NEW T, Closed(T, E), Placed(T), Whole(E),
         NEW k \in Levels, k + 1 \in Levels,
         NEW s \in GroupStates(T, E, k), NEW p \in Nat, GroupedTo(s, T, E, k, p),
         NEW x \in Standing(T, k - 1), p <= x.addr,
         NEW a, NEW e, ~IsNode(e), Together(a, e.addr, e.size)
  PROVE  LET r == GroupStep(2 * Sizes[k], 2 * Sizes[k + 1], s, x) IN
         /\ StateLeads(s, a, e) => StateLeads(r, a, e)
         /\ Together(a, x.addr, x.size) /\ Leads(x.sub, a, e) => StateLeads(r, a, e)
<1> DEFINE z == 2 * Sizes[k]
           y == 2 * Sizes[k + 1]
           c == s.cur
           w == x.size
           q == x.addr + x.size
           r == GroupStep(z, y, s, x)
<1>1. r \in GroupStates(T, E, k) /\ GroupedTo(r, T, E, k, q)
  <2>1. x \in Items(T, k - 1)
    BY DEF Standing
  <2>2. QED
    BY <2>1, GroupStepKeeps, GroupStepOrder
<1>2. z \in Nat /\ z > 0 /\ y \in Nat /\ z < y /\ k \in Nat /\ k - 1 \in Nat
  <2>1. Sizes[k] \in Nat /\ Sizes[k] > 0 /\ Sizes[k + 1] \in Nat /\ Sizes[k + 1] >= 4 * Sizes[k]
        /\ k \in Nat /\ k > 0
    BY SizesAre, SizesGrow DEF Levels
  <2>2. QED
    BY <2>1
<1>3. /\ w \in Nat /\ w > 0 /\ x.addr \in Nat /\ x.sub \in T
      /\ Together(x.sub.addr, x.addr, w)
      /\ \E i \in Levels : i > k - 1 /\ w = 2 * Sizes[i]
  BY <1>2, ItemIs
<1>4. ~(w >= y) => Multiple(y, w)
  <2> SUFFICES ASSUME ~(w >= y) PROVE Multiple(y, w)
    OBVIOUS
  <2>1. PICK i \in Levels : w = 2 * Sizes[i]
    BY <1>3
  <2>2. ~(k + 1 < i)
    <3>1. k + 1 < i => Sizes[i] >= 4 * Sizes[k + 1]
      BY SizesGrow
    <3>2. Sizes[i] \in Nat /\ Sizes[k + 1] \in Nat
      BY SizesAre
    <3>3. QED
      BY <2>1, <3>1, <3>2
  <2>3. i <= k + 1
    BY <1>2, <2>2 DEF Levels
  <2>4. QED
    BY <2>1, <2>3, SlotMultiple
<1>5. ASSUME NEW d, d \in Open(T, E, k), d = r.cur, ~(w >= y), Together(a, x.addr, w),
             NEW i \in DOMAIN d.kids, d.kids[i] = x.sub
      PROVE  Together(a, d.addr, d.size)
  <2>1. d # None
    BY <1>5, RecordsAreNotNone DEF Open, Nodes
  <2>2. Filled(d, T, E, k, q)
    BY <1>1, <1>5, <2>1 DEF GroupedTo
  <2> DEFINE b == x.sub.addr
             u == d.addr
  <2>3. Together(b, u, y) /\ Together(b, x.addr, w)
    BY <1>3, <1>5, <2>2 DEF Filled, Open
  <2>4. a \in Nat /\ b \in Nat /\ Together(a, b, w)
    BY <1>5, <2>3 DEF Together
  <2>5. Multiple(y, w) /\ Multiple(w, w)
    <3>1. w = 1 * w /\ 1 \in Nat /\ 1 >= 1
      BY <1>3
    <3>2. QED
      BY <1>4, <1>5, <3>1 DEF Multiple
  <2>6. Together(a, b, y)
    <3> HIDE DEF b, w, y
    <3>1. QED
      BY <1>3, <2>4, <2>5, TableTogether
  <2>7. Together(a, u, y)
    BY <2>3, <2>6 DEF Together
  <2>8. d.size = y
    BY <1>5 DEF Open
  <2>9. QED
    BY <2>7, <2>8
<1>6. CASE s.cur # None /\ x.size = z /\ End(s.cur) >= x.addr + z
  <2> DEFINE d == [c EXCEPT !.kids = Append(@, x.sub)]
  <2>1. r = [s EXCEPT !.cur.kids = Append(@, x.sub)]
    BY <1>6 DEF GroupStep
  <2>2. r = [s EXCEPT !.cur = d] /\ r.cur = d /\ r.out = s.out
    BY <2>1 DEF GroupStates
  <2>3. c \in Open(T, E, k)
    BY <1>6 DEF GroupStates
  <2>4. c \in [addr : Nat, size : Nat, slot : {z}, kids : Seq(T)]
    BY <2>3 DEF Open, Nodes
  <2>5. d.addr = c.addr /\ d.size = c.size /\ d.kids = Append(c.kids, x.sub)
        /\ d \in [addr : Nat, size : Nat, slot : {z}, kids : Seq(T)]
    <3> DEFINE o == x.sub
               l == Append(c.kids, o)
    <3>1. o \in T /\ c.kids \in Seq(T)
      BY <1>3, <2>4
    <3>2. l \in Seq(T)
      <4> HIDE DEF o
      <4>1. QED BY <3>1
    <3>3. d = [c EXCEPT !.kids = l]
      OBVIOUS
    <3> HIDE DEF d, l, c, z
    <3>4. /\ d.addr = c.addr /\ d.size = c.size /\ d.kids = l
          /\ d \in [addr : Nat, size : Nat, slot : {z}, kids : Seq(T)]
      BY <2>4, <3>2, <3>3
    <3>5. QED
      BY <3>4 DEF l
  <2>6. d # None
    BY <2>5, RecordsAreNotNone
  <2>7. d \in Open(T, E, k)
    BY <1>1, <2>2, <2>6 DEF GroupStates
  <2> DEFINE n == Len(c.kids)
  <2>8. /\ n \in Nat /\ n + 1 \in DOMAIN d.kids /\ d.kids[n + 1] = x.sub
        /\ \A i \in DOMAIN c.kids : i \in DOMAIN d.kids /\ d.kids[i] = c.kids[i]
    <3> DEFINE l == c.kids
               m == d.kids
    <3>1. l \in Seq(T) /\ m = Append(l, x.sub)
      BY <2>4, <2>5
    <3> HIDE DEF l, m
    <3>2. /\ Len(l) \in Nat /\ Len(l) + 1 \in DOMAIN m /\ m[Len(l) + 1] = x.sub
          /\ \A i \in DOMAIN l : i \in DOMAIN m /\ m[i] = l[i]
      BY <3>1
    <3>3. QED
      BY <3>2 DEF l, m
  <2>9. ~(w >= y)
    BY <1>2, <1>6
  <2> HIDE DEF d, r, n
  <2>10. StateLeads(s, a, e) => StateLeads(r, a, e)
    BY <2>2, <2>5, <2>6, <2>8 DEF StateLeads
  <2>11. Together(a, x.addr, w) /\ Leads(x.sub, a, e) => StateLeads(r, a, e)
    BY <1>5, <2>2, <2>6, <2>7, <2>8, <2>9 DEF StateLeads
  <2>12. QED
    BY <2>10, <2>11 DEF r
<1>7. CASE ~(s.cur # None /\ x.size = z /\ End(s.cur) >= x.addr + z) /\ x.size >= y
  <2> DEFINE f == Finished(s)
  <2>1. r.out = Append(f, x) /\ r.cur = None
    BY <1>7 DEF GroupStep
  <2>2. f \in Seq(Items(Over(T, E, k), k))
    BY FinishedType
  <2>3. StateLeads(s, a, e) => ItemLeads(f, a, e)
    BY FinishedLeads
  <2> HIDE DEF f, r
  <2>4. QED
    BY <2>1, <2>2, <2>3, MoreItemsLead DEF StateLeads, r
<1>8. CASE ~(s.cur # None /\ x.size = z /\ End(s.cur) >= x.addr + z) /\ ~(x.size >= y)
  <2> DEFINE f == Finished(s)
             d == [addr |-> Down(x.addr, y), size |-> y, slot |-> z, kids |-> <<x.sub>>]
  <2>1. r.out = f /\ r.cur = d
    BY <1>8 DEF GroupStep
  <2>2. StateLeads(s, a, e) => ItemLeads(f, a, e)
    BY FinishedLeads
  <2>3. d # None
    <3>1. Down(x.addr, y) \in Nat
      <4>1. y > 0
        BY <1>2
      <4> HIDE DEF y
      <4>2. QED
        BY <1>2, <1>3, <4>1, DownIs
    <3>2. <<x.sub>> \in Seq(T)
      BY <1>3
    <3> DEFINE b == Down(x.addr, y)
               l == <<x.sub>>
    <3> HIDE DEF b, l, z, y
    <3>3. d \in [addr : Nat, size : Nat, slot : {z}, kids : Seq(T)]
      BY <1>2, <3>1, <3>2 DEF b, l
    <3>4. QED
      BY <3>3, RecordsAreNotNone
  <2>4. d \in Open(T, E, k)
    BY <1>1, <2>1, <2>3 DEF GroupStates
  <2>5. 1 \in DOMAIN d.kids /\ d.kids[1] = x.sub
    OBVIOUS
  <2> HIDE DEF f, r, d
  <2>6. StateLeads(s, a, e) => StateLeads(r, a, e)
    BY <2>1, <2>2 DEF StateLeads
  <2>7. Together(a, x.addr, w) /\ Leads(x.sub, a, e) => StateLeads(r, a, e)
    BY <1>5, <1>8, <2>1, <2>3, <2>4, <2>5 DEF StateLeads
  <2>8. QED
    BY <2>6, <2>7 DEF r
<1>9. QED
  BY <1>6, <1>7, <1>8

\* What the items of a list lead to, those of another one do.
LeadsOn(l, m) ==
  \A a, e : ~IsNode(e) /\ Together(a, e.addr, e.size) /\ ItemLeads(l, a, e) => ItemLeads(m, a, e)

\* create_pte_tree: a level made of items in order is in order, and leads where they do.
LEMMA GroupStands ==
  ASSUME NEW E \in SUBSET EntryRecords, NEW T, Closed(T, E), Placed(T), Whole(E),
         NEW k \in Levels, k + 1 \in Levels,
         NEW list \in Seq(Standing(T, k - 1)), Ascending(list)
  PROVE  /\ Group(list, 2 * Sizes[k], 2 * Sizes[k + 1]) \in Seq(Standing(OverPlaced(T, E, k), k))
         /\ Ascending(Group(list, 2 * Sizes[k], 2 * Sizes[k + 1]))
         /\ NoneIsNoRecord => LeadsOn(list, Group(list, 2 * Sizes[k], 2 * Sizes[k + 1]))
<1> DEFINE n == Len(list)
           slot == 2 * Sizes[k]
           nodesize == 2 * Sizes[k + 1]
           b == [cur |-> None, out |-> <<>>]
           Is(f) == f = [i \in 0 .. n |-> IF i = 0 THEN b
                                         ELSE GroupStep(slot, nodesize, f[i - 1], list[i])]
           h == CHOOSE f : Is(f)
           S == GroupStates(T, E, k)
           g == [x \in (1 .. n) \X S |-> GroupStep(slot, nodesize, x[2], list[x[1]])]
<1>1. n \in Nat /\ \A i \in 1 .. n : list[i] \in Standing(T, k - 1) /\ list[i] \in Items(T, k - 1)
  BY DEF Standing
<1>2. Group(list, slot, nodesize) = Finished(h[n])
  BY DEF Group
<1>3. b \in S /\ GroupedTo(b, T, E, k, 0)
  <2>1. b \in S
    BY DEF GroupStates
  <2>2. GroupedTo(b, T, E, k, 0)
    BY DEF GroupedTo, Ascending, Below
  <2>3. QED
    BY <2>1, <2>2
<1>4. \A i \in 1 .. n : \A s \in S : GroupStep(slot, nodesize, s, list[i]) \in S
  BY <1>1, GroupStepKeeps
<1>5. \A i \in 1 .. n : \A s \in S : g[<<i, s>>] = GroupStep(slot, nodesize, s, list[i])
  OBVIOUS
<1>6. \A i \in 1 .. n : list[i].addr \in Nat /\ list[i].size \in Nat
  BY <1>1 DEF Items
<1>7. \A i, j \in 1 .. n : i < j => list[i].addr + list[i].size <= list[j].addr
  BY DEF Ascending
<1> HIDE DEF n, b, S, g, slot, nodesize
<1>8. PICK f \in [0 .. n -> S] : IsFold(f, n, b, g)
  <2>1. \A i \in 1 .. n : \A s \in S : g[<<i, s>>] \in S
    BY <1>4, <1>5
  <2>2. n \in Nat
    BY <1>1
  <2>3. QED
    BY <1>3, <2>1, <2>2, FoldExists
<1>9. Is(f)
  <2>1. \A i \in 0 .. n : i # 0 => g[<<i, f[i - 1]>>] = GroupStep(slot, nodesize, f[i - 1], list[i])
    BY <1>1, <1>5
  <2>2. QED
    BY <1>8, <2>1 DEF IsFold
<1>10. Is(h)
  BY <1>9
<1> HIDE DEF h
<1>11. h[0] = b /\ \A i \in 1 .. n : h[i] = GroupStep(slot, nodesize, h[i - 1], list[i])
  BY <1>1, <1>10
<1> DEFINE Ordered(i) == \E p \in Nat : GroupedTo(h[i], T, E, k, p) /\ \A j \in i + 1 .. n : p <= list[j].addr
           LedTo(i, a, e) == \E j \in 1 .. i : Together(a, list[j].addr, list[j].size) /\ Leads(list[j].sub, a, e)
           Led(i) == \A a, e : ~IsNode(e) /\ Together(a, e.addr, e.size) /\ LedTo(i, a, e) => StateLeads(h[i], a, e)
           N == {i \in Nat : i <= n => h[i] \in S /\ Ordered(i) /\ (NoneIsNoRecord => Led(i))}
<1>12. 0 \in N
  <2>1. 0 \in Nat /\ \A j \in 0 + 1 .. n : 0 <= list[j].addr
    BY <1>1, <1>6
  <2>2. Led(0)
    OBVIOUS
  <2>3. QED
    BY <1>3, <1>11, <2>1, <2>2
<1>13. ASSUME NEW m \in Nat, m \in N PROVE m + 1 \in N
  <2> SUFFICES ASSUME m + 1 <= n
               PROVE  h[m + 1] \in S /\ Ordered(m + 1) /\ (NoneIsNoRecord => Led(m + 1))
    OBVIOUS
  <2> DEFINE i == m + 1
             e == list[i]
             s == h[m]
             c == e.addr + e.size
  <2>1. i \in 1 .. n /\ i - 1 = m /\ m <= n /\ i \in Nat
    BY <1>1
  <2>2. e \in Standing(T, k - 1) /\ e.addr \in Nat /\ e.size \in Nat
    BY <1>1, <1>6, <2>1
  <2>3. s \in S /\ Ordered(m) /\ (NoneIsNoRecord => Led(m))
    BY <1>13, <2>1
  <2>4. PICK p \in Nat : GroupedTo(s, T, E, k, p) /\ \A j \in m + 1 .. n : p <= list[j].addr
    BY <2>3
  <2>5. p <= e.addr
    BY <1>1, <2>1, <2>4
  <2>6. h[i] = GroupStep(slot, nodesize, s, e)
    BY <1>11, <2>1
  <2> HIDE DEF i, s
  <2> HIDE DEF e
  <2>7. GroupedTo(h[i], T, E, k, c)
    BY <2>2, <2>3, <2>4, <2>5, <2>6, GroupStepOrder DEF S, slot, nodesize
  <2>8. h[i] \in S
    BY <1>4, <2>1, <2>3, <2>6 DEF e
  <2>9. c \in Nat
    BY <2>2
  <2>10. \A j \in i + 1 .. n : c <= list[j].addr
    <3> SUFFICES ASSUME NEW j \in i + 1 .. n PROVE c <= list[j].addr
      OBVIOUS
    <3>1. j \in 1 .. n /\ i < j
      BY <1>1, <2>1
    <3>2. QED
      BY <1>7, <2>1, <3>1 DEF e
  <2>11. Ordered(i)
    BY <2>7, <2>9, <2>10
  <2>12. ASSUME NoneIsNoRecord PROVE Led(i)
    <3> SUFFICES ASSUME NEW a, NEW d, ~IsNode(d), Together(a, d.addr, d.size), LedTo(i, a, d)
                 PROVE  StateLeads(h[i], a, d)
      OBVIOUS
    <3>1. /\ StateLeads(s, a, d) => StateLeads(h[i], a, d)
          /\ Together(a, e.addr, e.size) /\ Leads(e.sub, a, d) => StateLeads(h[i], a, d)
      BY <2>2, <2>3, <2>4, <2>5, <2>6, <2>12, GroupStepLeads DEF S, slot, nodesize
    <3>2. PICK j \in 1 .. i : Together(a, list[j].addr, list[j].size) /\ Leads(list[j].sub, a, d)
      OBVIOUS
    <3>3. CASE j \in 1 .. m
      <4>1. LedTo(m, a, d)
        BY <3>2, <3>3
      <4>2. Led(m)
        BY <2>3, <2>12
      <4> HIDE DEF LedTo
      <4>3. QED
        BY <3>1, <4>1, <4>2 DEF s
    <3>4. CASE j \notin 1 .. m
      <4>1. j = i
        BY <3>4 DEF i
      <4>2. QED
        BY <3>1, <3>2, <4>1 DEF e
    <3>5. QED
      BY <3>3, <3>4
  <2> HIDE DEF Led
  <2>13. QED
    BY <2>8, <2>11, <2>12 DEF i
<1>14. Nat \subseteq N
  <2> HIDE DEF N
  <2>1. QED BY <1>12, <1>13, NatInd
<1>15. \E p \in Nat : GroupedTo(h[n], T, E, k, p)
  BY <1>1, <1>14
<1> DEFINE o == Finished(h[n])
<1>16. ASSUME NoneIsNoRecord PROVE LeadsOn(list, o)
  <2> SUFFICES ASSUME NEW a, NEW e, ~IsNode(e), Together(a, e.addr, e.size), ItemLeads(list, a, e)
               PROVE  ItemLeads(o, a, e)
    BY DEF LeadsOn
  <2>1. LedTo(n, a, e)
    BY DEF ItemLeads, n
  <2>2. n \in N
    <3> HIDE DEF N, n
    <3>1. QED BY <1>1, <1>14
  <2>3. h[n] \in S /\ Led(n)
    <3>1. n <= n
      BY <1>1
    <3> HIDE DEF LedTo, Led, Ordered
    <3>2. QED
      BY <1>16, <2>2, <3>1
  <2>4. StateLeads(h[n], a, e)
    BY <2>1, <2>3
  <2>5. QED
    BY <2>3, <2>4, FinishedLeads DEF S
<1>17. o \in Seq(Standing(OverPlaced(T, E, k), k)) /\ Ascending(o)
  BY <1>15, FinishedStands
<1> HIDE DEF o
<1>18. QED
  BY <1>2, <1>16, <1>17 DEF slot, nodesize, o

\* The tree of entries in order is one of nodes in their places.
LEMMA TreePlaced ==
  ASSUME NEW list \in Seq(Blocks), NEW l \in Seq(EntriesOf(list)), Ascending(l), Whole(ToSet(l))
  PROVE  \E T : /\ Closed(T, ToSet(l)) /\ Placed(T) /\ Tree(l) \in T /\ IsNode(Tree(l))
                /\ Tree(l).addr = 0 /\ Tree(l).size = Space
                /\ NoneIsNoRecord => None \notin T
                /\ NoneIsNoRecord => \A a, e : e \in ToSet(l) /\ Together(a, e.addr, e.size) =>
                     \E i \in DOMAIN Tree(l).kids : Leads(Tree(l).kids[i], a, e)
<1> DEFINE E == ToSet(l)
           n == Len(Sizes) - 1
           b == [i \in DOMAIN l |-> Item(l[i], l[i])]
           Is(f, m) == f = [k \in 0 .. m |-> IF k = 0 THEN b
                                            ELSE Group(f[k - 1], 2 * Sizes[k], 2 * Sizes[k + 1])]
           h == CHOOSE f : Is(f, n)
           t == [addr |-> 0, size |-> Space, slot |-> 2 * Largest,
                 kids |-> [i \in DOMAIN h[n] |-> h[n][i].sub]]
<1>1. Tree(l) = t
  BY DEF Tree
<1>2. n \in Nat /\ n + 1 = Len(Sizes)
  BY SizesAre
<1>3. E \in SUBSET EntryRecords /\ \A e \in E : e \in EntriesOf(list)
  BY DEF EntriesOf, ToSet
<1>4. \A e \in E : ~IsNode(e)
  <2> SUFFICES ASSUME NEW e \in E PROVE ~IsNode(e)
    OBVIOUS
  <2>1. DOMAIN e = {"addr", "size", "lo", "hi", "emu", "bm"}
    BY <1>3 DEF EntryRecords
  <2>2. QED
    BY <2>1 DEF IsNode
<1>5. Closed(E, E)
  BY <1>4 DEF Closed
<1>6. Whole(E)
  OBVIOUS
<1>7. ASSUME NEW e \in E
      PROVE  /\ e.addr \in Nat /\ e.size \in Nat /\ Aligned(e)
             /\ \E i \in Levels : i > 0 /\ e.size = 2 * Sizes[i]
  <2>1. e.addr \in Nat /\ e.size \in Nat /\ e \in EntriesOf(list)
    BY <1>3 DEF EntryRecords
  <2>2. PICK z \in Nat : EntryOf(e, z, list)
    BY <2>1 DEF EntriesOf
  <2>3. e.size = 2 * z /\ ~(e.size < 2 * Smallest)
    BY <1>6, <2>2 DEF EntryOf, Whole
  <2>4. ~(z < Smallest)
    BY <2>3, SizesAre
  <2>5. z \in ToSet(Sizes) /\ e.addr % e.size = 0
    BY <2>2, <2>3, <2>4 DEF EntryOf
  <2>6. PICK i \in Levels : z = Sizes[i]
    BY <2>5, SizesAre
  <2>7. i > 0 /\ z > 0 /\ e.size > 0
    BY <2>3, <2>6, SizesAre DEF Levels
  <2>8. Grid(e.addr, e.size)
    BY <2>1, <2>5, <2>7, GridIs
  <2>9. QED
    BY <2>1, <2>3, <2>6, <2>7, <2>8 DEF Aligned
<1>8. Placed(E)
  BY <1>4, <1>7 DEF Placed
<1>9. b \in Seq(Standing(E, 0)) /\ Ascending(b)
  <2>1. ASSUME NEW e \in E PROVE Item(e, e) \in Standing(E, 0)
    <3> DEFINE x == Item(e, e)
    <3>1. x.addr = e.addr /\ x.size = e.size /\ x.sub = e /\ x = [addr |-> e.addr, size |-> e.size, sub |-> e]
      BY DEF Item
    <3>2. Aligned(x) /\ ~IsNode(e) /\ ~(e.size < 2 * Smallest)
      BY <1>4, <1>6, <1>7, <3>1 DEF Aligned, Whole
    <3>3. Stands(x)
      BY <3>1, <3>2 DEF Stands
    <3>4. x \in Items(E, 0)
      BY <1>7, <3>1, <3>2 DEF Items
    <3>5. QED
      BY <3>3, <3>4 DEF Standing
  <2>2. l \in Seq(E)
    BY DEF ToSet
  <2>3. \A i \in DOMAIN l : b[i].addr = l[i].addr /\ b[i].size = l[i].size
    BY DEF Item
  <2>4. DOMAIN b = DOMAIN l
    OBVIOUS
  <2>5. Ascending(b)
    <3> HIDE DEF b
    <3>1. QED
      BY <2>3, <2>4 DEF Ascending
  <2> HIDE DEF E
  <2>6. QED
    BY <2>1, <2>2, <2>5
<1> HIDE DEF E, b, n
<1>10. \E f : Is(f, n)
  <2> DEFINE N == {m \in Nat : \E f : Is(f, m)}
  <2>1. 0 \in N
    <3>1. Is([k \in 0 .. 0 |-> b], 0)
      OBVIOUS
    <3>2. QED
      BY <3>1
  <2>2. ASSUME NEW m \in Nat, m \in N PROVE m + 1 \in N
    <3>1. PICK f : Is(f, m)
      BY <2>2
    <3> DEFINE e == [k \in 0 .. m + 1 |-> IF k <= m THEN f[k]
                                          ELSE Group(f[m], 2 * Sizes[m + 1], 2 * Sizes[m + 2])]
    <3>2. ASSUME NEW k \in 0 .. m + 1
          PROVE  e[k] = IF k = 0 THEN b ELSE Group(e[k - 1], 2 * Sizes[k], 2 * Sizes[k + 1])
      <4>1. CASE k <= m
        <5>1. e[k] = f[k] /\ (k # 0 => e[k - 1] = f[k - 1])
          BY <4>1
        <5>2. f[k] = IF k = 0 THEN b ELSE Group(f[k - 1], 2 * Sizes[k], 2 * Sizes[k + 1])
          BY <3>1, <4>1
        <5>3. QED
          BY <5>1, <5>2
      <4>2. CASE k = m + 1
        <5>1. e[k] = Group(f[m], 2 * Sizes[m + 1], 2 * Sizes[m + 2]) /\ e[k - 1] = f[m] /\ k # 0
              /\ k + 1 = m + 2
          BY <4>2
        <5>2. QED
          BY <4>2, <5>1
      <4>3. QED
        BY <4>1, <4>2
    <3>3. e = [k \in 0 .. m + 1 |-> e[k]]
      OBVIOUS
    <3> HIDE DEF e
    <3>4. Is(e, m + 1)
      BY <3>2, <3>3
    <3>5. QED
      BY <3>4
  <2>3. Nat \subseteq N
    <3> HIDE DEF N
    <3>1. QED BY <2>1, <2>2, NatInd
  <2>4. QED
    BY <1>2, <2>3
<1>11. Is(h, n)
  BY <1>10
<1> HIDE DEF h
<1>12. h[0] = b /\ \A k \in 1 .. n : h[k] = Group(h[k - 1], 2 * Sizes[k], 2 * Sizes[k + 1])
  BY <1>2, <1>11
<1> DEFINE P(k) == \E T : Closed(T, E) /\ Placed(T) /\ (NoneIsNoRecord => None \notin T) /\ h[k] \in Seq(Standing(T, k)) /\ Ascending(h[k])
           L(k) == \A a, e : e \in E /\ Together(a, e.addr, e.size) => ItemLeads(h[k], a, e)
           K == {k \in Nat : k <= n => P(k) /\ (NoneIsNoRecord => L(k))}
<1>13. 0 \in K
  <2>1. P(0)
    <3>1. NoneIsNoRecord => None \notin E
      BY <1>3, RecordsAreNotNone
    <3>2. QED
      BY <1>5, <1>8, <1>9, <1>12, <3>1
  <2>2. L(0)
    <3> SUFFICES ASSUME NEW a, NEW e \in E, Together(a, e.addr, e.size) PROVE ItemLeads(h[0], a, e)
      OBVIOUS
    <3>1. PICK i \in DOMAIN l : e = l[i]
      BY DEF E, ToSet
    <3>2. i \in DOMAIN b /\ b[i].addr = e.addr /\ b[i].size = e.size /\ b[i].sub = e
      BY <3>1 DEF b, Item
    <3>3. Leads(e, a, e)
      BY <1>4, EntryLeads
    <3>4. QED
      BY <1>12, <3>2, <3>3 DEF ItemLeads
  <2> HIDE DEF L, P
  <2>3. QED
    BY <2>1, <2>2
<1>14. ASSUME NEW k \in Nat, k \in K PROVE k + 1 \in K
  <2> SUFFICES ASSUME k + 1 <= n PROVE P(k + 1) /\ (NoneIsNoRecord => L(k + 1))
    OBVIOUS
  <2> DEFINE i == k + 1
  <2>1. i \in 1 .. n /\ i - 1 = k /\ i \in Levels /\ i + 1 \in Levels /\ k <= n
    BY <1>2 DEF Levels
  <2>2. PICK T : Closed(T, E) /\ Placed(T) /\ (NoneIsNoRecord => None \notin T) /\ h[k] \in Seq(Standing(T, k)) /\ Ascending(h[k])
    BY <1>14, <2>1
  <2> HIDE DEF i
  <2>3. h[k] \in Seq(Standing(T, i - 1))
    BY <2>1, <2>2
  <2> DEFINE o == Group(h[k], 2 * Sizes[i], 2 * Sizes[i + 1])
             U == OverPlaced(T, E, i)
  <2>4. o \in Seq(Standing(U, i)) /\ Ascending(o) /\ (NoneIsNoRecord => LeadsOn(h[k], o))
    BY <1>3, <1>6, <2>1, <2>2, <2>3, GroupStands
  <2>5. h[i] = o
    BY <1>12, <2>1
  <2>6. Closed(U, E) /\ Placed(U)
    BY <2>1, <2>2, OverIsPlaced
  <2> HIDE DEF o
  <2> HIDE DEF U
  <2>7. P(i)
    <3>1. NoneIsNoRecord => None \notin U
      BY <2>2, RecordsAreNotNone DEF U, OverPlaced, InOrder, Nodes
    <3>2. QED
      BY <2>4, <2>5, <2>6, <3>1
  <2>8. ASSUME NoneIsNoRecord PROVE L(i)
    <3>1. L(k)
      BY <1>14, <2>1, <2>8
    <3>2. QED
      BY <1>4, <2>4, <2>5, <2>8, <3>1 DEF LeadsOn
  <2> HIDE DEF L, P
  <2>9. QED
    BY <2>7, <2>8 DEF i
<1>15. Nat \subseteq K
  <2> HIDE DEF K
  <2>1. QED BY <1>13, <1>14, NatInd
<1>15a. P(n) /\ (NoneIsNoRecord => L(n))
  <2>1. n \in Nat /\ n <= n
    BY <1>2
  <2>2. n \in K
    <3> HIDE DEF K
    <3>1. QED BY <1>15, <2>1
  <2> HIDE DEF L, P
  <2>3. QED
    BY <2>1, <2>2
<1>16. PICK T : Closed(T, E) /\ Placed(T) /\ (NoneIsNoRecord => None \notin T) /\ h[n] \in Seq(Standing(T, n)) /\ Ascending(h[n])
  BY <1>15a
<1> DEFINE last_ == h[n]
           kids == [i \in DOMAIN last_ |-> last_[i].sub]
           U == T \cup {t}
           y == 2 * Largest
           m == Len(Sizes)
<1>17. t = [addr |-> 0, size |-> Space, slot |-> y, kids |-> kids]
  OBVIOUS
<1>18. y = 2 * Sizes[m] /\ y \in Nat /\ y > 0 /\ m \in Levels /\ Space \in Nat /\ Space > 0
       /\ Space % y = 0
  BY SizesAre, SmallestIs, PageTablesAssumption DEF Largest
<1>19. ASSUME NEW x \in Standing(T, n)
       PROVE  /\ x.sub \in T /\ KidAt(x.sub, m) /\ x.addr \in Nat /\ x.size = y
              /\ Grid(x.addr, y) /\ Together(x.sub.addr, x.addr, y)
              /\ IF IsNode(x.sub) THEN Multiple(y, x.sub.size) ELSE x.sub.size = y
  <2>1. /\ x.addr \in Nat /\ x.sub \in T /\ Together(x.sub.addr, x.addr, x.size)
        /\ IF IsNode(x.sub) THEN Multiple(x.size, x.sub.size) ELSE x.sub.size = x.size
        /\ \E i \in Levels : i > n /\ x.size = 2 * Sizes[i]
    BY <1>2, <1>6, <1>16, ItemIs
  <2>2. (\A i \in Levels : i > n => i = m) /\ (\A j \in Levels : j <= n => j < m)
    BY <1>2 DEF Levels
  <2>3. x.size = 2 * Sizes[m]
    BY <2>1, <2>2
  <2>4. KidAt(x.sub, m)
    <3>1. IsNode(x.sub) => \E j \in Levels : j <= n /\ x.sub.slot = 2 * Sizes[j]
      BY DEF Standing, Items
    <3>2. QED
      BY <2>1, <2>2, <2>3, <3>1 DEF KidAt
  <2>5. Grid(x.addr, x.size)
    BY DEF Standing, Stands, Aligned
  <2> HIDE DEF y
  <2>6. x.size = y
    BY <1>18, <2>3
  <2>7. QED
    BY <2>1, <2>4, <2>5, <2>6
<1> HIDE DEF y
<1>20. last_ \in Seq(Standing(T, n)) /\ Ascending(last_)
  BY <1>16
<1> HIDE DEF last_
<1>21. DOMAIN kids = DOMAIN last_ /\ \A i \in DOMAIN last_ : last_[i] \in Standing(T, n) /\ kids[i] = last_[i].sub
  BY <1>20
<1>22. kids \in Seq(T) /\ \A j \in DOMAIN kids : KidAt(kids[j], m)
  BY <1>19, <1>20
<1> HIDE DEF kids, t
<1>23. t.slot = y /\ t.slot = 2 * Sizes[m] /\ t.kids = kids /\ t.size = Space /\ IsNode(t) /\ t.addr = 0
  BY <1>17, <1>18 DEF IsNode
<1>24. \E j \in Nat : j >= 1 /\ Space = j * y
  <2>1. Grid(Space, y)
    BY <1>18, GridIs
  <2>2. PICK j \in Nat : Space = y * j
    BY <2>1 DEF Grid
  <2>3. y * j = j * y /\ y * 0 = 0
    BY <1>18
  <2>4. j # 0
    BY <1>18, <2>2, <2>3
  <2>5. QED
    BY <2>2, <2>3, <2>4
<1>25. SizeAt(t, E) /\ Multiple(t.size, t.slot)
  BY <1>23, <1>24 DEF SizeAt, Multiple
<1>26. \A s \in Seq(T) : s \in Seq(U)
  OBVIOUS
<1>27. NodeAt(t, m, U, E)
  BY <1>22, <1>23, <1>25, <1>26 DEF NodeAt
<1>28. Closed(U, E)
  <2>1. ASSUME NEW x \in T PROVE IF IsNode(x) THEN \E i \in Levels : NodeAt(x, i, U, E) ELSE x \in E
    BY <1>16, <1>26 DEF Closed, NodeAt
  <2>2. QED
    BY <1>18, <1>23, <1>27, <2>1 DEF Closed
<1>29. Aligned(t)
  <2>1. Grid(0, Space)
    <3>1. 0 = Space * 0 /\ 0 \in Nat
      BY <1>18
    <3>2. QED
      BY <3>1 DEF Grid
  <2>2. QED
    BY <1>18, <1>23, <2>1 DEF Aligned
<1>30. InSlots(t)
  <2>1. ASSUME NEW i \in DOMAIN kids PROVE Fits(kids[i], t)
    <3>1. /\ Together(kids[i].addr, last_[i].addr, y)
          /\ IF IsNode(kids[i]) THEN Multiple(y, kids[i].size) ELSE kids[i].size = y
      BY <1>19, <1>21
    <3>2. kids[i].addr >= 0
      BY <3>1 DEF Together
    <3>3. QED
      BY <1>23, <3>1, <3>2 DEF Fits
  <2>2. ASSUME NEW i \in DOMAIN kids, NEW j \in DOMAIN kids, i < j
        PROVE  kids[i].addr \div y < kids[j].addr \div y
    <3> DEFINE a == last_[i].addr
               c == last_[j].addr
    <3>1. /\ a \in Nat /\ last_[i].size = y /\ Together(kids[i].addr, a, y)
          /\ c \in Nat /\ Grid(c, y) /\ Together(kids[j].addr, c, y)
      BY <1>19, <1>21
    <3>2. a + y <= c
      BY <1>20, <1>21, <2>2, <3>1 DEF Ascending
    <3> HIDE DEF a, c
    <3>3. a < c
      BY <1>18, <3>1, <3>2
    <3>4. a \div y < c \div y
      BY <1>18, <3>1, <3>3, GridBefore
    <3>5. kids[i].addr \div y = a \div y /\ kids[j].addr \div y = c \div y
      BY <3>1 DEF Together
    <3>6. QED
      BY <3>4, <3>5
  <2>3. QED
    BY <1>23, <1>25, <2>1, <2>2 DEF InSlots
<1>31. Placed(U)
  BY <1>16, <1>29, <1>30 DEF Placed
<1>32. ASSUME NoneIsNoRecord, NEW a, NEW e \in E, Together(a, e.addr, e.size)
      PROVE  \E i \in DOMAIN t.kids : Leads(t.kids[i], a, e)
  <2>1. ItemLeads(last_, a, e)
    BY <1>15a, <1>32 DEF last_
  <2>2. QED
    BY <1>21, <1>23, <2>1 DEF ItemLeads
<1>33. NoneIsNoRecord => None \notin U
  <2>1. t \in [addr : Nat, size : Nat, slot : {y}, kids : Seq(T)]
    BY <1>17, <1>18, <1>22
  <2>2. QED
    BY <1>16, <2>1, RecordsAreNotNone DEF U
<1>34. QED
  BY <1>1, <1>23, <1>28, <1>31, <1>32, <1>33 DEF E

-----------------------------------------------------------------------------
(* What a search comes to in the nodes of the tree                           *)

\* Blocks are counted from an address of the grid as from 0.
LEMMA GridPlus ==
  ASSUME NEW z \in Nat, z > 0, NEW b \in Nat, Grid(b, z), NEW d \in Nat
  PROVE  (b + d) \div z = (b \div z) + (d \div z)
<1> DEFINE q == d \div z
           r == d % z
<1>1. d = z * q + r /\ q \in Nat /\ r \in 0 .. z - 1
  OBVIOUS
<1>2. PICK t \in Nat : b = z * t
  BY DEF Grid
<1>3. b \div z = t
  <2>1. (z * t + 0) \div z = t /\ z * t + 0 = z * t
    BY DivUnique
  <2>2. QED
    BY <1>2, <2>1
<1> HIDE DEF q, r
<1>4. b + d = z * (t + q) + r
  <2>1. z * (t + q) = z * t + z * q /\ z * t \in Nat /\ z * q \in Nat
    BY <1>1
  <2> DEFINE x == z * q
             y == z * t
             w == z * (t + q)
  <2>2. x \in Nat /\ y \in Nat /\ w = y + x /\ b = y /\ d = x + r /\ r \in Nat
    BY <1>1, <1>2, <2>1
  <2> HIDE DEF x, y, w
  <2>3. b + d = w + r
    BY <2>2
  <2>4. QED
    BY <2>3 DEF w
<1>5. (z * (t + q) + r) \div z = t + q
  BY <1>1, DivUnique
<1>6. QED
  BY <1>3, <1>4, <1>5 DEF q

\* The remainder is the distance from the start of the block.
LEMMA GridRest ==
  ASSUME NEW z \in Nat, z > 0, NEW b \in Nat, Grid(b, z), NEW a, Together(a, b, z)
  PROVE  a \in Nat /\ a % z \in Nat /\ a = b + (a % z) /\ a % z < z
<1>1. a \in Nat /\ b <= a /\ a < b + z
  BY GridBlock DEF Together
<1> DEFINE d == a - b
<1>2. d \in 0 .. z - 1 /\ a = b + d
  BY <1>1
<1> HIDE DEF d
<1>3. PICK t \in Nat : b = z * t
  BY DEF Grid
<1>4. (z * t + d) % z = d
  BY <1>2, DivUnique
<1>5. QED
  BY <1>2, <1>3, <1>4

\* A quotient is a number.
LEMMA DivNat ==
  ASSUME NEW a \in Nat, NEW z \in Nat, z > 0
  PROVE  a \div z \in Nat
OBVIOUS

\* output_ptetree: slot x of the table holds the descendant that stands there.
LEMMA InSlotIs ==
  ASSUME NEW n, NEW T, Aligned(n), InSlots(n), n.kids \in Seq(T), n.slot \in Nat, n.slot > 0,
         \A i \in DOMAIN n.kids : n.kids[i].addr \in Nat,
         NEW x \in Nat
  PROVE  /\ InSlot(n, x) # None => \E i \in DOMAIN n.kids :
              InSlot(n, x) = n.kids[i] /\ (n.kids[i].addr - n.addr) \div n.slot = x
         /\ \A i \in DOMAIN n.kids :
              (n.kids[i].addr - n.addr) \div n.slot = x => InSlot(n, x) = n.kids[i]
<1> DEFINE m == Len(n.kids)
           z == n.slot
           u == n.addr
           index(i) == (n.kids[i].addr - u) \div z
           Is(f) == f = [i \in 0 .. m |-> IF i = 0 THEN 0 ELSE AtLeast(index(i), f[i - 1]) + 1]
           used == CHOOSE f : Is(f)
           g == [y \in (1 .. m) \X Nat |-> AtLeast(index(y[1]), y[2]) + 1]
           here == {i \in DOMAIN n.kids : used[i] - 1 = x}
<1>1. m \in Nat /\ DOMAIN n.kids = 1 .. m
  OBVIOUS
<1>2. InSlot(n, x) = IF here = {} THEN None ELSE n.kids[CHOOSE i \in here : TRUE]
  BY DEF InSlot
<1>3. \A i \in 1 .. m : /\ n.kids[i].addr - u \in Nat /\ index(i) \in Nat
                        /\ n.kids[i].addr \div z = (u \div z) + index(i)
  <2> SUFFICES ASSUME NEW i \in 1 .. m
               PROVE  /\ n.kids[i].addr - u \in Nat /\ index(i) \in Nat
                      /\ n.kids[i].addr \div z = (u \div z) + index(i)
    OBVIOUS
  <2> DEFINE b == n.kids[i].addr
             d == b - u
  <2>1. b >= u /\ b \in Nat /\ u \in Nat /\ z \in Nat /\ z > 0
    BY <1>1 DEF InSlots, Fits, Aligned
  <2>2. d \in Nat /\ u + d = b
    <3> HIDE DEF b, u
    <3>1. QED BY <2>1
  <2>3. Grid(u, z)
    BY <2>1, GridFiner DEF Aligned, InSlots
  <2> HIDE DEF d, b, u, z
  <2>4. b \div z = (u \div z) + (d \div z)
    BY <2>1, <2>2, <2>3, GridPlus
  <2>5. d \div z \in Nat
    BY <2>1, <2>2
  <2>6. QED
    BY <2>2, <2>4, <2>5 DEF d, b, u, z
<1>4. \A i, j \in 1 .. m : i < j => index(i) < index(j)
  <2> SUFFICES ASSUME NEW i \in 1 .. m, NEW j \in 1 .. m, i < j PROVE index(i) < index(j)
    OBVIOUS
  <2>1. n.kids[i].addr \div z < n.kids[j].addr \div z
    BY <1>1 DEF InSlots
  <2>2. u \div z \in Nat
    <3>1. u \in Nat /\ z \in Nat /\ z > 0
      BY DEF Aligned
    <3> HIDE DEF u, z
    <3>2. QED BY <3>1, DivNat
  <2> DEFINE p == index(i)
             q == index(j)
             o == u \div z
  <2>3. p \in Nat /\ q \in Nat /\ o \in Nat /\ o + p < o + q
    BY <1>3, <2>1, <2>2
  <2> HIDE DEF p, q, o
  <2>4. p < q
    BY <2>3
  <2>5. QED
    BY <2>4 DEF p, q
<1>5. \A i \in 1 .. m : \A s \in Nat : g[<<i, s>>] = AtLeast(index(i), s) + 1 /\ g[<<i, s>>] \in Nat
  <2> SUFFICES ASSUME NEW i \in 1 .. m, NEW s \in Nat
               PROVE  g[<<i, s>>] = AtLeast(index(i), s) + 1 /\ g[<<i, s>>] \in Nat
    OBVIOUS
  <2>1. index(i) \in Nat
    BY <1>3
  <2> HIDE DEF index, m
  <2>2. g[<<i, s>>] = AtLeast(index(i), s) + 1
    OBVIOUS
  <2> HIDE DEF g
  <2>3. QED
    BY <2>1, <2>2 DEF AtLeast
<1> HIDE DEF m, g, index
<1>6. PICK f \in [0 .. m -> Nat] : IsFold(f, m, 0, g)
  BY <1>1, <1>5, FoldExists
<1>7. Is(f)
  <2>1. \A i \in 0 .. m : i # 0 => g[<<i, f[i - 1]>>] = AtLeast(index(i), f[i - 1]) + 1
    BY <1>1, <1>5
  <2>2. QED
    BY <1>6, <2>1 DEF IsFold
<1>8. Is(used)
  BY <1>7
<1> HIDE DEF used
<1>9. used[0] = 0 /\ \A i \in 1 .. m : used[i] = AtLeast(index(i), used[i - 1]) + 1
  <2>1. 0 \in 0 .. m /\ \A i \in 1 .. m : i \in 0 .. m /\ i # 0
    BY <1>1
  <2>2. \A i \in 0 .. m : used[i] = IF i = 0 THEN 0 ELSE AtLeast(index(i), used[i - 1]) + 1
    BY <1>8
  <2>3. QED
    BY <2>1, <2>2
<1> DEFINE N == {i \in Nat : i <= m /\ i # 0 => used[i] = index(i) + 1}
<1>10. 0 \in N
  OBVIOUS
<1>11. ASSUME NEW k \in Nat, k \in N PROVE k + 1 \in N
  <2> SUFFICES ASSUME k + 1 <= m PROVE used[k + 1] = index(k + 1) + 1
    OBVIOUS
  <2> DEFINE i == k + 1
  <2>1. i \in 1 .. m /\ i - 1 = k /\ k <= m
    BY <1>1
  <2>2. used[i] = AtLeast(index(i), used[k]) + 1
    BY <1>9, <2>1
  <2>3. index(i) \in Nat
    BY <1>3, <2>1 DEF index
  <2>4. used[k] \in Nat /\ used[k] <= index(i)
    <3>1. CASE k = 0
      BY <1>9, <2>3, <3>1
    <3>2. CASE k # 0
      <4>1. k \in 1 .. m /\ k < i
        BY <2>1, <3>2
      <4>2. used[k] = index(k) + 1 /\ index(k) < index(i) /\ index(k) \in Nat
        <5>1. index(k) \in Nat
          BY <1>3, <4>1 DEF index
        <5>2. QED
          BY <1>4, <1>11, <2>1, <3>2, <4>1, <5>1
      <4>3. QED
        BY <2>3, <4>2
    <3>3. QED
      BY <3>1, <3>2
  <2> HIDE DEF i
  <2>5. QED
    BY <2>2, <2>3, <2>4 DEF AtLeast, i
<1>12. Nat \subseteq N
  <2> HIDE DEF N
  <2>1. QED BY <1>10, <1>11, NatInd
<1>13. ASSUME NEW i \in 1 .. m
      PROVE  index(i) \in Nat /\ used[i] = index(i) + 1
  <2>1. index(i) \in Nat
    BY <1>3 DEF index
  <2>2. i \in Nat /\ i <= m /\ i # 0
    BY <1>1
  <2>3. QED
    BY <1>12, <2>1, <2>2
<1>14. here = {i \in 1 .. m : index(i) = x}
  <2>1. ASSUME NEW i \in 1 .. m PROVE used[i] - 1 = index(i)
    <3> DEFINE p == index(i)
               q == used[i]
    <3>1. p \in Nat /\ q = p + 1
      BY <1>13
    <3> HIDE DEF p, q
    <3>2. q - 1 = p
      BY <3>1
    <3>3. QED
      BY <3>2 DEF p, q
  <2>2. here = {i \in 1 .. m : used[i] - 1 = x}
    BY <1>1
  <2> HIDE DEF here
  <2>3. QED
    BY <2>1, <2>2
<1> HIDE DEF here
<1>15. ASSUME InSlot(n, x) # None
      PROVE  \E i \in DOMAIN n.kids : InSlot(n, x) = n.kids[i] /\ index(i) = x
  BY <1>1, <1>2, <1>14, <1>15
<1>16. ASSUME NEW i \in DOMAIN n.kids, index(i) = x
      PROVE  InSlot(n, x) = n.kids[i]
  <2>1. i \in here /\ here # {}
    BY <1>1, <1>14, <1>16
  <2> DEFINE j == CHOOSE j \in here : TRUE
  <2>2. j \in here
    BY <2>1
  <2> HIDE DEF j
  <2>3. j \in 1 .. m /\ index(j) = x /\ i \in 1 .. m /\ index(i) = x
    BY <1>1, <1>14, <1>16, <2>2
  <2>4. ~(i < j) /\ ~(j < i)
    BY <1>4, <2>3
  <2>5. i = j
    BY <1>1, <2>3, <2>4
  <2>6. QED
    BY <1>2, <2>1, <2>5 DEF j
<1>17. QED
  BY <1>15, <1>16 DEF index

\* What stands in the slot of an address holds this address.
LEMMA SlotHolds ==
  ASSUME NEW T, NEW E, Closed(T, E), Placed(T), NEW n \in NodesOf(T),
         NEW a, Together(a, n.addr, n.size), Slot(n, a) # None
  PROVE  LET k == Slot(n, a) IN
         /\ k \in T /\ Together(a, k.addr, n.slot)
         /\ IF IsNode(k) THEN Multiple(n.slot, k.size) ELSE k.size = n.slot
<1> DEFINE z == n.slot
           y == n.size
           u == n.addr
           k == Slot(n, a)
           d == a % y
           x == d \div z
<1>1. n \in T /\ IsNode(n) /\ Aligned(n) /\ InSlots(n)
  BY DEF NodesOf, Placed
<1>2. n.kids \in Seq(T) /\ z \in Nat /\ z > 0
  <2>1. PICK i \in Levels : NodeAt(n, i, T, E)
    BY <1>1 DEF Closed
  <2>2. z = 2 * Sizes[i] /\ Sizes[i] \in Nat /\ Sizes[i] > 0
    BY <2>1, SizesAre DEF NodeAt
  <2>3. QED
    BY <2>1, <2>2 DEF NodeAt
<1>3. u \in Nat /\ y \in Nat /\ y > 0 /\ Grid(u, y) /\ Multiple(y, z)
  BY <1>1 DEF Aligned, InSlots
<1>4. \A i \in DOMAIN n.kids : n.kids[i] \in T /\ n.kids[i].addr \in Nat
  BY <1>1, <1>2 DEF Placed, Aligned
<1>5. d \in Nat /\ a = u + d /\ a \in Nat
  <2> HIDE DEF u, y
  <2>1. QED
    BY <1>3, GridRest DEF u, y
<1>6. Grid(u, z)
  BY <1>2, <1>3, GridFiner
<1>7. x \in Nat
  <2> HIDE DEF d, z
  <2>1. QED BY <1>2, <1>5, DivNat
<1>8. k = InSlot(n, x)
  BY DEF Slot
<1>9. PICK i \in DOMAIN n.kids : k = n.kids[i] /\ (n.kids[i].addr - u) \div z = x
  <2> HIDE DEF x
  <2>1. QED
    BY <1>1, <1>2, <1>4, <1>7, <1>8, InSlotIs
<1>10. Fits(k, n) /\ k \in T /\ k.addr \in Nat
  BY <1>1, <1>4, <1>9 DEF InSlots
<1> DEFINE b == k.addr
           c == b - u
<1>11. b \in Nat /\ c \in Nat /\ b = u + c /\ c \div z = x
  <2>1. b >= u /\ b \in Nat
    BY <1>10 DEF Fits
  <2>2. c \div z = x
    BY <1>9
  <2> HIDE DEF b, u
  <2>3. QED
    BY <1>3, <2>1, <2>2
<1> HIDE DEF b, c, d, u, z, k
<1>12. a \div z = (u \div z) + (d \div z)
  BY <1>2, <1>3, <1>5, <1>6, GridPlus
<1>13. b \div z = (u \div z) + (c \div z)
  BY <1>2, <1>3, <1>6, <1>11, GridPlus
<1>14. a \div z = b \div z
  BY <1>11, <1>12, <1>13
<1>15. Together(a, k.addr, z)
  BY <1>5, <1>11, <1>14 DEF Together, b
<1>16. QED
  BY <1>10, <1>15 DEF Fits, z, k

\* The golden address is that of a table which holds the address.
LEMMA GoldenHolds ==
  ASSUME NEW z \in Nat, z > 0, NEW y \in Nat, y > 0, Multiple(z, y),
         NEW b \in Nat, NEW a, Together(a, b, z), (a % z) \div y = (b % z) \div y
  PROVE  Together(a, b, y)
<1> DEFINE u == Down(a, z)
           p == a % z
           q == b % z
<1>1. a \in Nat /\ Grid(u, z) /\ u \in Nat /\ Together(a, u, z)
  BY GridIs DEF Together
<1>2. Together(b, u, z)
  BY <1>1 DEF Together
<1>3. p \in Nat /\ a = u + p
  <2> HIDE DEF u
  <2>1. QED BY <1>1, GridRest
<1>4. q \in Nat /\ b = u + q
  <2> HIDE DEF u
  <2>1. QED BY <1>1, <1>2, GridRest
<1>5. Grid(u, y)
  <2> HIDE DEF u
  <2>1. QED BY <1>1, GridFiner
<1> HIDE DEF u, p, q
<1>6. a \div y = (u \div y) + (p \div y)
  BY <1>1, <1>3, <1>5, GridPlus
<1>7. b \div y = (u \div y) + (q \div y)
  BY <1>1, <1>4, <1>5, GridPlus
<1>8. p \div y = q \div y
  BY DEF p, q
<1>9. QED
  BY <1>1, <1>6, <1>7, <1>8 DEF Together

\* What a search has come to holds the address it looks for.
IsFor(s, a) ==
  /\ s.found = "node" => Together(a, s.node.addr, s.node.size)
  /\ s.found = "leaf" /\ s.leaf # EmptyEntry =>
       Together(a, s.leaf.addr, s.slot) /\ s.leaf.size = s.slot

\* One step goes to what holds it, too.
LEMMA StepIsFor ==
  ASSUME NEW T, NEW E, Closed(T, E), Placed(T), NEW s \in SearchStates(T, E),
         NEW a, NEW software \in BOOLEAN, IsFor(s, a)
  PROVE  IsFor(SearchStep(s, a, software), a)
<1> DEFINE n == s.node
           k == Slot(n, a)
           r == SearchStep(s, a, software)
<1>1. CASE s.found # "node"
  BY <1>1 DEF SearchStep
<1>2. CASE s.found = "node"
  <2>1. n \in NodesOf(T) /\ Together(a, n.addr, n.size)
    BY <1>2 DEF SearchStates, Found, Leaves, Transits, NoLeaf, IsFor
  <2>2. k # None => /\ k \in T /\ Together(a, k.addr, n.slot)
                    /\ IF IsNode(k) THEN Multiple(n.slot, k.size) ELSE k.size = n.slot
    BY <2>1, SlotHolds
  <2>3. n.slot \in Nat /\ n.slot > 0
    <3>1. PICK i \in Levels : NodeAt(n, i, T, E)
      BY <2>1 DEF Closed, NodesOf
    <3>2. n.slot = 2 * Sizes[i] /\ Sizes[i] \in Nat /\ Sizes[i] > 0
      BY <3>1, SizesAre DEF NodeAt
    <3>3. QED
      BY <3>2
  <2>4. r = IF k = None THEN Leaf(EmptyEntry, n.slot)
            ELSE IF IsTransit(k) /\ ~software THEN [found |-> "transit", node |-> k, under |-> n]
            ELSE IF ~IsNode(k) THEN Leaf(k, n.slot)
            ELSE IF Golden(n, k, a) THEN AtNode(k)
            ELSE NoLeaf
    BY <1>2 DEF SearchStep
  <2> HIDE DEF k, n, r
  <2>5. k # None /\ IsNode(k) /\ Golden(n, k, a) => Together(a, k.addr, k.size)
    <3> SUFFICES ASSUME k # None, IsNode(k), Golden(n, k, a) PROVE Together(a, k.addr, k.size)
      OBVIOUS
    <3> DEFINE z == n.slot
               y == k.size
               b == k.addr
    <3>1. Aligned(k) /\ Together(a, b, z) /\ Multiple(z, y)
      BY <2>2 DEF Placed
    <3>2. b \in Nat /\ y \in Nat /\ y > 0 /\ (a % z) \div y = (b % z) \div y
      BY <3>1 DEF Aligned, Golden
    <3>3. z \in Nat /\ z > 0
      BY <2>3
    <3> HIDE DEF z, y, b
    <3>4. Together(a, b, y)
      BY <3>1, <3>2, <3>3, GoldenHolds
    <3>5. QED
      BY <3>4 DEF b, y
  <2>6. IsFor(r, a)
    <3>1. CASE k = None
      BY <2>4, <3>1 DEF IsFor, Leaf
    <3>2. CASE k # None /\ IsTransit(k) /\ ~software
      BY <2>4, <3>2 DEF IsFor
    <3>3. CASE k # None /\ ~(IsTransit(k) /\ ~software) /\ ~IsNode(k)
      BY <2>2, <2>4, <3>3 DEF IsFor, Leaf
    <3>4. CASE k # None /\ ~(IsTransit(k) /\ ~software) /\ IsNode(k)
      BY <2>4, <2>5, <3>4 DEF IsFor, AtNode, NoLeaf
    <3>5. QED
      BY <3>1, <3>2, <3>3, <3>4
  <2>7. QED
    BY <2>6 DEF r
<1>3. QED
  BY <1>1, <1>2

\* And so with what it ends with.
LEMMA SearchIsFor ==
  ASSUME NEW T, NEW E, Closed(T, E), Placed(T), NEW n \in NodesOf(T),
         NEW a, Together(a, n.addr, n.size), NEW software \in BOOLEAN
  PROVE  IsFor(Search(n, a, software), a)
<1> DEFINE m == Len(Sizes)
<1>1. PICK w \in [0 .. m -> SearchStates(T, E)] :
        Walk(w, n, a, software) /\ Search(n, a, software) = w[m]
  BY SearchWalks DEF Walks
<1>2. m \in Nat
  BY SizesAre
<1>3. IsFor(w[0], a)
  BY <1>1 DEF Walk, AtNode, IsFor
<1> DEFINE D == {d \in Nat : d <= m => IsFor(w[d], a)}
<1>4. 0 \in D
  BY <1>3
<1>5. ASSUME NEW d \in Nat, d \in D PROVE d + 1 \in D
  <2> SUFFICES ASSUME d + 1 <= m PROVE IsFor(w[d + 1], a)
    OBVIOUS
  <2>1. d + 1 \in 1 .. m /\ (d + 1) - 1 = d /\ d <= m /\ d \in 0 .. m
    BY <1>2
  <2>2. w[d + 1] = SearchStep(w[d], a, software) /\ IsFor(w[d], a) /\ w[d] \in SearchStates(T, E)
    BY <1>1, <1>5, <2>1 DEF Walk
  <2>3. QED
    BY <2>2, StepIsFor
<1>6. Nat \subseteq D
  <2> HIDE DEF D
  <2>1. QED BY <1>4, <1>5, NatInd
<1>7. QED
  BY <1>1, <1>2, <1>6

\* A descendant is what stands in the slot of the addresses it holds.
LEMMA SlotOf ==
  ASSUME NEW T, NEW E, Closed(T, E), Placed(T), NEW n \in NodesOf(T),
         NEW a, Together(a, n.addr, n.size),
         NEW i \in DOMAIN n.kids, Together(a, n.kids[i].addr, n.slot)
  PROVE  Slot(n, a) = n.kids[i]
<1> DEFINE z == n.slot
           y == n.size
           u == n.addr
           k == n.kids[i]
           b == k.addr
           d == a % y
           c == b - u
           x == d \div z
<1>1. n \in T /\ IsNode(n) /\ Aligned(n) /\ InSlots(n)
  BY DEF NodesOf, Placed
<1>2. n.kids \in Seq(T) /\ z \in Nat /\ z > 0
  <2>1. PICK j \in Levels : NodeAt(n, j, T, E)
    BY <1>1 DEF Closed
  <2>2. z = 2 * Sizes[j] /\ Sizes[j] \in Nat /\ Sizes[j] > 0
    BY <2>1, SizesAre DEF NodeAt
  <2>3. QED
    BY <2>1, <2>2 DEF NodeAt
<1>3. u \in Nat /\ y \in Nat /\ y > 0 /\ Grid(u, y) /\ Multiple(y, z)
  BY <1>1 DEF Aligned, InSlots
<1>4. \A j \in DOMAIN n.kids : n.kids[j] \in T /\ n.kids[j].addr \in Nat
  BY <1>1, <1>2 DEF Placed, Aligned
<1>5. d \in Nat /\ a = u + d /\ a \in Nat
  <2> HIDE DEF u, y
  <2>1. QED
    BY <1>3, GridRest DEF u, y
<1>6. Grid(u, z)
  BY <1>2, <1>3, GridFiner
<1>7. x \in Nat
  <2> HIDE DEF d, z
  <2>1. QED BY <1>2, <1>5, DivNat
<1>8. b \in Nat /\ b >= u
  BY <1>1, <1>4 DEF InSlots, Fits
<1>9. c \in Nat /\ b = u + c
  <2> HIDE DEF b, u
  <2>1. QED BY <1>3, <1>8
<1>10. c \div z = x
  <2>1. a \div z = b \div z
    BY DEF Together
  <2> HIDE DEF b, c, d, u, z, k, x
  <2>2. a \div z = (u \div z) + (d \div z)
    BY <1>2, <1>3, <1>5, <1>6, GridPlus
  <2>3. b \div z = (u \div z) + (c \div z)
    BY <1>2, <1>3, <1>6, <1>9, GridPlus
  <2> DEFINE p == u \div z
             q == c \div z
             r == d \div z
  <2>4. p \in Nat /\ q \in Nat /\ r \in Nat /\ p + r = p + q
    BY <1>2, <1>3, <1>5, <1>9, <2>1, <2>2, <2>3, DivNat
  <2> HIDE DEF p, q, r
  <2>5. q = r
    BY <2>4
  <2>6. QED
    BY <2>5 DEF q, r, x
<1>11. Slot(n, a) = InSlot(n, x)
  BY DEF Slot
<1>12. QED
  <2> HIDE DEF x
  <2>1. QED
    BY <1>1, <1>2, <1>4, <1>7, <1>10, <1>11, InSlotIs

\* A search has found entry e, or is on the way to it.
ComesTo(s, a, e) ==
  \/ s.found = "node" /\ Leads(s.node, a, e)
  \/ s.found = "leaf" /\ s.leaf = e
  \/ s.found = "transit" /\ Leads(s.node, a, e) /\ Golden(s.under, s.node, a)

\* A step of a search follows the tables that lead to the entry.
LEMMA StepComesTo ==
  ASSUME NEW T, NEW E, Closed(T, E), Placed(T), None \notin T, NEW s \in SearchStates(T, E),
         NEW a, NEW e, ~IsNode(e), Together(a, e.addr, e.size), NEW software \in BOOLEAN,
         ComesTo(s, a, e)
  PROVE  ComesTo(SearchStep(s, a, software), a, e)
<1> DEFINE n == s.node
           k == Slot(n, a)
           r == SearchStep(s, a, software)
<1>1. CASE s.found # "node"
  BY <1>1 DEF SearchStep
<1>2. CASE s.found = "node"
  <2>1. n \in NodesOf(T) /\ Leads(n, a, e)
    BY <1>2 DEF SearchStates, Found, Leaves, Transits, NoLeaf, ComesTo
  <2>2. IsNode(n) /\ n \in T
    BY <2>1 DEF NodesOf
  <2>3. Together(a, n.addr, n.size) /\ \E i \in DOMAIN n.kids : Leads(n.kids[i], a, e)
    BY <2>1, <2>2, LeadsHolds
  <2>4. PICK i \in DOMAIN n.kids : Leads(n.kids[i], a, e)
    BY <2>3
  <2> DEFINE m == n.kids[i]
             z == n.slot
             y == m.size
             b == m.addr
  <2>5. m \in T /\ Fits(m, n)
    <3>1. PICK j \in Levels : NodeAt(n, j, T, E)
      BY <2>2 DEF Closed
    <3>2. n.kids \in Seq(T)
      BY <3>1 DEF NodeAt
    <3>3. QED
      BY <2>2, <3>2 DEF Placed, InSlots
  <2>6. IsNode(m) => Together(a, b, y) /\ Together(a, b, z) /\ Golden(n, m, a)
    <3> SUFFICES ASSUME IsNode(m) PROVE Together(a, b, y) /\ Together(a, b, z) /\ Golden(n, m, a)
      OBVIOUS
    <3>1. Together(a, b, y)
      BY <2>4, LeadsHolds
    <3>2. Multiple(z, y) /\ y \in Nat /\ y > 0
      BY <2>5 DEF Fits, Placed, Aligned
    <3>3. Multiple(y, y)
      <4>1. y = 1 * y /\ 1 \in Nat /\ 1 >= 1
        BY <3>2
      <4>2. QED
        BY <4>1 DEF Multiple
    <3> HIDE DEF m, z, y, b, n
    <3>4. Together(a, b, z)
      BY <3>1, <3>2, TableTogether
    <3>5. (a % z) \div y = (b % z) \div y
      BY <3>1, <3>2, <3>3, TableTogether
    <3>6. QED
      BY <3>1, <3>4, <3>5 DEF Golden, m, z, y, b
  <2>7. ~IsNode(m) => m = e /\ Together(a, b, z)
    <3> SUFFICES ASSUME ~IsNode(m) PROVE m = e /\ Together(a, b, z)
      OBVIOUS
    <3>1. m = e
      BY <2>4, LeadsHolds
    <3>2. m.size = z
      BY <2>5 DEF Fits
    <3>3. QED
      BY <3>1, <3>2
  <2>8. k = m
    BY <2>1, <2>3, <2>6, <2>7, SlotOf
  <2>9. k # None /\ Leads(k, a, e)
    BY <2>4, <2>5, <2>8
  <2>10. r = IF k = None THEN Leaf(EmptyEntry, n.slot)
             ELSE IF IsTransit(k) /\ ~software THEN [found |-> "transit", node |-> k, under |-> n]
             ELSE IF ~IsNode(k) THEN Leaf(k, n.slot)
             ELSE IF Golden(n, k, a) THEN AtNode(k)
             ELSE NoLeaf
    BY <1>2 DEF SearchStep
  <2>11. IsNode(k) => Golden(n, k, a)
    BY <2>6, <2>8
  <2>12. ~IsNode(k) => k = e
    BY <2>7, <2>8
  <2> HIDE DEF k, n, r, m, b, y, z
  <2>13. ComesTo(r, a, e)
    <3>1. CASE IsTransit(k) /\ ~software
      BY <2>9, <2>10, <2>11, <3>1 DEF ComesTo, IsTransit
    <3>2. CASE ~(IsTransit(k) /\ ~software) /\ ~IsNode(k)
      BY <2>9, <2>10, <2>12, <3>2 DEF ComesTo, Leaf
    <3>3. CASE ~(IsTransit(k) /\ ~software) /\ IsNode(k)
      BY <2>9, <2>10, <2>11, <3>3 DEF ComesTo, AtNode
    <3>4. QED
      BY <3>1, <3>2, <3>3
  <2>14. QED
    BY <2>13 DEF r
<1>3. QED
  BY <1>1, <1>2

\* And so the search ends with the entry, or with the transit entry over it.
LEMMA SearchComesTo ==
  ASSUME NEW T, NEW E, Closed(T, E), Placed(T), None \notin T, NEW n \in NodesOf(T),
         NEW a, NEW e, ~IsNode(e), Together(a, e.addr, e.size), NEW software \in BOOLEAN,
         Leads(n, a, e)
  PROVE  ComesTo(Search(n, a, software), a, e)
<1> DEFINE m == Len(Sizes)
<1>1. PICK w \in [0 .. m -> SearchStates(T, E)] :
        Walk(w, n, a, software) /\ Search(n, a, software) = w[m]
  BY SearchWalks DEF Walks
<1>2. m \in Nat
  BY SizesAre
<1>3. ComesTo(w[0], a, e)
  BY <1>1 DEF Walk, AtNode, ComesTo
<1> DEFINE D == {d \in Nat : d <= m => ComesTo(w[d], a, e)}
<1>4. 0 \in D
  BY <1>3
<1>5. ASSUME NEW d \in Nat, d \in D PROVE d + 1 \in D
  <2> SUFFICES ASSUME d + 1 <= m PROVE ComesTo(w[d + 1], a, e)
    OBVIOUS
  <2>1. d + 1 \in 1 .. m /\ (d + 1) - 1 = d /\ d <= m /\ d \in 0 .. m
    BY <1>2
  <2>2. w[d + 1] = SearchStep(w[d], a, software) /\ ComesTo(w[d], a, e) /\ w[d] \in SearchStates(T, E)
    BY <1>1, <1>5, <2>1 DEF Walk
  <2>3. QED
    BY <2>2, StepComesTo
<1>6. Nat \subseteq D
  <2> HIDE DEF D
  <2>1. QED BY <1>4, <1>5, NatInd
<1>7. QED
  BY <1>1, <1>2, <1>6

\* do_TLB finds the entry of every address that one holds, in the table or behind a transit entry.
LEMMA EntryIsFound ==
  ASSUME NoneIsNoRecord, NEW list \in Seq(Blocks), NEW l \in Seq(EntriesOf(list)), Ascending(l),
         Whole(ToSet(l)), NEW a \in 0 .. Space - 1, NEW e \in ToSet(l), Together(a, e.addr, e.size)
  PROVE  LET f == SearchTable(Tree(l), a) IN
         \/ f = Leaf(e, e.size)
         \/ f.found = "transit" /\ SearchSmall(f, a) = Leaf(e, e.size)
<1> DEFINE E == ToSet(l)
           f == SearchTable(Tree(l), a)
           t == Tree(l)
<1>1. PICK T : /\ Closed(T, E) /\ Placed(T) /\ t \in T /\ IsNode(t)
               /\ t.addr = 0 /\ t.size = Space /\ None \notin T
               /\ \A c, d : d \in E /\ Together(c, d.addr, d.size) => \E i \in DOMAIN t.kids : Leads(t.kids[i], c, d)
  BY TreePlaced
<1>2. e \in EntryRecords /\ ~IsNode(e) /\ ~(e.size < 2 * Smallest)
  <2>1. e \in EntryRecords
    BY DEF EntriesOf, ToSet
  <2>2. DOMAIN e = {"addr", "size", "lo", "hi", "emu", "bm"}
    BY <2>1 DEF EntryRecords
  <2>3. QED
    BY <2>1, <2>2 DEF IsNode, Whole
<1>3. Together(a, 0, Space)
  <2>1. Space \in Nat /\ Space > 0
    BY PageTablesAssumption
  <2>2. Space * 0 + a = a /\ Space * 0 + 0 = 0 /\ a \in Nat
    BY <2>1
  <2>3. a \div Space = 0 /\ 0 \div Space = 0
    BY <2>1, <2>2, DivUnique
  <2>4. QED
    BY <2>2, <2>3 DEF Together
<1> HIDE DEF f, t
<1>4. Leads(t, a, e)
  BY <1>1, <1>3, LeadsUp
<1>5. t \in NodesOf(T)
  BY <1>1 DEF NodesOf
<1>6. /\ f = Search(t, a, FALSE) /\ f \in Leaves(E) \cup Transits(T) \cup {NoLeaf}
      /\ ComesTo(f, a, e)
  BY <1>1, <1>2, <1>4, <1>5, SearchType, SearchComesTo DEF f, SearchTable, t
<1>7. ASSUME NEW g \in Leaves(E), g.leaf = e PROVE g = Leaf(e, e.size)
  <2>1. e # EmptyEntry
    BY <1>2, SizesAre DEF EmptyEntry, Entry
  <2>2. g.slot = e.size
    BY <1>2, <1>7, <2>1 DEF Leaves, Tiny
  <2>3. QED
    BY <1>7, <2>2 DEF Leaves, Leaf
<1>8. CASE f \in Leaves(E)
  BY <1>6, <1>7, <1>8 DEF ComesTo, Leaves, f, t
<1>9. CASE f \in Transits(T)
  <2>1. f.found = "transit" /\ f.node \in NodesOf(T) /\ Leads(f.node, a, e) /\ Golden(f.under, f.node, a)
    BY <1>6, <1>9 DEF ComesTo, Transits
  <2> DEFINE g == Search(f.node, a, TRUE)
  <2>2. SearchSmall(f, a) = g
    BY <2>1 DEF SearchSmall
  <2>3. g \in Leaves(E) \cup {NoLeaf} /\ ComesTo(g, a, e)
    BY <1>1, <1>2, <2>1, SoftwareSearch, SearchComesTo
  <2>4. g = Leaf(e, e.size)
    <3> HIDE DEF g
    <3>1. g \in Leaves(E) /\ g.leaf = e
      BY <2>3 DEF ComesTo, NoLeaf, Leaves
    <3>2. QED
      BY <1>7, <3>1
  <2>5. QED
    BY <2>1, <2>2, <2>4 DEF f, t
<1>10. f # NoLeaf
  <2>1. ComesTo(f, a, e)
    BY <1>6
  <2>2. f.found # "nothing"
    BY <2>1 DEF ComesTo
  <2>3. QED
    BY <2>2 DEF NoLeaf
<1>11. QED
  BY <1>6, <1>8, <1>9, <1>10

-----------------------------------------------------------------------------
(* Where the hardware's pages lie                                            *)

\* A page that TLB_refill loads as valid has each word of its block at the word's address.
LEMMA DirectLies ==
  ASSUME NEW list \in Seq(Blocks), NEW l \in Seq(EntriesOf(list)), Ascending(l), Whole(ToSet(l)),
         \A e \in ToSet(l) : PhysAligned(e),
         NEW a \in Addresses, Direct(SearchTable(Tree(l), a), a)
  PROVE  LET f == SearchTable(Tree(l), a) IN
         \E r \in ToSet(list) :
           Covers(r, a) /\ "e" \notin r.flags /\ DirectAddress(f, a) = r.phys + a - r.addr
<1> DEFINE f == SearchTable(Tree(l), a)
           e == f.leaf
           h == HalfAt(f, a).half
           within == HalfAt(f, a).within
           E == ToSet(l)
<1>1. PICK T : /\ Closed(T, E) /\ Placed(T) /\ Tree(l) \in T /\ IsNode(Tree(l))
               /\ Tree(l).addr = 0 /\ Tree(l).size = Space
  BY TreePlaced
<1>2. a \in Nat /\ Together(a, 0, Space)
  <2>1. Space \in Nat /\ Space > 0 /\ a \in Nat /\ 0 <= a /\ a < 0 + Space
    BY PageTablesAssumption DEF Addresses
  <2>2. Grid(0, Space)
    <3>1. 0 = Space * 0 /\ 0 \in Nat
      BY <2>1
    <3>2. QED
      BY <3>1 DEF Grid
  <2>3. QED
    BY <2>1, <2>2, GridBlock
<1>3. /\ f \in Leaves(E) \cup Transits(T) \cup {NoLeaf}
      /\ IsFor(f, a)
  BY <1>1, <1>2, SearchType, SearchIsFor DEF SearchTable, NodesOf
<1>4. f.found = "leaf" /\ h # None /\ "e" \notin h.flags
  BY DEF Direct
<1> HIDE DEF f
<1>5. f \in Leaves(E)
  BY <1>3, <1>4 DEF Transits, NoLeaf
<1>6. e \in E \cup {EmptyEntry} /\ f.slot \in Slots
  BY <1>5 DEF Leaves
<1> DEFINE n == f.slot
           offset == a % n
           low == offset < n \div 2
<1>7. h = (IF low THEN e.lo ELSE e.hi) /\ within = IF low THEN offset ELSE offset - n \div 2
  BY DEF HalfAt
<1>8. e # EmptyEntry
  BY <1>4, <1>7 DEF EmptyEntry, Entry
<1>9. e \in E /\ e \in EntriesOf(list) /\ PhysAligned(e)
  BY <1>6, <1>8 DEF ToSet
<1>10. e.size = n /\ Together(a, e.addr, n)
  BY <1>3, <1>4, <1>8 DEF IsFor
<1>11. PICK z \in Nat : EntryOf(e, z, list)
  BY <1>9 DEF EntriesOf
<1>12. n \in Nat /\ n > 0 /\ n = 2 * z /\ n \div 2 = z /\ z > 0
  <2>1. n \in Nat /\ n > 0
    <3>1. \A i \in Levels : 2 * Sizes[i] \in Nat /\ 2 * Sizes[i] > 0
      BY SizesAre
    <3>2. QED
      BY <1>6, <3>1 DEF Slots
  <2>2. n = 2 * z
    BY <1>10, <1>11 DEF EntryOf
  <2>3. \A y \in Nat : (2 * y) \div 2 = y
    OBVIOUS
  <2> HIDE DEF n
  <2>4. QED
    BY <2>1, <2>2, <2>3
<1> DEFINE c == e.addr
<1>13. c \in Nat /\ Grid(c, n)
  <2>1. c \in Nat /\ e.size \in Nat
    BY <1>9 DEF EntriesOf, EntryRecords
  <2>2. ~(e.size < 2 * Smallest) /\ Smallest \in Nat
    BY <1>9, SizesAre DEF Whole
  <2>3. ~(z < Smallest)
    BY <1>10, <1>12, <2>2
  <2>4. c % n = 0
    BY <1>11, <1>12, <2>3 DEF EntryOf
  <2> HIDE DEF c, n
  <2>5. QED
    BY <1>12, <2>1, <2>4, GridIs
<1>14. a = c + offset /\ offset \in Nat /\ offset < n
  <2>1. Together(a, c, n)
    BY <1>10
  <2> HIDE DEF c, n
  <2>2. QED
    BY <1>12, <1>13, <2>1, GridRest
<1> DEFINE b == IF low THEN c ELSE c + z
<1>15. within \in 0 .. z - 1 /\ b \in Nat /\ a = b + within
  <2>1. within = IF offset < z THEN offset ELSE offset - z
    BY <1>7, <1>12
  <2>2. b = IF offset < z THEN c ELSE c + z
    BY <1>12
  <2> HIDE DEF within, b, c, offset, n
  <2>3. QED
    BY <1>12, <1>13, <1>14, <2>1, <2>2
<1>16. HalfIsPart(h, b, z, list)
  BY <1>7, <1>11 DEF EntryOf
<1>17. PICK r \in ToSet(list) :
         /\ h.flags = r.flags /\ b >= r.addr /\ b + z <= r.addr + r.size
         /\ h.phys - b = r.phys - r.addr
  BY <1>4, <1>16 DEF HalfIsPart
<1>18. r.addr \in Nat /\ r.size \in Nat /\ r.phys \in Nat /\ h.phys \in Nat
  <2>1. r \in Blocks
    BY DEF ToSet
  <2>2. h \in Halves
    BY <1>4, <1>7, <1>9 DEF EntriesOf, EntryRecords
  <2>3. QED
    BY <2>1, <2>2 DEF Blocks, Halves
<1>19. DirectAddress(f, a) = h.phys + within
  <2>1. h.phys % z = 0
    BY <1>4, <1>7, <1>9, <1>10, <1>12 DEF PhysAligned
  <2>2. Down(h.phys, z) = h.phys
    BY <1>18, <2>1 DEF Down
  <2>3. DirectAddress(f, a) = Down(h.phys, z) + within
    BY <1>12 DEF DirectAddress
  <2>4. QED
    BY <2>2, <2>3
<1> DEFINE p == h.phys
           o == r.phys
           w == r.size
           d == r.addr
<1>20. p \in Nat /\ o \in Nat /\ w \in Nat /\ d \in Nat /\ b >= d /\ b + z <= d + w /\ p - b = o - d
  BY <1>17, <1>18
<1>21. a >= d /\ a < d + w /\ p + within = o + a - d
  <2> HIDE DEF p, o, w, d, within, b, offset
  <2>1. QED
    BY <1>12, <1>15, <1>20
<1>22. Covers(r, a) /\ DirectAddress(f, a) = r.phys + a - r.addr
  BY <1>19, <1>21 DEF Covers, End
<1>23. f = SearchTable(Tree(l), a)
  BY DEF f
<1>24. QED
  BY <1>4, <1>17, <1>22, <1>23

\* No two blocks of a VM overlap: its regions, the small ones extended to a page.
BlocksApart(c) ==
  \A v \in Vms : SmallBlocks(c[v]) # None => Ascending(SmallBlocks(c[v]))

\* With the tables of such blocks nothing else is mapped.
LEMMA DirectOfInv ==
  ASSUME ScriptInv, BlocksApart(regions), NoneQuartered(regions)
  PROVE  DirectIsConfigured
<1> SUFFICES ASSUME NEW v \in Vms, Made(v), NEW a \in Addresses, Direct(SearchTable(tree[v], a), a)
             PROVE  LET f == SearchTable(tree[v], a) IN
                    \E r \in ToSet(regions[v]) :
                      Covers(r, a) /\ "e" \notin r.flags /\ DirectAddress(f, a) = r.phys + a - r.addr
  BY DEF DirectIsConfigured
<1> DEFINE list == BlocksOfVm(v)
           l == EntriesOfVm(v)
<1>1. HasTables(v)
  BY DEF HasTables
<1>2. /\ list \in Seq(Blocks) /\ l \in Seq(EntriesOf(list))
      /\ \A e \in ToSet(l) : PhysAligned(e)
      /\ tree[v] = Tree(l)
  BY <1>1, TablesOf
<1>3. list # None /\ Split(list) # None
  BY <1>1 DEF ScriptInv, ListsAreChecked, TreesAreTables
<1>4. Ascending(list) /\ \A e \in ToSet(l) : e.size >= 2 * Smallest
  BY <1>3 DEF BlocksApart, NoneQuartered, BlocksOfVm, EntriesOfVm
<1>5. Whole(ToSet(l))
  <2>1. \A e \in ToSet(l) : e.size \in Nat
    BY <1>2 DEF ToSet, EntriesOf, EntryRecords
  <2>2. Smallest \in Nat
    BY SizesAre
  <2>3. QED
    BY <1>4, <2>1, <2>2 DEF Whole
<1>6. Ascending(l)
  <2>1. Split(list) \in Seq(PagesOf(list)) /\ Ascending(Split(list))
    BY <1>2, <1>3, <1>4, SplitType
  <2>2. QED
    BY <1>2, <2>1, JoinAscends DEF EntriesOfVm
<1>7. PICK r \in ToSet(list) :
        /\ Covers(r, a) /\ "e" \notin r.flags
        /\ DirectAddress(SearchTable(tree[v], a), a) = r.phys + a - r.addr
  <2> HIDE DEF list, l
  <2>1. QED
    BY <1>2, <1>4, <1>5, <1>6, DirectLies
<1>8. r \in ToSet(regions[v])
  <2>1. regions[v] \in Seq(Regions)
    BY ConfiguratorAssumption DEF ScriptInv, ScriptTypeOK
  <2>2. list \in Seq(BlocksOf(regions[v]))
    BY <1>3, <2>1, SmallBlocksType DEF BlocksOfVm
  <2>3. r \in BlocksOf(regions[v])
    BY <2>2 DEF ToSet
  <2>4. QED
    BY <1>7, <2>3 DEF BlocksOf
<1>9. QED
  BY <1>7, <1>8

\* What the hardware may map of a guest, without tinyVP seeing the accesses, lies in a
\* region that needs no emulation, at its physical address: for any page sizes and any
\* number of VMs whose blocks do not overlap, and none of whose pages of the smallest
\* size is quartered (split_pte, join_pairs, create_pte_tree, output_ptetree, and the
\* search of TLB_refill).
THEOREM DirectAccessIsConfigured ==
  ASSUME \A c \in Configurations : BlocksApart(c) /\ NoneQuartered(c)
  PROVE  RunSpec => []DirectIsConfigured
<1>1. ScriptInv => DirectIsConfigured
  BY DirectOfInv DEF ScriptInv, ScriptTypeOK
<1>2. QED
  BY <1>1, TablesAreOfTheLists, PTL

-----------------------------------------------------------------------------
(* Nothing is lost: every page is in an entry                                *)

\* Entry e is made of page p, alone or with another page of ps.
PairOf(e, p, ps) ==
  \/ e = FirstOnly(p) /\ IsFirst(p)
  \/ e = SecondOnly(p) /\ ~IsFirst(p)
  \/ \E q \in ToSet(ps) : IsFirst(p) /\ Matches(p, q) /\ e = Both(p, q)
  \/ \E q \in ToSet(ps) : IsFirst(q) /\ Matches(q, p) /\ e = Both(q, p)

\* The entries of a list map page p, as one of a pair or in quarters.
Maps(l, p, ps) ==
  (\E e \in ToSet(l) : PairOf(e, p, ps)) \/ ToSet(Quarters(p)) \subseteq ToSet(l)

\* The first page of a pair that is not complete is one of the list.
SavedIn(s, ps) == s.saved \in ToSet(ps) \cup {None}

\* join_pairs: what a page adds maps it, unless it waits for its second page; the page that
\* waited is mapped.
LEMMA JoinPageMaps ==
  ASSUME NEW list \in Seq(Blocks), NEW ps \in Seq(PagesOf(list)),
         NEW s \in JoinStates(list), SavedIn(s, ps), NEW p \in ToSet(ps)
  PROVE  LET r == JoinPage(s, p) IN
         /\ SavedIn(r, ps) /\ ToSet(s.out) \subseteq ToSet(r.out)
         /\ r.saved = p \/ Maps(r.out, p, ps)
         /\ s.saved # None => Maps(r.out, s.saved, ps)
<1> DEFINE E == EntriesOf(list)
           q == s.saved
           o == s.out
           done(es, e) == [saved |-> None, last |-> e, out |-> s.out \o es]
           keep(es, e) == [saved |-> p, last |-> e, out |-> s.out \o es]
           Ok(r) == /\ SavedIn(r, ps) /\ ToSet(s.out) \subseteq ToSet(r.out)
                    /\ r.saved = p \/ Maps(r.out, p, ps)
                    /\ s.saved # None => Maps(r.out, s.saved, ps)
           F == <<FirstOnly(q)>>
           G == <<SecondOnly(p)>>
           B == <<Both(q, p)>>
<1>1. /\ o \in Seq(E) /\ q \in PagesOf(list) \cup {None} /\ (q # None => IsFirst(q))
      /\ p \in PagesOf(list) /\ q \in ToSet(ps) \cup {None}
  BY DEF JoinStates, ToSet, SavedIn
<1>2. /\ ToSet(F) = {FirstOnly(q)} /\ ToSet(G) = {SecondOnly(p)} /\ ToSet(B) = {Both(q, p)}
      /\ ToSet(<<>>) = {}
  BY DEF ToSet
<1>3. Quarters(p) \in Seq(E) /\ (~IsFirst(p) => G \in Seq(E))
  <2> HIDE DEF E, G
  <2>1. QED
    BY <1>1, QuartersIs, SecondOnlyIs DEF E, G
<1>4. q # None => Quarters(q) \in Seq(E) /\ F \in Seq(E) /\ (Matches(q, p) => B \in Seq(E))
  <2> HIDE DEF E, q
  <2>1. QED
    BY <1>1, QuartersIs, FirstOnlyIs, BothIs DEF E
<1>5. ~IsFirst(p) => \A l : SecondOnly(p) \in ToSet(l) => Maps(l, p, ps)
  BY DEF Maps, PairOf
<1>6. q # None => \A l : FirstOnly(q) \in ToSet(l) => Maps(l, q, ps)
  BY <1>1 DEF Maps, PairOf
<1>7. q # None /\ Matches(q, p) => \A l : Both(q, p) \in ToSet(l) => Maps(l, q, ps) /\ Maps(l, p, ps)
  BY <1>1 DEF Maps, PairOf
<1>8. /\ \A l : ToSet(Quarters(p)) \subseteq ToSet(l) => Maps(l, p, ps)
      /\ \A l : ToSet(Quarters(q)) \subseteq ToSet(l) => Maps(l, q, ps)
  BY DEF Maps
<1>9. \A l \in Seq(E) : ToSet(o \o l) = ToSet(o) \cup ToSet(l)
  <2> HIDE DEF o, E
  <2>1. QED BY <1>1, ConcatMembers
<1>10. ASSUME NEW l \in Seq(E), NEW a, Maps(o \o l, p, ps), q # None => Maps(o \o l, q, ps)
       PROVE  Ok(done(l, a))
  BY <1>9, <1>10 DEF SavedIn
<1>11. ASSUME NEW l \in Seq(E), NEW a, q # None => Maps(o \o l, q, ps)
       PROVE  Ok(keep(l, a))
  BY <1>9, <1>11 DEF SavedIn
<1>12. <<>> \in Seq(E)
  OBVIOUS
<1>13. CASE q = None
  <2>1. JoinPage(s, p) =
          CASE IsFirst(p)                                -> keep(<<>>, End(p))
            [] ~IsFirst(p) /\ s.last + p.size <= p.addr  -> done(G, End(p))
            [] OTHER                                     -> done(Quarters(p), End(p))
    BY <1>13 DEF JoinPage
  <2>2. Ok(keep(<<>>, End(p)))
    <3> HIDE DEF Ok, keep, q, E
    <3>1. QED BY <1>11, <1>12, <1>13
  <2>3. ~IsFirst(p) => Ok(done(G, End(p)))
    <3> HIDE DEF Ok, done, q, E, o, G
    <3>1. QED BY <1>2, <1>3, <1>5, <1>9, <1>10, <1>13
  <2>4. Ok(done(Quarters(p), End(p)))
    <3> HIDE DEF Ok, done, q, E, o
    <3>1. QED BY <1>3, <1>8, <1>9, <1>10, <1>13
  <2> HIDE DEF Ok, done, keep, q, E, o, G
  <2>5. Ok(JoinPage(s, p))
    BY <2>1, <2>2, <2>3, <2>4
  <2>6. QED
    BY <2>5 DEF Ok
<1>14. CASE q # None
  <2> DEFINE beyond == q.addr + 2 * q.size
  <2>1. JoinPage(s, p) =
          IF Matches(q, p) THEN
            done(B, End(p))
          ELSE IF beyond <= p.addr /\ (IsFirst(p) \/ beyond <= p.addr - p.size) THEN
            IF IsFirst(p) THEN keep(F, End(q))
            ELSE done(<<FirstOnly(q), SecondOnly(p)>>, End(p))
          ELSE IF beyond <= p.addr THEN
            done(F \o Quarters(p), End(p))
          ELSE IF IsFirst(p) THEN keep(Quarters(q), End(q))
          ELSE done(Quarters(q) \o Quarters(p), End(p))
    BY <1>14 DEF JoinPage
  <2>2. <<FirstOnly(q), SecondOnly(p)>> = F \o G
    OBVIOUS
  <2> HIDE DEF Ok, done, keep, q, E, o, F, G, B, beyond
  <2>3. ASSUME NEW l \in Seq(E), NEW m \in Seq(E), NEW a,
               \A n : ToSet(l) \subseteq ToSet(n) => Maps(n, q, ps),
               \A n : ToSet(m) \subseteq ToSet(n) => Maps(n, p, ps)
        PROVE  Ok(done(l \o m, a))
    <3> DEFINE n == l \o m
    <3>1. n \in Seq(E)
      OBVIOUS
    <3>2. ToSet(n) = ToSet(l) \cup ToSet(m)
      BY ConcatMembers
    <3> HIDE DEF n
    <3>3. ToSet(o \o n) = ToSet(o) \cup ToSet(n)
      BY <1>9, <3>1
    <3>4. ToSet(l) \subseteq ToSet(o \o n) /\ ToSet(m) \subseteq ToSet(o \o n)
      BY <3>2, <3>3
    <3>5. Maps(o \o n, q, ps) /\ Maps(o \o n, p, ps)
      BY <2>3, <3>4
    <3>6. QED
      BY <1>10, <3>1, <3>5 DEF n
  <2>4. Matches(q, p) => Ok(done(B, End(p)))
    BY <1>2, <1>4, <1>7, <1>9, <1>10, <1>14
  <2>5. Ok(keep(F, End(q)))
    BY <1>2, <1>4, <1>6, <1>9, <1>11, <1>14
  <2>6. ~IsFirst(p) => Ok(done(F \o G, End(p)))
    BY <1>2, <1>3, <1>4, <1>5, <1>6, <1>14, <2>3
  <2>7. Ok(done(F \o Quarters(p), End(p)))
    BY <1>2, <1>3, <1>4, <1>6, <1>8, <1>14, <2>3
  <2>8. Ok(keep(Quarters(q), End(q)))
    BY <1>4, <1>8, <1>9, <1>11, <1>14
  <2>9. Ok(done(Quarters(q) \o Quarters(p), End(p)))
    BY <1>3, <1>4, <1>8, <1>14, <2>3
  <2>10. Ok(JoinPage(s, p))
    BY <2>1, <2>2, <2>4, <2>5, <2>6, <2>7, <2>8, <2>9
  <2>11. QED
    BY <2>10 DEF Ok, q
<1>15. QED
  BY <1>13, <1>14

\* join_pairs: every page is mapped.
LEMMA JoinMaps ==
  ASSUME NEW list \in Seq(Blocks), NEW ps \in Seq(PagesOf(list)), NEW p \in ToSet(ps)
  PROVE  Maps(Join(ps), p, ps)
<1> DEFINE n == Len(ps)
           b == [saved |-> None, last |-> 0, out |-> <<>>]
           Is(f) == f = [i \in 0 .. n |-> IF i = 0 THEN b ELSE JoinPage(f[i - 1], ps[i])]
           h == CHOOSE f : Is(f)
           S == JoinStates(list)
           g == [x \in (1 .. n) \X S |-> JoinPage(x[2], ps[x[1]])]
           E == EntriesOf(list)
<1>1. n \in Nat /\ (\A i \in 1 .. n : ps[i] \in PagesOf(list)) /\ ToSet(ps) = {ps[i] : i \in 1 .. n}
  BY DEF ToSet
<1>2. Join(ps) = IF h[n].saved = None THEN h[n].out ELSE Append(h[n].out, FirstOnly(h[n].saved))
  BY DEF Join
<1>3. b \in S
  BY DEF JoinStates
<1>4. \A i \in 1 .. n : \A s \in S : JoinPage(s, ps[i]) \in S
  BY <1>1, JoinPageKeeps
<1>5. \A i \in 1 .. n : \A s \in S : g[<<i, s>>] = JoinPage(s, ps[i])
  OBVIOUS
<1> HIDE DEF n, b, S, g
<1>6. PICK f \in [0 .. n -> S] : IsFold(f, n, b, g)
  <2>1. \A i \in 1 .. n : \A s \in S : g[<<i, s>>] \in S
    BY <1>4, <1>5
  <2>2. n \in Nat
    BY <1>1
  <2>3. QED
    BY <1>3, <2>1, <2>2, FoldExists
<1>7. Is(f)
  <2>1. \A i \in 0 .. n : i # 0 => g[<<i, f[i - 1]>>] = JoinPage(f[i - 1], ps[i])
    BY <1>1, <1>5
  <2>2. QED
    BY <1>6, <2>1 DEF IsFold
<1>8. Is(h)
  BY <1>7
<1> HIDE DEF h
<1>9. h[0] = b /\ \A i \in 1 .. n : h[i] = JoinPage(h[i - 1], ps[i])
  BY <1>1, <1>8
<1> DEFINE MapsTo(i) == \A j \in 1 .. i : h[i].saved = ps[j] \/ Maps(h[i].out, ps[j], ps)
           I == {i \in Nat : i <= n => h[i] \in S /\ SavedIn(h[i], ps) /\ MapsTo(i)}
<1>10. 0 \in I
  <2>1. h[0] \in S /\ SavedIn(h[0], ps)
    BY <1>3, <1>9 DEF b, SavedIn
  <2>2. MapsTo(0)
    OBVIOUS
  <2>3. QED
    BY <2>1, <2>2
<1>11. ASSUME NEW k \in Nat, k \in I PROVE k + 1 \in I
  <2> SUFFICES ASSUME k + 1 <= n
               PROVE  h[k + 1] \in S /\ SavedIn(h[k + 1], ps) /\ MapsTo(k + 1)
    OBVIOUS
  <2> DEFINE i == k + 1
             s == h[k]
             r == h[i]
             p_ == ps[i]
  <2>1. i \in 1 .. n /\ i - 1 = k /\ k <= n
    BY <1>1
  <2>2. s \in S /\ SavedIn(s, ps) /\ MapsTo(k)
    BY <1>11, <2>1
  <2>3. r = JoinPage(s, p_) /\ p_ \in ToSet(ps)
    BY <1>1, <1>9, <2>1
  <2>4. r \in S
    BY <1>4, <2>1, <2>2, <2>3
  <2>5. /\ SavedIn(r, ps) /\ ToSet(s.out) \subseteq ToSet(r.out)
        /\ r.saved = p_ \/ Maps(r.out, p_, ps)
        /\ s.saved # None => Maps(r.out, s.saved, ps)
    <3> HIDE DEF s, r, p_
    <3>1. QED
      BY <2>2, <2>3, JoinPageMaps DEF S
  <2>6. ASSUME NEW j \in 1 .. i PROVE r.saved = ps[j] \/ Maps(r.out, ps[j], ps)
    <3>1. CASE j = i
      BY <2>5, <3>1
    <3>2. CASE j # i
      <4>1. j \in 1 .. k /\ j \in 1 .. n
        BY <1>1, <2>1, <3>2
      <4>2. s.saved = ps[j] \/ Maps(s.out, ps[j], ps)
        BY <2>2, <4>1
      <4>3. ps[j] # None
        <5>1. ps[j] \in Blocks
          BY <1>1, <4>1 DEF PagesOf
        <5>2. QED
          BY <5>1, ConfiguratorAssumption
      <4>4. Maps(s.out, ps[j], ps) => Maps(r.out, ps[j], ps)
        BY <2>5 DEF Maps
      <4> HIDE DEF s, r
      <4>5. QED
        BY <2>5, <4>2, <4>3, <4>4
    <3>3. QED
      BY <3>1, <3>2
  <2>7. QED
    BY <2>4, <2>5, <2>6
<1>12. Nat \subseteq I
  <2> HIDE DEF I
  <2>1. QED BY <1>10, <1>11, NatInd
<1> DEFINE s == h[n]
<1>13. s \in S /\ SavedIn(s, ps) /\ MapsTo(n)
  <2>1. n \in I /\ n <= n
    <3> HIDE DEF I
    <3>1. QED BY <1>1, <1>12
  <2> HIDE DEF MapsTo
  <2>2. QED
    BY <2>1
<1>14. PICK j \in 1 .. n : p = ps[j]
  BY <1>1
<1>15. s.saved = p \/ Maps(s.out, p, ps)
  BY <1>13, <1>14
<1>16. s.out \in Seq(E) /\ (s.saved # None => IsFirst(s.saved) /\ s.saved \in PagesOf(list))
  <2> HIDE DEF s
  <2>1. QED
    BY <1>13 DEF S, JoinStates
<1>17. p # None
  <2>1. p \in Blocks
    BY DEF PagesOf, ToSet
  <2>2. QED
    BY <2>1, ConfiguratorAssumption
<1> HIDE DEF s, E
<1>18. CASE s.saved = None
  BY <1>2, <1>15, <1>17, <1>18 DEF s
<1>19. CASE s.saved # None
  <2> DEFINE l == s.out
             e == FirstOnly(s.saved)
  <2>1. <<e>> \in Seq(E)
    BY <1>16, <1>19, FirstOnlyIs DEF E
  <2>2. ToSet(<<e>>) = {e}
    BY DEF ToSet
  <2>3. l \in Seq(E)
    BY <1>16
  <2>4. Join(ps) = Append(l, e)
    BY <1>2, <1>19 DEF s
  <2> HIDE DEF l, e
  <2>5. Append(l, e) = l \o <<e>>
    BY <2>3
  <2>6. ToSet(Join(ps)) = ToSet(l) \cup {e}
    <3> DEFINE m == <<e>>
    <3>1. m \in Seq(E) /\ ToSet(m) = {e} /\ Join(ps) = l \o m
      BY <2>1, <2>2, <2>4, <2>5
    <3> HIDE DEF m
    <3>2. ToSet(l \o m) = ToSet(l) \cup ToSet(m)
      BY <2>3, <3>1, ConcatMembers
    <3>3. QED
      BY <3>1, <3>2
  <2>7. CASE s.saved = p
    <3>1. PairOf(e, p, ps)
      BY <1>16, <1>19, <2>7 DEF PairOf, e
    <3>2. QED
      BY <2>6, <3>1 DEF Maps
  <2>8. CASE Maps(s.out, p, ps)
    BY <2>6, <2>8 DEF Maps, l
  <2>9. QED
    BY <1>15, <2>7, <2>8
<1>20. QED
  BY <1>18, <1>19

\* The software bitmask of page p lets through an access to a.
Allows(p, a) == p.bm = None \/ a - p.addr \in p.bm.bits

\* Entry e maps a as page p does.
Serves(e, p, a) ==
  LET t == HalfAt(Leaf(e, e.size), a) IN
  /\ t.half \in Halves /\ t.pa = p.phys + a - p.addr
  /\ "e" \notin t.half.flags => t.half.flags = p.flags
  /\ e.emu = p.emu
  /\ e.emu = None => e.bm = None \/ t.offset \in e.bm.bits

\* The bitmask of a page without emulator is kept: the page is not quartered, not a second
\* page alone, and not paired with a page that has none.
MasksKept(ps) ==
  \A p, q \in ToSet(ps) : \A e \in ToSet(Join(ps)) : p.emu = None /\ p.bm # None =>
    /\ e # SecondOnly(p) /\ e \notin ToSet(Quarters(p))
    /\ e \in {Both(p, q), Both(q, p)} => q.bm # None

\* join_bitmask: the bits of the first page, and those of the second one behind them.
LEMMA JoinBits ==
  ASSUME NEW b, NEW c, NEW n \in Nat, NEW k, NEW i \in 0 .. n - 1
  PROVE  LET m == JoinBitmask(b, n, c, k) IN
         /\ b = None /\ c = None => m = None
         /\ b # None /\ i \in b.bits => i \in m.bits
         /\ c # None /\ i \in c.bits => n + i \in m.bits
<1> DEFINE lo == IF b = None THEN {} ELSE b.bits
           hi == IF c = None THEN {} ELSE c.bits
           bits == (lo \cap 0 .. n - 1) \cup {n + j : j \in hi \cap 0 .. n - 1}
           m == JoinBitmask(b, n, c, k)
<1>1. m = IF b = None /\ c = None THEN None ELSE Bitmask(2 * n, bits)
  BY DEF JoinBitmask
<1>2. (i \in lo => i \in bits) /\ (i \in hi => n + i \in bits)
  OBVIOUS
<1> HIDE DEF bits, m
<1>3. ~(b = None /\ c = None) => m.bits = bits
  BY <1>1 DEF Bitmask
<1>4. QED
  BY <1>1, <1>2, <1>3 DEF m

\* The half of an entry that holds an address, and the place in it.
LEMMA HalfIs ==
  ASSUME NEW list \in Seq(Blocks), NEW e \in EntriesOf(list), ~(e.size < 2 * Smallest),
         NEW z \in Nat, e.size = 2 * z, NEW d \in 0 .. e.size - 1
  PROVE  LET t == HalfAt(Leaf(e, e.size), e.addr + d) IN
         /\ Together(e.addr + d, e.addr, e.size)
         /\ t.offset = d
         /\ d < z => t.half = e.lo /\ t.within = d
         /\ ~(d < z) => t.half = e.hi /\ t.within = d - z
         /\ t.pa = (IF t.half = None THEN 0 ELSE t.half.phys) + t.within
<1> DEFINE b == e.addr
           s == e.size
           a == b + d
           f == Leaf(e, s)
<1>1. b \in Nat /\ s \in Nat /\ s > 0 /\ b % s = 0
  <2>1. b \in Nat /\ s \in Nat
    BY DEF EntriesOf, EntryRecords
  <2>2. PICK y \in Nat : EntryOf(e, y, list)
    BY DEF EntriesOf
  <2>3. s = 2 * y /\ ~(y < Smallest)
    BY <2>2, SizesAre DEF EntryOf
  <2>4. y \in ToSet(Sizes) /\ b % s = 0 /\ y > 0
    BY <2>2, <2>3, SizesAre DEF EntryOf
  <2>5. QED
    BY <2>1, <2>3, <2>4
<1>2. z > 0 /\ s \div 2 = z /\ d \in Nat /\ d < s
  BY <1>1
<1>3. Grid(b, s)
  <2> HIDE DEF b, s
  <2>1. QED BY <1>1, GridIs
<1>4. a \in Nat /\ a % s = d
  <2> HIDE DEF b, s
  <2>1. PICK k \in Nat : b = s * k
    BY <1>3 DEF Grid
  <2>2. (s * k + d) % s = d
    BY <1>1, <1>2, DivUnique
  <2>3. QED
    BY <1>1, <1>2, <2>1, <2>2
<1>5. Together(a, b, s)
  <2>1. b <= a /\ a < b + s
    <3> HIDE DEF b, s
    <3>1. QED BY <1>1, <1>2
  <2> HIDE DEF b, s, a
  <2>2. QED
    BY <1>1, <1>3, <1>4, <2>1, GridBlock
<1>6. f.leaf = e /\ f.slot = s
  BY DEF Leaf
<1> HIDE DEF f, a, b, s
<1>7. LET t == HalfAt(f, a) IN
      /\ t.offset = d
      /\ d < z => t.half = e.lo /\ t.within = d
      /\ ~(d < z) => t.half = e.hi /\ t.within = d - z
      /\ t.pa = (IF t.half = None THEN 0 ELSE t.half.phys) + t.within
  BY <1>2, <1>4, <1>6 DEF HalfAt
<1>8. QED
  BY <1>5, <1>7 DEF f, a, b, s

\* A page that is one of a pair is mapped by the entry.
LEMMA PairServes ==
  ASSUME NoneIsNoRecord, NEW list \in Seq(Blocks), NEW ps \in Seq(PagesOf(list)), MasksKept(ps),
         NEW p \in ToSet(ps), NEW e \in ToSet(Join(ps)), PairOf(e, p, ps), ~(e.size < 2 * Smallest),
         NEW a \in p.addr .. p.addr + p.size - 1, Allows(p, a)
  PROVE  Together(a, e.addr, e.size) /\ Serves(e, p, a)
<1> DEFINE z == p.size
           u == p.addr
           d == a - u
           h == HalfOf(p)
           t == HalfAt(Leaf(e, e.size), a)
<1>1. /\ p \in PagesOf(list) /\ u \in Nat /\ z \in Nat /\ z > 0 /\ p.phys \in Nat
      /\ \A q \in ToSet(ps) : q \in PagesOf(list) /\ q.addr \in Nat /\ q.size \in Nat
  <2>1. \A q \in ToSet(ps) : q \in PagesOf(list)
    BY DEF ToSet
  <2>2. QED
    BY <2>1, PageIs
<1>2. d \in 0 .. z - 1 /\ a = u + d
  BY <1>1
<1>3. e \in EntriesOf(list)
  BY JoinType DEF ToSet
<1>4. h \in Halves /\ h.phys = p.phys /\ h.flags = p.flags /\ h # None
  BY <1>1, HalfOfIs, RecordsAreNotNone
<1>5. p.bm # None => d \in p.bm.bits
  BY DEF Allows
<1>6. ASSUME e.size = 2 * z, NEW c \in {0, z}, e.addr + c = u, e.emu = p.emu,
             c = 0 => e.lo = h, c = z => e.hi = h,
             e.emu = None => e.bm = None \/ c + d \in e.bm.bits
      PROVE  Together(a, e.addr, e.size) /\ Serves(e, p, a)
  <2>1. c + d \in 0 .. e.size - 1 /\ c + d \in Nat /\ (c + d < z <=> c = 0) /\ (c # 0 => (c + d) - z = d)
    <3> DEFINE s == e.size
    <3>1. z \in Nat /\ z > 0 /\ d \in 0 .. z - 1 /\ s = 2 * z /\ (c = 0 \/ c = z)
      BY <1>1, <1>2, <1>6
    <3> HIDE DEF z, d, s
    <3>2. c + d \in 0 .. s - 1 /\ c + d \in Nat /\ (c + d < z <=> c = 0) /\ (c # 0 => (c + d) - z = d)
      <4>1. CASE c = 0
        BY <3>1, <4>1
      <4>2. CASE c = z
        BY <3>1, <4>2
      <4>3. QED
        BY <3>1, <4>1, <4>2
    <3>3. QED
      BY <3>2 DEF s
  <2>2. e.addr \in Nat
    BY <1>3 DEF EntriesOf, EntryRecords
  <2>3. a = e.addr + (c + d)
    BY <1>1, <1>2, <1>6, <2>2
  <2>4. /\ Together(a, e.addr, e.size) /\ t.offset = c + d
        /\ c + d < z => t.half = e.lo /\ t.within = c + d
        /\ ~(c + d < z) => t.half = e.hi /\ t.within = (c + d) - z
        /\ t.pa = (IF t.half = None THEN 0 ELSE t.half.phys) + t.within
    <3> DEFINE x == c + d
    <3>1. x \in 0 .. e.size - 1 /\ a = e.addr + x
      BY <2>1, <2>3
    <3> HIDE DEF x, z
    <3>2. /\ Together(a, e.addr, e.size) /\ t.offset = x
          /\ x < z => t.half = e.lo /\ t.within = x
          /\ ~(x < z) => t.half = e.hi /\ t.within = x - z
          /\ t.pa = (IF t.half = None THEN 0 ELSE t.half.phys) + t.within
      BY <1>1, <1>3, <1>6, <3>1, HalfIs
    <3>3. QED
      BY <3>2 DEF x
  <2>5. t.half = h /\ t.within = d
    <3>1. CASE c = 0
      BY <1>2, <1>6, <2>1, <2>4, <3>1
    <3>2. CASE c # 0
      <4>1. c = z
        BY <1>6, <3>2
      <4> HIDE DEF d, z, t, h
      <4>2. QED
        BY <1>6, <2>1, <2>4, <3>2, <4>1
    <3>3. QED
      BY <3>1, <3>2
  <2> HIDE DEF t, h
  <2>6. t.pa = p.phys + d
    BY <1>4, <2>4, <2>5
  <2>7. p.phys + d = p.phys + a - p.addr
    BY <1>1, <1>2
  <2>8. Serves(e, p, a)
    BY <1>4, <1>6, <2>4, <2>5, <2>6, <2>7 DEF Serves, t
  <2>9. QED
    BY <2>4, <2>8
<1> HIDE DEF h, t
<1>7. CASE e = FirstOnly(p)
  <2>1. /\ e.addr = u /\ e.size = 2 * z /\ e.lo = HalfOf(p) /\ e.emu = p.emu
        /\ e.bm = JoinBitmask(p.bm, z, None, 0)
    BY <1>7 DEF FirstOnly, Entry
  <2>2. e.bm = None \/ 0 + d \in e.bm.bits
    <3>1. /\ p.bm = None => e.bm = None
          /\ p.bm # None => d \in e.bm.bits
      BY <1>1, <1>2, <1>5, <2>1, JoinBits
    <3>2. 0 + d = d
      BY <1>2
    <3>3. QED
      BY <3>1, <3>2
  <2>3. u + 0 = u /\ 0 # z
    BY <1>1
  <2>4. QED
    BY <1>6, <2>1, <2>2, <2>3 DEF h
<1>8. CASE e = SecondOnly(p) /\ ~IsFirst(p)
  <2>1. /\ e.addr = u - z /\ e.size = 2 * z /\ e.hi = HalfOf(p) /\ e.emu = p.emu
        /\ e.bm = JoinBitmask(None, 0, p.bm, z)
    BY <1>8 DEF SecondOnly, Entry
  <2>2. p.emu = None => p.bm = None
    BY <1>8 DEF MasksKept
  <2>3. p.bm = None => e.bm = None
    BY <2>1 DEF JoinBitmask
  <2>4. (u - z) + z = u /\ 0 # z
    BY <1>1
  <2>5. QED
    BY <1>6, <2>1, <2>2, <2>3, <2>4 DEF h
<1>9. ASSUME NEW q \in ToSet(ps), Matches(p, q), e = Both(p, q)
      PROVE  Together(a, e.addr, e.size) /\ Serves(e, p, a)
  <2>1. p.size = q.size /\ p.emu = q.emu
    BY <1>9 DEF Matches
  <2>2. /\ e.addr = u /\ e.size = 2 * z /\ e.lo = HalfOf(p) /\ e.emu = p.emu
        /\ e.bm = JoinBitmask(p.bm, z, q.bm, z)
    BY <1>9, <2>1 DEF Both, Entry
  <2>3. e.emu = None => e.bm = None \/ 0 + d \in e.bm.bits
    <3>1. ASSUME p.emu = None PROVE p.bm = None => q.bm = None
      BY <1>9, <2>1, <3>1 DEF MasksKept
    <3>2. /\ p.bm = None /\ q.bm = None => e.bm = None
          /\ p.bm # None => d \in e.bm.bits
      <4> DEFINE b == p.bm
                 c == q.bm
                 m == e.bm
      <4>1. m = JoinBitmask(b, z, c, z) /\ z \in Nat /\ d \in 0 .. z - 1
        BY <1>1, <1>2, <2>2
      <4> HIDE DEF b, c, m, z, d
      <4>2. /\ b = None /\ c = None => m = None
            /\ b # None /\ d \in b.bits => d \in m.bits
            /\ c # None /\ d \in c.bits => z + d \in m.bits
        BY <4>1, JoinBits
      <4>3. QED
        BY <1>5, <4>2 DEF b, c, m
    <3>3. 0 + d = d
      BY <1>2
    <3>4. QED
      BY <2>2, <3>1, <3>2, <3>3
  <2>4. u + 0 = u /\ 0 # z
    BY <1>1
  <2>5. QED
    BY <1>6, <2>2, <2>3, <2>4 DEF h
<1>10. ASSUME NEW q \in ToSet(ps), Matches(q, p), e = Both(q, p)
       PROVE  Together(a, e.addr, e.size) /\ Serves(e, p, a)
  <2>1. p.size = q.size /\ p.emu = q.emu /\ q.addr + z = u
    BY <1>10 DEF Matches
  <2>2. /\ e.addr = q.addr /\ e.size = 2 * z /\ e.hi = HalfOf(p) /\ e.emu = p.emu
        /\ e.bm = JoinBitmask(q.bm, z, p.bm, z)
    BY <1>10, <2>1 DEF Both, Entry
  <2>3. e.emu = None => e.bm = None \/ z + d \in e.bm.bits
    <3>1. ASSUME p.emu = None PROVE p.bm = None => q.bm = None
      BY <1>10, <2>1, <3>1 DEF MasksKept
    <3>2. /\ p.bm = None /\ q.bm = None => e.bm = None
          /\ p.bm # None => z + d \in e.bm.bits
      <4> DEFINE b == q.bm
                 c == p.bm
                 m == e.bm
      <4>1. m = JoinBitmask(b, z, c, z) /\ z \in Nat /\ d \in 0 .. z - 1
        BY <1>1, <1>2, <2>2
      <4> HIDE DEF b, c, m, z, d
      <4>2. /\ b = None /\ c = None => m = None
            /\ b # None /\ d \in b.bits => d \in m.bits
            /\ c # None /\ d \in c.bits => z + d \in m.bits
        BY <4>1, JoinBits
      <4>3. QED
        BY <1>5, <4>2 DEF b, c, m
    <3>3. QED
      BY <2>2, <3>1, <3>2
  <2>4. 0 # z
    BY <1>1
  <2>5. QED
    BY <1>6, <2>1, <2>2, <2>3, <2>4 DEF h
<1>11. QED
  BY <1>7, <1>8, <1>9, <1>10 DEF PairOf

\* And so is one that is mapped in quarters.
LEMMA QuarterServes ==
  ASSUME NoneIsNoRecord, NEW list \in Seq(Blocks), NEW ps \in Seq(PagesOf(list)), MasksKept(ps),
         Whole(ToSet(Join(ps))), NEW p \in ToSet(ps), ToSet(Quarters(p)) \subseteq ToSet(Join(ps)),
         NEW a \in p.addr .. p.addr + p.size - 1
  PROVE  \E e \in ToSet(Join(ps)) : Together(a, e.addr, e.size) /\ Serves(e, p, a)
<1> DEFINE y == p.size \div 4
           u == p.addr
           d == a - u
           half(k) == [flags |-> IF y < Base THEN p.flags \cup {"e"} ELSE p.flags,
                       phys  |-> p.phys + k * y]
           pair(k) == Entry(p.addr + k * y, y, half(k), half(k + 1), p.emu, p.bm)
<1>1. /\ p \in PagesOf(list) /\ u \in Nat /\ p.size \in Nat /\ p.phys \in Nat /\ p.flags \in SUBSET Flags
      /\ p.size \in ToSet(Sizes)
  <2>1. p \in PagesOf(list)
    BY DEF ToSet
  <2>2. QED
    BY <2>1, PageIs
<1>2. Quarters(p) = <<pair(0), pair(2)>>
  BY DEF Quarters
<1>3. ToSet(Quarters(p)) = {pair(0), pair(2)}
  <2> HIDE DEF pair
  <2>1. QED BY <1>2 DEF ToSet
<1>4. \A k \in {0, 2} : pair(k) \in ToSet(Join(ps)) /\ pair(k) \in ToSet(Quarters(p))
  <2> HIDE DEF pair
  <2>1. QED BY <1>3
<1>5. \A k : /\ pair(k).addr = p.addr + k * y /\ pair(k).size = 2 * y /\ pair(k).lo = half(k)
             /\ pair(k).hi = half(k + 1) /\ pair(k).emu = p.emu /\ pair(k).bm = p.bm
  BY DEF Entry
<1>6. y \in Nat /\ p.size = 4 * y /\ ~(2 * y < 2 * Smallest)
  <2>1. ~(2 * y < 2 * Smallest)
    BY <1>4, <1>5 DEF Whole
  <2>2. y \in Nat
    <3>1. \A n \in Nat : n \div 4 \in Nat
      OBVIOUS
    <3>2. QED
      BY <1>1, <3>1
  <2> HIDE DEF y
  <2>3. ~(y < Smallest)
    BY <2>1, <2>2, SizesAre
  <2>4. p.size = 4 * y
    BY <1>1, <2>3, QuarterIs DEF y
  <2>5. QED
    BY <2>1, <2>2, <2>4
<1>7. p.emu = None => p.bm = None
  <2> HIDE DEF pair
  <2>1. QED
    BY <1>4 DEF MasksKept
<1>8. d \in 0 .. 4 * y - 1 /\ a = u + d
  <2> HIDE DEF y
  <2>1. QED BY <1>1, <1>6
<1>9. ASSUME NEW k \in {0, 2}, NEW c \in 0 .. 2 * y - 1, d = k * y + c
      PROVE  Together(a, pair(k).addr, pair(k).size) /\ Serves(pair(k), p, a)
  <2> DEFINE e == pair(k)
             t == HalfAt(Leaf(e, e.size), a)
             lo == half(k)
             hi == half(k + 1)
             b == e.addr
  <2>1. e \in EntriesOf(list) /\ e \in ToSet(Join(ps))
    <3> HIDE DEF pair
    <3>1. QED
      BY <1>4, JoinType DEF ToSet
  <2>2. /\ e.size = 2 * y /\ e.lo = lo /\ e.hi = hi /\ e.emu = p.emu /\ e.bm = p.bm
        /\ b = u + k * y
    BY <1>5
  <2>3. /\ lo.phys = p.phys + k * y /\ hi.phys = p.phys + (k + 1) * y
        /\ lo.flags \in SUBSET Flags /\ hi.flags \in SUBSET Flags
        /\ "e" \notin lo.flags => lo.flags = p.flags
        /\ "e" \notin hi.flags => hi.flags = p.flags
        /\ lo = [flags |-> lo.flags, phys |-> lo.phys] /\ hi = [flags |-> hi.flags, phys |-> hi.phys]
    <3>1. "e" \in Flags
      BY DEF Flags
    <3>2. QED
      BY <1>1, <3>1
  <2> HIDE DEF pair, half, e, lo, hi, t, b
  <2>4. k * y \in Nat /\ (k + 1) * y = k * y + y /\ (k + 1) * y \in Nat
    <3>1. y \in Nat /\ (k = 0 \/ k = 2)
      BY <1>6
    <3> HIDE DEF y
    <3>2. CASE k = 0
      BY <3>1, <3>2
    <3>3. CASE k = 2
      BY <3>1, <3>3
    <3>4. QED
      BY <3>1, <3>2, <3>3
  <2>5. lo \in Halves /\ hi \in Halves
    <3>1. lo.phys \in Nat /\ hi.phys \in Nat
      <4> DEFINE x == k * y
                 w == (k + 1) * y
      <4>1. x \in Nat /\ w \in Nat /\ lo.phys = p.phys + x /\ hi.phys = p.phys + w
        BY <2>3, <2>4
      <4>2. p.phys \in Nat
        BY <1>1
      <4> DEFINE n == p.phys
                 i == lo.phys
                 j == hi.phys
      <4>3. x \in Nat /\ w \in Nat /\ n \in Nat /\ i = n + x /\ j = n + w
        BY <4>1, <4>2
      <4> HIDE DEF x, w, n, i, j
      <4>4. i \in Nat /\ j \in Nat
        BY <4>3
      <4>5. QED
        BY <4>4 DEF i, j
    <3>2. QED
      BY <2>3, <3>1 DEF Halves
  <2>6. lo # None /\ hi # None
    BY <2>5, RecordsAreNotNone
  <2>7. a = b + c /\ c \in 0 .. e.size - 1 /\ c \in Nat
    <3> DEFINE x == k * y
    <3>1. x \in Nat /\ d = x + c /\ b = u + x /\ a = u + d /\ u \in Nat
      BY <1>1, <1>8, <1>9, <2>2, <2>4
    <3>2. c \in Nat
      BY <1>6
    <3> HIDE DEF x, d, u
    <3>3. a = b + c
      BY <3>1, <3>2
    <3>4. QED
      BY <2>2, <3>2, <3>3
  <2>8. /\ Together(a, b, e.size)
        /\ c < y => t.half = e.lo /\ t.within = c
        /\ ~(c < y) => t.half = e.hi /\ t.within = c - y
        /\ t.pa = (IF t.half = None THEN 0 ELSE t.half.phys) + t.within
    <3>1. ~(e.size < 2 * Smallest)
      BY <1>6, <2>2
    <3> HIDE DEF y
    <3>2. QED
      BY <1>6, <2>1, <2>2, <2>7, <3>1, HalfIs DEF t, b
  <2>9. t.half \in Halves /\ ("e" \notin t.half.flags => t.half.flags = p.flags)
    BY <2>2, <2>3, <2>5, <2>8
  <2>10. t.pa = p.phys + d
    <3> DEFINE x == k * y
               w == (k + 1) * y
    <3>1. /\ x \in Nat /\ w = x + y /\ d = x + c /\ lo.phys = p.phys + x /\ hi.phys = p.phys + w
          /\ y \in Nat /\ p.phys \in Nat /\ c \in Nat
      BY <1>1, <1>6, <1>9, <2>3, <2>4, <2>7
    <3> HIDE DEF x, w, d, y
    <3>2. CASE c < y
      <4>1. t.half = lo /\ t.within = c
        BY <2>2, <2>8, <3>2
      <4>2. t.pa = lo.phys + c
        BY <2>6, <2>8, <4>1
      <4>3. QED
        BY <3>1, <4>2
    <3>3. CASE ~(c < y)
      <4>1. t.half = hi /\ t.within = c - y
        BY <2>2, <2>8, <3>3
      <4>2. t.pa = hi.phys + (c - y)
        BY <2>6, <2>8, <4>1
      <4>3. QED
        BY <3>1, <4>2
    <3>4. QED
      BY <3>2, <3>3
  <2>11. p.phys + d = p.phys + a - p.addr
    BY <1>1, <1>8
  <2> HIDE DEF d
  <2>12. Serves(e, p, a)
    BY <1>7, <2>2, <2>9, <2>10, <2>11 DEF Serves, t
  <2>13. QED
    BY <2>8, <2>12 DEF e, b
<1>10. \E k \in {0, 2}, c \in 0 .. 2 * y - 1 : d = k * y + c
  <2> HIDE DEF y, d
  <2>1. CASE d < 2 * y
    <3>1. 0 \in {0, 2} /\ d \in 0 .. 2 * y - 1 /\ d = 0 * y + d
      BY <1>6, <1>8, <2>1
    <3>2. QED
      BY <3>1
  <2>2. CASE ~(d < 2 * y)
    <3>1. 2 \in {0, 2} /\ d - 2 * y \in 0 .. 2 * y - 1 /\ d = 2 * y + (d - 2 * y)
      BY <1>6, <1>8, <2>2
    <3>2. QED
      BY <3>1
  <2>3. QED
    BY <2>1, <2>2
<1> HIDE DEF pair, d, y
<1>11. QED
  BY <1>4, <1>9, <1>10

\* Every address of every page is mapped as the page says.
LEMMA PageIsServed ==
  ASSUME NoneIsNoRecord, NEW list \in Seq(Blocks), NEW ps \in Seq(PagesOf(list)), MasksKept(ps),
         Whole(ToSet(Join(ps))), NEW p \in ToSet(ps),
         NEW a \in p.addr .. p.addr + p.size - 1, Allows(p, a)
  PROVE  \E e \in ToSet(Join(ps)) : Together(a, e.addr, e.size) /\ Serves(e, p, a)
<1>1. Maps(Join(ps), p, ps)
  BY JoinMaps
<1>2. CASE \E e \in ToSet(Join(ps)) : PairOf(e, p, ps)
  BY <1>2, PairServes DEF Whole
<1>3. CASE ToSet(Quarters(p)) \subseteq ToSet(Join(ps))
  BY <1>3, QuarterServes
<1>4. QED
  BY <1>1, <1>2, <1>3 DEF Maps

\* What is asked of the small regions of a list: each lies in one page, at the place in it
\* that it has in its physical page, and those of one page are mapped to the same one.
SmallFit(list) ==
  \A r, q \in ToSet(list) : r.size \in 1 .. Base - 1 =>
    /\ End(r) <= End(Block(r))
    /\ Block(r).phys - Block(r).addr = r.phys - r.addr
    /\ q.size \in 1 .. Base - 1 /\ Block(q).addr = Block(r).addr /\ Block(q).size = Block(r).size
         => q.phys - q.addr = r.phys - r.addr

\* What an address is rounded down to is a multiple.
LEMMA DownAligned ==
  ASSUME NEW a \in Nat, NEW z \in Nat, z > 0
  PROVE  Down(a, z) % z = 0
<1> DEFINE k == a \div z
<1>1. k \in Nat /\ a = z * k + (a % z)
  OBVIOUS
<1>2. z * k \in Nat /\ Down(a, z) = z * k
  BY <1>1 DEF Down
<1> HIDE DEF k
<1>3. (z * k + 0) % z = 0
  BY <1>1, DivUnique
<1>4. QED
  BY <1>2, <1>3

\* The block made of a small region: a page, with the region's words allowed.
LEMMA BlockIs ==
  ASSUME NEW r \in Regions, r.size < Base
  PROVE  /\ Block(r).size \in ToSet(Sizes) /\ Block(r).size \in Nat /\ Block(r).addr \in Nat
         /\ Block(r).phys \in Nat
         /\ Block(r).addr % Block(r).size = 0 /\ Block(r).addr <= r.addr
         /\ \A i \in 0 .. Block(r).size - 1 :
              i + Block(r).addr >= r.addr /\ i + Block(r).addr < End(r) => i \in Block(r).bm.bits
<1> DEFINE n == r.size
           z == BlockSize(n)
           Z == {y \in ToSet(Sizes) : y >= n}
<1>1. r.size \in Nat /\ r.addr \in Nat /\ r.phys \in Nat
  BY DEF Regions
<1>2. Z \in SUBSET Nat /\ Base \in Z
  BY <1>1, SizesAre, PageTablesAssumption DEF Levels
<1>3. \E y \in Z : \A x \in Z : y <= x
  BY <1>2, LeastNat
<1>4. z \in ToSet(Sizes)
  <2>1. \E y \in ToSet(Sizes) : y >= n /\ \A x \in ToSet(Sizes) : x >= n => x >= y
    BY <1>2, <1>3
  <2>2. QED
    BY <2>1 DEF BlockSize
<1>5. z \in Nat /\ z > 0
  BY <1>4, SizesAre
<1> HIDE DEF z
<1> DEFINE a == Down(r.addr, z)
           d == Down(r.phys, z)
           bits == {i \in 0 .. z - 1 : i + a >= r.addr /\ i + a < End(r)}
           m == Bitmask(z, bits)
<1>6. a \in Nat /\ a <= r.addr /\ d \in Nat /\ a % z = 0
  BY <1>1, <1>5, DownIs, DownAligned
<1>7. m.bits = bits
  BY DEF Bitmask
<1>8. Block(r) = [r EXCEPT !.addr = a, !.size = z, !.phys = d, !.flags = @ \cup {"e"}, !.bm = m]
  BY DEF Block, Regions, z
<1> HIDE DEF a, m, d, bits
<1>9. Block(r).addr = a /\ Block(r).size = z /\ Block(r).phys = d /\ Block(r).bm = m
  BY <1>8 DEF Regions
<1>10. QED
  BY <1>4, <1>5, <1>6, <1>7, <1>9 DEF bits

\* Every word of a region lies in a page that maps it as configured.
LEMMA RegionIsPaged ==
  ASSUME NEW list \in Seq(Regions), SmallBlocks(list) # None, Split(SmallBlocks(list)) # None,
         SmallFit(list), NEW r \in ToSet(list), NEW a \in r.addr .. End(r) - 1
  PROVE  \E p \in ToSet(Split(SmallBlocks(list))) :
           /\ a \in p.addr .. p.addr + p.size - 1 /\ Allows(p, a)
           /\ p.phys + a - p.addr = r.phys + a - r.addr /\ p.emu = r.emu
           /\ "e" \notin p.flags => "e" \notin r.flags /\ ~(r.size < Base)
<1> DEFINE bs == SmallBlocks(list)
           ps == Split(bs)
<1>1. /\ r \in Regions /\ r.addr \in Nat /\ r.size \in Nat /\ r.phys \in Nat /\ r.bm = None
      /\ End(r) = r.addr + r.size
  <2>1. r \in Regions
    BY DEF ToSet
  <2>2. QED
    BY <2>1 DEF Regions, End
<1>2. r.size # 0
  BY <1>1
<1>3. bs \in Seq(BlocksOf(list)) /\ BlocksOf(list) \subseteq Blocks
  BY SmallBlocksType DEF BlocksOf
<1>4. PICK b \in ToSet(bs) : StandsFor(b, r, list)
  BY <1>2, SmallBlocksType
<1>5. b \in Blocks /\ b.addr \in Nat /\ b.size \in Nat /\ b.phys \in Nat
  <2>1. b \in Blocks
    BY <1>3 DEF ToSet
  <2>2. QED
    BY <2>1 DEF Blocks
<1>6. PICK l \in Seq(Parts(b)) : ToSet(l) \subseteq ToSet(ps) /\ Covered(l, b, b.addr + b.size)
  <2>1. bs \in Seq(Blocks)
    BY <1>3
  <2> HIDE DEF bs
  <2>2. CutInto(b, ps)
    BY <2>1, SplitType DEF bs
  <2>3. QED
    BY <2>2 DEF CutInto
<1>7. CASE ~(r.size < Base)
  <2>1. b = r
    BY <1>4, <1>7 DEF StandsFor
  <2>2. PICK q \in ToSet(l) : a \in q.addr .. q.addr + q.size - 1
    BY <1>1, <1>6, <2>1 DEF Covered
  <2>3. q \in Parts(r)
    BY <2>1, <2>2 DEF ToSet
  <2>4. /\ q.bm = None /\ q.emu = r.emu /\ q.flags = r.flags /\ q.phys - q.addr = r.phys - r.addr
        /\ q.phys \in Nat /\ q.addr \in Nat
    BY <1>1, <2>3 DEF Parts, Part, Blocks
  <2>5. q.phys + a - q.addr = r.phys + a - r.addr
    <3> DEFINE u == q.phys
               w == q.addr
               x == r.phys
               y == r.addr
    <3>1. u \in Nat /\ w \in Nat /\ x \in Nat /\ y \in Nat /\ a \in Nat /\ u - w = x - y
      BY <1>1, <2>4
    <3> HIDE DEF u, w, x, y
    <3>2. u + a - w = x + a - y
      BY <3>1
    <3>3. QED
      BY <3>2 DEF u, w, x, y
  <2>6. q \in ToSet(ps)
    BY <1>6, <2>2
  <2>7. QED
    BY <1>7, <2>2, <2>4, <2>5, <2>6 DEF Allows
<1>8. CASE r.size < Base
  <2>1. PICK q \in ToSet(list) :
          /\ q.size # 0 /\ q.size < Base /\ Block(q).addr = Block(r).addr /\ Block(q).size = Block(r).size
          /\ b.addr = Block(q).addr /\ b.size = Block(q).size /\ b.phys = Block(q).phys
          /\ b.emu = r.emu /\ Block(r).bm.bits \subseteq b.bm.bits /\ "e" \in b.flags
    BY <1>4, <1>8 DEF StandsFor
  <2>2. q \in Regions /\ q.size \in Nat /\ q.addr \in Nat /\ q.phys \in Nat
    <3>1. q \in Regions
      BY DEF ToSet
    <3>2. QED
      BY <3>1 DEF Regions
  <2>3. /\ b.size \in ToSet(Sizes) /\ b.addr % b.size = 0 /\ b.addr <= r.addr
        /\ \A i \in 0 .. b.size - 1 : i + b.addr >= r.addr /\ i + b.addr < End(r) => i \in b.bm.bits
    BY <1>1, <1>8, <2>1, BlockIs
  <2>4. b \in ToSet(l)
    <3>1. Page(b) /\ b.size > 0
      BY <2>3, SizesAre DEF Page
    <3>2. b.addr + b.size # b.addr
      BY <1>5, <3>1
    <3>3. QED
      BY <1>6, <3>1, <3>2 DEF Covered
  <2>5. r.size \in 1 .. Base - 1 /\ q.size \in 1 .. Base - 1
    BY <1>1, <1>2, <1>8, <2>1, <2>2, SizesAre
  <2>6. End(r) <= b.addr + b.size
    <3>1. End(r) <= End(Block(r)) /\ End(Block(r)) = b.addr + b.size
      BY <2>1, <2>5 DEF SmallFit, End
    <3>2. QED
      BY <3>1
  <2>7. b.phys - b.addr = r.phys - r.addr
    BY <2>1, <2>5 DEF SmallFit
  <2> DEFINE u == b.phys
             w == b.addr
             x == r.phys
             y == r.addr
             n == r.size
             z == b.size
  <2>8. /\ u \in Nat /\ w \in Nat /\ x \in Nat /\ y \in Nat /\ n \in Nat /\ z \in Nat
        /\ a \in y .. y + n - 1 /\ w <= y /\ y + n <= w + z /\ u - w = x - y
        /\ \A i \in 0 .. z - 1 : i + w >= y /\ i + w < y + n => i \in b.bm.bits
    BY <1>1, <1>5, <2>3, <2>6, <2>7
  <2>9. a \in w .. w + z - 1 /\ a - w \in b.bm.bits /\ u + a - w = x + a - y
    <3> HIDE DEF u, w, x, y, n, z
    <3>1. a \in w .. w + z - 1 /\ u + a - w = x + a - y
      BY <2>8
    <3>2. a - w \in 0 .. z - 1 /\ (a - w) + w = a
      BY <2>8, <3>1
    <3>3. (a - w) + w >= y /\ (a - w) + w < y + n
      BY <2>8, <3>2
    <3>4. a - w \in b.bm.bits
      BY <2>8, <3>2, <3>3
    <3>5. QED
      BY <3>1, <3>4
  <2>10. QED
    BY <1>6, <2>1, <2>4, <2>9 DEF Allows
<1>9. QED
  BY <1>7, <1>8

\* Where an entry serves a page, an access is answered as the page says.
LEMMA ServedIsReached ==
  ASSUME NoneIsNoRecord, NEW list \in Seq(Blocks), NEW l \in Seq(EntriesOf(list)), Ascending(l),
         Whole(ToSet(l)), \A e \in ToSet(l) : PhysAligned(e),
         NEW a \in Addresses, NEW e \in ToSet(l), Together(a, e.addr, e.size), NEW p, Serves(e, p, a)
  PROVE  \A o \in Resolve(Tree(l), a) :
           /\ o.kind # "bad" /\ o.pa = p.phys + a - p.addr
           /\ o.kind = "direct" \/ o.emu = p.emu
           /\ o.kind = "direct" => "e" \notin p.flags
<1> DEFINE f == SearchTable(Tree(l), a)
           L == Leaf(e, e.size)
           t == HalfAt(L, a)
           pa == p.phys + a - p.addr
<1>1. f = L \/ (f.found = "transit" /\ SearchSmall(f, a) = L)
  <2>1. a \in 0 .. Space - 1
    BY DEF Addresses
  <2>2. QED
    BY <2>1, EntryIsFound
<1>2. /\ t.half \in Halves /\ t.pa = pa /\ e.emu = p.emu
      /\ "e" \notin t.half.flags => t.half.flags = p.flags
      /\ e.emu = None => e.bm = None \/ t.offset \in e.bm.bits
  BY DEF Serves
<1>3. L.found = "leaf" /\ L.leaf = e /\ L.slot = e.size
  BY DEF Leaf
<1>4. t.half # None
  BY <1>2, RecordsAreNotNone DEF Halves
<1>5. e # EmptyEntry
  <2>1. ~(e.size < 2 * Smallest) /\ Smallest \in Nat /\ Smallest > 0
    BY SizesAre DEF Whole
  <2>2. EmptyEntry.size = 2 * 0
    BY DEF EmptyEntry, Entry
  <2>3. QED
    BY <2>1, <2>2
<1>6. e \in EntriesOf(list) /\ PhysAligned(e) /\ e.size \in Nat
  <2>1. e \in EntriesOf(list)
    BY DEF ToSet
  <2>2. QED
    BY <2>1 DEF EntriesOf, EntryRecords
<1>7. DirectAddress(L, a) = t.pa
  <2>1. t.half \in {e.lo, e.hi} /\ t.pa = t.half.phys + t.within
    BY <1>3, <1>4 DEF HalfAt
  <2>2. t.half.phys % (e.size \div 2) = 0
    BY <1>4, <1>6, <2>1 DEF PhysAligned
  <2>3. t.half.phys \in Nat
    BY <1>2 DEF Halves
  <2>4. Down(t.half.phys, e.size \div 2) = t.half.phys
    <3> HIDE DEF t
    <3>1. QED BY <2>2, <2>3 DEF Down
  <2>5. DirectAddress(L, a) = Down(t.half.phys, e.size \div 2) + t.within
    BY <1>3 DEF DirectAddress
  <2> HIDE DEF t
  <2>6. QED
    BY <2>1, <2>4, <2>5
<1> HIDE DEF pa
<1>8. \A o \in Emulate(L, a) : o.kind \in {"device", "emulated"} /\ o.pa = pa /\ o.emu = p.emu
  <2> DEFINE access == Outcome("emulated", t.pa, None)
  <2>1. Emulate(L, a) = IF e.emu # None THEN {Outcome("device", t.pa, e.emu)}
                        ELSE IF e.bm = None \/ t.offset \in e.bm.bits THEN {access}
                        ELSE IF t.offset < e.bm.len THEN {Bad} ELSE {access, Bad}
    BY <1>3 DEF Emulate
  <2> HIDE DEF t
  <2>2. CASE e.emu # None
    BY <1>2, <2>1, <2>2 DEF Outcome
  <2>3. CASE e.emu = None
    BY <1>2, <2>1, <2>3 DEF Outcome
  <2>4. QED
    BY <2>2, <2>3
<1>9. Resolve(Tree(l), a) = IF Direct(f, a) THEN {Outcome("direct", DirectAddress(f, a), None)}
                            ELSE Handle(f, IF f.found = "transit" THEN SearchSmall(f, a) ELSE NoLeaf, a)
  BY DEF Resolve
<1> HIDE DEF f
<1>10. CASE f = L /\ "e" \notin t.half.flags
  <2>1. Direct(f, a)
    BY <1>3, <1>4, <1>10 DEF Direct
  <2> HIDE DEF t, L
  <2>2. Resolve(Tree(l), a) = {Outcome("direct", pa, None)} /\ "e" \notin p.flags
    BY <1>2, <1>7, <1>9, <1>10, <2>1
  <2>3. QED
    BY <2>2 DEF Outcome, pa
<1>11. CASE f = L /\ "e" \in t.half.flags
  <2>1. ~Direct(f, a)
    BY <1>11 DEF Direct
  <2> HIDE DEF t, L
  <2>2. Resolve(Tree(l), a) = Emulate(L, a)
    BY <1>3, <1>5, <1>9, <1>11, <2>1 DEF Handle
  <2>3. QED
    BY <1>8, <2>2 DEF pa
<1>12. CASE f.found = "transit" /\ SearchSmall(f, a) = L
  <2>1. ~Direct(f, a)
    BY <1>12 DEF Direct
  <2> HIDE DEF t, L
  <2>2. Resolve(Tree(l), a) = Emulate(L, a)
    BY <1>3, <1>9, <1>12, <2>1 DEF Handle
  <2>3. QED
    BY <1>8, <2>2 DEF pa
<1>13. QED
  BY <1>1, <1>10, <1>11, <1>12

\* The lists of a configuration: no region ends behind the address space, the small ones
\* fit their pages, and no software bitmask is lost or mixed where pages are paired.
RegionsFit(c) ==
  \A v \in Vms :
    /\ \A r \in ToSet(c[v]) : End(r) <= Space
    /\ SmallFit(c[v])
    /\ SmallBlocks(c[v]) # None /\ Split(SmallBlocks(c[v])) # None => MasksKept(Split(SmallBlocks(c[v])))

\* With the tables of such lists every region is reached.
LEMMA RegionsOfInv ==
  ASSUME NoneIsNoRecord, ScriptInv, BlocksApart(regions), NoneQuartered(regions), RegionsFit(regions)
  PROVE  RegionsReached
<1> SUFFICES ASSUME NEW v \in Vms, Made(v), NEW r \in ToSet(regions[v]), NEW a \in r.addr .. End(r) - 1,
                    NEW o \in Resolve(tree[v], a)
             PROVE  o.kind # "bad" /\ Reaches(o, r, a)
  BY DEF RegionsReached
<1> DEFINE list == BlocksOfVm(v)
           l == EntriesOfVm(v)
           ps == Split(list)
<1>1. HasTables(v)
  BY DEF HasTables
<1>2. /\ list \in Seq(Blocks) /\ l \in Seq(EntriesOf(list))
      /\ \A e \in ToSet(l) : PhysAligned(e)
      /\ tree[v] = Tree(l)
  BY <1>1, TablesOf
<1>3. list # None /\ ps # None
  BY <1>1 DEF ScriptInv, ListsAreChecked, TreesAreTables
<1>4. Ascending(list) /\ \A e \in ToSet(l) : e.size >= 2 * Smallest
  BY <1>3 DEF BlocksApart, NoneQuartered, BlocksOfVm, EntriesOfVm
<1>5. Whole(ToSet(l))
  <2>1. \A e \in ToSet(l) : e.size \in Nat
    BY <1>2 DEF ToSet, EntriesOf, EntryRecords
  <2>2. Smallest \in Nat
    BY SizesAre
  <2>3. QED
    BY <1>4, <2>1, <2>2 DEF Whole
<1>6. ps \in Seq(PagesOf(list)) /\ Ascending(l)
  <2>1. ps \in Seq(PagesOf(list)) /\ Ascending(ps)
    BY <1>2, <1>3, <1>4, SplitType
  <2>2. QED
    BY <1>2, <2>1, JoinAscends DEF EntriesOfVm
<1>7. regions[v] \in Seq(Regions)
  BY ConfiguratorAssumption DEF ScriptInv, ScriptTypeOK
<1>8. /\ SmallFit(regions[v]) /\ MasksKept(ps) /\ End(r) <= Space
  BY <1>3 DEF RegionsFit, BlocksOfVm
<1>9. PICK p \in ToSet(ps) :
        /\ a \in p.addr .. p.addr + p.size - 1 /\ Allows(p, a)
        /\ p.phys + a - p.addr = r.phys + a - r.addr /\ p.emu = r.emu
        /\ "e" \notin p.flags => "e" \notin r.flags /\ ~(r.size < Base)
  BY <1>3, <1>7, <1>8, RegionIsPaged DEF BlocksOfVm
<1>10. PICK e \in ToSet(l) : Together(a, e.addr, e.size) /\ Serves(e, p, a)
  <2> HIDE DEF list, ps
  <2>1. l = Join(ps)
    BY DEF EntriesOfVm, ps, list
  <2>2. QED
    BY <1>2, <1>5, <1>6, <1>8, <1>9, <2>1, PageIsServed
<1>11. a \in Addresses
  <2>1. r.addr \in Nat /\ End(r) \in Nat /\ r.size \in Nat
    <3>1. r \in Regions
      BY <1>7 DEF ToSet
    <3>2. QED
      BY <3>1 DEF Regions, End
  <2>2. Space \in Nat
    BY PageTablesAssumption
  <2>3. QED
    BY <1>8, <2>1, <2>2 DEF Addresses
<1>12. /\ o.kind # "bad" /\ o.pa = p.phys + a - p.addr
       /\ o.kind = "direct" \/ o.emu = p.emu
       /\ o.kind = "direct" => "e" \notin p.flags
  <2> HIDE DEF list, l
  <2>1. QED
    BY <1>2, <1>5, <1>6, <1>10, <1>11, ServedIsReached
<1>13. r.size \in Nat /\ Base \in Nat
  <2>1. r \in Regions
    BY <1>7 DEF ToSet
  <2>2. QED
    BY <2>1, SizesAre DEF Regions
<1>14. QED
  BY <1>9, <1>12, <1>13 DEF Reaches

\* Every word of every region is reached at its configured physical address, directly or
\* through the region's emulator: for any page sizes and any number of VMs whose blocks do
\* not overlap, none of whose pages of the smallest size is quartered, and whose regions
\* fit (all of the script's steps, and the searches of TLB_refill and do_TLB).
THEOREM EveryRegionIsReached ==
  ASSUME NoneIsNoRecord,
         \A c \in Configurations : BlocksApart(c) /\ NoneQuartered(c) /\ RegionsFit(c)
  PROVE  RunSpec => []RegionsReached
<1>1. ScriptInv => RegionsReached
  BY RegionsOfInv DEF ScriptInv, ScriptTypeOK
<1>2. QED
  BY <1>1, TablesAreOfTheLists, PTL

-----------------------------------------------------------------------------
(* Emulated instructions                                                     *)

Words == 0 .. Word - 1

\* The registers f after the branch b has linked, in the frame or the set.
Relinked(b, f) ==
  [x \in Regs |-> IF x \in Links(b) /\ ~(Shadow /\ x = 0) THEN (pc + 8) % Word ELSE f[x]]

\* A frame of u with registers f and the PC a; at the entry the PC is pc.
FrameAt(u, f, a) ==
  [gpr |-> f, epc |-> a, bd |-> u.branch.kind # "none", badinst |-> u.op, badinstp |-> u.branch]

EntryFrame(u, f) == FrameAt(u, f, pc)

-----------------------------------------------------------------------------
(* A remainder is a word.                                                   *)
LEMMA Remainder ==
  ASSUME NEW a \in Int, NEW n \in Nat, n > 0
  PROVE  a % n \in 0 .. n - 1
OBVIOUS

LEMMA Words4 ==
  ASSUME NEW a \in Int
  PROVE  a % Word \in Words
BY Remainder, EmulationAssumption DEF Words

(* What the hardware wrote when the slot trapped is what a branch links.    *)
LEMMA LinkedValues ==
  ASSUME TypeOK, NEW u \in Units
  PROVE  /\ CPU!Linked(u.branch, gpr) =
              [x \in Regs |-> IF x \in Links(u.branch) /\ x # 0 THEN (pc + 8) % Word ELSE gpr[x]]
         /\ CPU!Linked(u.branch, gpr) \in [Regs -> Words]
         /\ CPU!Linked(u.branch, gpr)[0] = 0
<1> DEFINE b == u.branch
<1>1. WellFormed(u)
  BY EmulationAssumption
<1>2. (pc + 8) % Word \in Words
  BY Words4 DEF TypeOK
<1>3. b.rd \in Regs /\ Link \in Regs /\ 0 \in Regs /\ Link # 0
  BY <1>1, EmulationAssumption DEF WellFormed
<1>4. gpr \in [Regs -> Words] /\ gpr[0] = 0
  BY DEF TypeOK, Words
<1>5. CASE b.kind \in {"jal", "bltzal", "bgezal"}
  <2>1. Links(b) = {Link}
    BY <1>5 DEF Links
  <2>2. CPU!Linked(b, gpr) = [gpr EXCEPT ![Link] = (pc + 8) % Word]
    BY <1>5, <1>3 DEF CPU!Linked, CPU!Linking, CPU!Put, CPU!Wrap
  <2> QED
    BY <2>1, <2>2, <1>2, <1>3, <1>4
<1>6. CASE b.kind = "jalr"
  <2>1. Links(b) = {b.rd}
    BY <1>6 DEF Links
  <2>2. CPU!Linked(b, gpr) = IF b.rd = 0 THEN gpr ELSE [gpr EXCEPT ![b.rd] = (pc + 8) % Word]
    BY <1>6, <1>3 DEF CPU!Linked, CPU!Linking, CPU!Put, CPU!Wrap
  <2> QED
    BY <2>1, <2>2, <1>2, <1>3, <1>4
<1>7. CASE b.kind \notin {"jal", "bltzal", "bgezal", "jalr"}
  <2>1. Links(b) = {}
    BY <1>7 DEF Links
  <2>2. CPU!Linked(b, gpr) = gpr
    BY <1>7 DEF CPU!Linked, CPU!Linking
  <2> QED
    BY <2>1, <2>2, <1>2, <1>3, <1>4
<1> QED
  BY <1>5, <1>6, <1>7

(* The branch does not link to a register it reads.                         *)
LEMMA LinkIsNotRead ==
  ASSUME NEW u \in Units, NEW x \in Reads(u.branch)
  PROVE  x \in Regs /\ x \notin Links(u.branch)
BY EmulationAssumption DEF WellFormed, Reads, Links, Branches

(* In a frame with registers f a branch writes its link as in Relinked.      *)
LEMMA LinkWrittenValues ==
  ASSUME NEW u \in Units, NEW f \in [Regs -> Words], pc \in Words
  PROVE  LinkWritten(u.branch, EntryFrame(u, f)) = EntryFrame(u, Relinked(u.branch, f))
<1> DEFINE b == u.branch
           e == EntryFrame(u, f)
           link == (pc + 8) % Word
<1>1. WellFormed(u)
  BY EmulationAssumption
<1>2. b.rd \in Regs /\ Link \in Regs /\ 0 \in Regs /\ Link # 0
  BY <1>1, EmulationAssumption DEF WellFormed
<1>3. ASSUME NEW x \in Regs
      PROVE  gpr_write(e, x, link) =
               EntryFrame(u, [y \in Regs |-> IF y \in {x} /\ ~(Shadow /\ y = 0) THEN link ELSE f[y]])
  <2>1. CASE Shadow /\ x = 0
    <3>1. gpr_write(e, x, link) = e
      BY <2>1 DEF gpr_write
    <3>2. f = [y \in Regs |-> IF y \in {x} /\ ~(Shadow /\ y = 0) THEN link ELSE f[y]]
      BY <2>1
    <3> QED
      BY <3>1, <3>2
  <2>2. CASE ~(Shadow /\ x = 0)
    <3>1. gpr_write(e, x, link) = EntryFrame(u, [f EXCEPT ![x] = link])
      BY <2>2 DEF gpr_write, EntryFrame, FrameAt
    <3>2. [f EXCEPT ![x] = link] =
             [y \in Regs |-> IF y \in {x} /\ ~(Shadow /\ y = 0) THEN link ELSE f[y]]
      BY <2>2, <1>3
    <3> QED
      BY <3>1, <3>2
  <2> QED
    BY <2>1, <2>2
<1>4. e.epc = pc
  BY DEF EntryFrame, FrameAt
<1>5. CASE b.kind \in {"jal", "bltzal", "bgezal"}
  <2>1. Links(b) = {Link} /\ LinkWritten(b, e) = gpr_write(e, Link, link)
    BY <1>4, <1>5 DEF Links, LinkWritten
  <2> QED
    BY <2>1, <1>2, <1>3 DEF Relinked
<1>6. CASE b.kind = "jalr"
  <2>1. Links(b) = {b.rd} /\ LinkWritten(b, e) = gpr_write(e, b.rd, link)
    BY <1>4, <1>6 DEF Links, LinkWritten
  <2> QED
    BY <2>1, <1>2, <1>3 DEF Relinked
<1>7. CASE b.kind \notin {"jal", "bltzal", "bgezal", "jalr"}
  <2>1. Links(b) = {} /\ LinkWritten(b, e) = e
    BY <1>7 DEF Links, LinkWritten
  <2>2. Relinked(b, f) = f
    BY <2>1 DEF Relinked
  <2> QED
    BY <2>1, <2>2
<1> QED
  BY <1>5, <1>6, <1>7

(* A branch whose registers are still as they were is decided as the CPU     *)
(* decides it.                                                              *)
LEMMA ConditionAgrees ==
  ASSUME NEW u \in Units, NEW f \in [Regs -> Words], NEW g \in [Regs -> Words],
         \A x \in Reads(u.branch) : f[x] = g[x],
         u.branch.kind \notin CPU!Jumps \cup {"none"}
  PROVE  Condition(u.branch, EntryFrame(u, f)) <=> CPU!Taken(u.branch, g)
<1> DEFINE b == u.branch
           e == EntryFrame(u, f)
<1>1. WellFormed(u) /\ Word \in Nat /\ Word > 0
  BY EmulationAssumption
<1>2. b.kind \in Branches \ CPU!Jumps /\ b.rs \in Regs /\ b.rt \in Regs
  BY <1>1 DEF WellFormed
<1>3. e.gpr = f
  BY DEF EntryFrame, FrameAt
<1>4. CASE b.kind \in {"beq", "bne"}
  <2>1. f[b.rs] = g[b.rs] /\ f[b.rt] = g[b.rt]
    BY <1>4 DEF Reads
  <2> QED
    BY <1>3, <1>4, <2>1 DEF Condition, Holds, CPU!Taken, CPU!Jumps, gpr_read
<1>5. CASE b.kind \in {"bc1f", "bc1t", "bposge32"}
  BY <1>5 DEF Condition, Holds, CPU!Taken, CPU!Jumps
<1>6. CASE b.kind \in {"bltz", "bltzal", "bgez", "bgezal", "blez", "bgtz"}
  <2>1. f[b.rs] = g[b.rs]
    BY <1>6 DEF Reads
  <2>2. ASSUME NEW v \in Words
        PROVE  /\ Negative(v) <=> CPU!Signed(v) < 0
               /\ ~Negative(v) <=> CPU!Signed(v) >= 0
               /\ (Negative(v) \/ v = 0) <=> CPU!Signed(v) <= 0
               /\ ~(Negative(v) \/ v = 0) <=> CPU!Signed(v) > 0
    BY <1>1 DEF Words, Negative, CPU!Signed
  <2>3. g[b.rs] \in Words
    BY <1>2
  <2> HIDE DEF b
  <2>4. Condition(b, e) <=> Holds(b.kind, g[b.rs])
    BY <1>3, <1>6, <2>1 DEF Condition, gpr_read
  <2>5. Holds(b.kind, g[b.rs]) <=> CPU!Taken(b, g)
    BY <1>6, <2>2, <2>3 DEF Holds, CPU!Taken, CPU!Jumps
  <2> QED
    BY <2>4, <2>5 DEF b
<1> QED
  BY <1>2, <1>4, <1>5, <1>6 DEF Branches, CPU!Jumps

(* compute_return_epc: the next PC is the CPU's, the registers get the link.  *)
LEMMA ReturnEpc ==
  ASSUME NEW u \in Units, NEW f \in [Regs -> Words], TypeOK,
         \A x \in Reads(u.branch) : f[x] = gpr[x]
  PROVE  compute_return_epc(EntryFrame(u, f)) =
           FrameAt(u, Relinked(u.branch, f), CPU!NextPc(u.branch, gpr))
<1> DEFINE b == u.branch
           e == EntryFrame(u, f)
           r == Relinked(b, f)
           l == EntryFrame(u, r)
<1>1. WellFormed(u)
  BY EmulationAssumption
<1>2. pc \in Words /\ gpr \in [Regs -> Words]
  BY DEF TypeOK, Words
<1>3. (pc + 8) % Word \in Words
  BY <1>2, Words4, EmulationAssumption DEF Words
<1>4. r \in [Regs -> Words]
  BY <1>3 DEF Relinked
<1>5. \A x \in Reads(b) : r[x] = gpr[x]
  BY LinkIsNotRead DEF Relinked
<1>6. e.bd = (b.kind # "none") /\ e.epc = pc /\ l.epc = pc /\ e.badinstp = b
  BY DEF EntryFrame, FrameAt
<1>7. CASE b.kind = "none"
  <2>1. r = f
    BY <1>7 DEF Relinked, Links
  <2>2. CPU!NextPc(b, gpr) = (pc + 4) % Word
    BY <1>7 DEF CPU!NextPc, CPU!Wrap
  <2>3. compute_return_epc(e) = [e EXCEPT !.epc = (pc + 4) % Word]
    BY <1>6, <1>7 DEF compute_return_epc, EntryFrame, FrameAt
  <2> QED
    BY <2>1, <2>2, <2>3 DEF EntryFrame, FrameAt
<1>8. CASE b.kind # "none"
  <2>1. compute_return_epc(e) = [l EXCEPT !.epc = Epc(b, l)]
    BY <1>2, <1>6, <1>8, LinkWrittenValues DEF compute_return_epc, compute_return_epc_for_insn
  <2>2. Epc(b, l) = CPU!NextPc(b, gpr)
    <3>1. CASE b.kind \in {"jr", "jalr"}
      <4>1. r[b.rs] = gpr[b.rs]
        BY <1>5, <3>1 DEF Reads
      <4>2. l.gpr = r
        BY DEF EntryFrame, FrameAt
      <4> QED
        BY <3>1, <4>1, <4>2 DEF Epc, gpr_read, CPU!NextPc, CPU!Taken, CPU!Jumps, CPU!Target
    <3>2. CASE b.kind \in {"j", "jal"}
      BY <1>6, <3>2 DEF Epc, CPU!NextPc, CPU!Taken, CPU!Jumps, CPU!Target, CPU!Wrap, CPU!Low
    <3>3. CASE b.kind \notin CPU!Jumps \cup {"none"}
      <4>1. Condition(b, l) <=> CPU!Taken(b, gpr)
        BY <1>2, <1>4, <1>5, <3>3, ConditionAgrees
      <4>2. Epc(b, l) = IF Condition(b, l) THEN (pc + 4 + b.offset) % Word ELSE (pc + 8) % Word
        BY <1>6, <3>3 DEF Epc, CPU!Jumps
      <4>3. CPU!NextPc(b, gpr) =
              IF CPU!Taken(b, gpr) THEN (pc + 4 + b.offset) % Word ELSE (pc + 8) % Word
        BY <3>3 DEF CPU!NextPc, CPU!Target, CPU!Wrap, CPU!Jumps
      <4> QED
        BY <4>1, <4>2, <4>3
    <3> QED
      BY <1>8, <3>1, <3>2, <3>3 DEF CPU!Jumps
  <2> QED
    BY <2>1, <2>2 DEF EntryFrame, FrameAt
<1> QED
  BY <1>7, <1>8

-----------------------------------------------------------------------------
(* Types *)

(* The address a branch computes is an address.                             *)
LEMMA EpcType ==
  ASSUME NEW u \in Units, NEW f \in [Regs -> Words], pc \in Words
  PROVE  /\ compute_return_epc(EntryFrame(u, f)).epc \in Words
         /\ compute_return_epc(EntryFrame(u, f)).gpr \in [Regs -> Words]
         /\ compute_return_epc(EntryFrame(u, f)) =
              FrameAt(u, compute_return_epc(EntryFrame(u, f)).gpr,
                         compute_return_epc(EntryFrame(u, f)).epc)
<1> DEFINE b == u.branch
           e == EntryFrame(u, f)
           r == Relinked(b, f)
           l == EntryFrame(u, r)
<1>1. WellFormed(u)
  BY EmulationAssumption
<1>2. /\ (pc + 8) % Word \in Words
      /\ (pc + 4) % Word \in Words
      /\ (pc + 4 + b.offset) % Word \in Words
  <2>1. pc + 8 \in Int /\ pc + 4 \in Int /\ pc + 4 + b.offset \in Int
    BY <1>1, EmulationAssumption DEF Words, WellFormed
  <2> QED
    BY <2>1, Words4
<1>3. r \in [Regs -> Words]
  BY <1>2 DEF Relinked
<1>4. e.bd = (b.kind # "none") /\ e.epc = pc /\ l.epc = pc /\ e.badinstp = b /\ l.gpr = r /\ e.gpr = f
  BY DEF EntryFrame, FrameAt
<1>5. CASE b.kind = "none"
  <2>1. compute_return_epc(e) = [e EXCEPT !.epc = (pc + 4) % Word]
    BY <1>4, <1>5 DEF compute_return_epc, EntryFrame, FrameAt
  <2> QED
    BY <1>2, <1>4, <2>1 DEF EntryFrame, FrameAt
<1>6. CASE b.kind # "none"
  <2>1. compute_return_epc(e) = [l EXCEPT !.epc = Epc(b, l)]
    BY <1>4, <1>6, LinkWrittenValues DEF compute_return_epc, compute_return_epc_for_insn
  <2>2. Epc(b, l) \in Words
    <3>1. CASE b.kind \in {"jr", "jalr"}
      BY <1>1, <1>3, <1>4, <3>1 DEF Epc, gpr_read, WellFormed
    <3>2. CASE b.kind \in {"j", "jal"}
      <4> DEFINE slot == (pc + 4) % Word
      <4>1. Epc(b, l) = slot - (slot % Region) + b.offset
        BY <1>4, <3>2 DEF Epc
      <4>2. b.offset \in 0 .. Region - 1
        BY <1>1, <3>2 DEF WellFormed
      <4>3. slot \in Words /\ slot % Region \in 0 .. Region - 1
        BY <1>2, Remainder, EmulationAssumption DEF Words
      <4>4. slot - (slot % Region) + Region <= Word
        BY <1>2, EmulationAssumption DEF Words
      <4>5. slot - (slot % Region) >= 0
        <5>1. \A a, n \in Nat : n > 0 => a % n <= a
          OBVIOUS
        <5> QED
          BY <4>3, <5>1, EmulationAssumption DEF Words
      <4> HIDE DEF slot
      <4> QED
        BY <4>1, <4>2, <4>3, <4>4, <4>5, EmulationAssumption DEF Words
    <3>3. CASE b.kind \notin {"jr", "jalr", "j", "jal"}
      <4>1. Epc(b, l) \in {(pc + 4 + b.offset) % Word, (pc + 8) % Word}
        BY <1>4, <3>3 DEF Epc
      <4> QED
        BY <4>1, <1>2
    <3> QED
      BY <3>1, <3>2, <3>3
  <2> QED
    BY <1>3, <1>4, <2>1, <2>2 DEF EntryFrame, FrameAt
<1> QED
  BY <1>5, <1>6

(* What a load writes is a word, and what the CPU would load.               *)
LEMMA LoadedValues ==
  ASSUME NEW u \in Units
  PROVE  /\ Loaded(u.op) \in Words
         /\ u.op.kind \in CPU!Loads => Loaded(u.op) = CPU!Loaded(u.op)
         /\ u.op.kind = "mfc0" => u.op.value = CPU!Loaded(u.op)
<1> DEFINE v == u.op.value
<1>1. v \in Words /\ u.op.rt \in Regs
  BY EmulationAssumption DEF WellFormed, Words
<1>2. v % Byte \in 0 .. Byte - 1 /\ v % Half \in 0 .. Half - 1
  BY <1>1, Remainder, EmulationAssumption DEF Words
<1>3. v % Word = v
  <2>1. \A n \in Nat : \A a \in 0 .. n - 1 : a % n = a
    OBVIOUS
  <2> QED
    BY <1>1, <2>1, EmulationAssumption DEF Words
<1>4. Loaded(u.op) \in Words
  <2>1. Loaded(u.op) \in {v, v % Byte, v % Half, (v % Byte) + Word - Byte, (v % Half) + Word - Half}
    BY DEF Loaded
  <2>2. v % Byte \in Words /\ v % Half \in Words
    BY <1>2, EmulationAssumption DEF Words
  <2>3. (v % Byte) + Word - Byte \in Words /\ (v % Half) + Word - Half \in Words
    BY <1>2, EmulationAssumption DEF Words
  <2> QED
    BY <1>1, <2>1, <2>2, <2>3
<1>5. u.op.kind = "mfc0" => u.op.value = CPU!Loaded(u.op)
  BY <1>3 DEF CPU!Loaded, CPU!Low, CPU!Size
<1>6. u.op.kind \in CPU!Loads => Loaded(u.op) = CPU!Loaded(u.op)
  <2>1. CASE u.op.kind = "lb"
    BY <2>1 DEF Loaded, CPU!Loaded, CPU!SignExtended, CPU!Low, CPU!Size
  <2>2. CASE u.op.kind = "lbu"
    BY <2>2 DEF Loaded, CPU!Loaded, CPU!SignExtended, CPU!Low, CPU!Size
  <2>3. CASE u.op.kind = "lh"
    BY <2>3 DEF Loaded, CPU!Loaded, CPU!SignExtended, CPU!Low, CPU!Size
  <2>4. CASE u.op.kind = "lhu"
    BY <2>4 DEF Loaded, CPU!Loaded, CPU!SignExtended, CPU!Low, CPU!Size
  <2>5. CASE u.op.kind = "lw"
    BY <1>3, <2>5 DEF Loaded, CPU!Loaded, CPU!SignExtended, CPU!Low, CPU!Size
  <2> QED
    BY <2>1, <2>2, <2>3, <2>4, <2>5 DEF CPU!Loads
<1> QED
  BY <1>4, <1>5, <1>6

(* Writing one register keeps the frame one.                                *)
LEMMA WriteValues ==
  ASSUME NEW u \in Units, NEW f \in [Regs -> Words], NEW x \in Regs, NEW v \in Words, NEW a
  PROVE  gpr_write(FrameAt(u, f, a), x, v) =
           FrameAt(u, [y \in Regs |-> IF y = x /\ ~(Shadow /\ y = 0) THEN v ELSE f[y]], a)
<1> DEFINE g == [y \in Regs |-> IF y = x /\ ~(Shadow /\ y = 0) THEN v ELSE f[y]]
<1>1. CASE Shadow /\ x = 0
  <2>1. g = f
    BY <1>1
  <2> QED
    BY <1>1, <2>1 DEF gpr_write
<1>2. CASE ~(Shadow /\ x = 0)
  <2>1. g = [f EXCEPT ![x] = v]
    BY <1>2
  <2>2. gpr_write(FrameAt(u, f, a), x, v) = FrameAt(u, [f EXCEPT ![x] = v], a)
    BY <1>2 DEF gpr_write, FrameAt
  <2> QED
    BY <2>1, <2>2
<1> QED
  BY <1>1, <1>2

(* A frame with words for registers returns to words.                       *)
LEMMA ReturnTypes ==
  ASSUME NEW f \in [Regs -> Words], NEW a \in Words, NEW u,
         Return(FrameAt(u, f, a))
  PROVE  /\ pc' \in Words /\ gpr' \in [Regs -> Words] /\ gpr'[0] = 0
         /\ unit' = NoUnit
<1>1. 0 \in Regs /\ 0 \in Words
  BY EmulationAssumption DEF Words
<1>2. pc' = a /\ gpr' = [f EXCEPT ![0] = 0] /\ unit' = NoUnit
  BY DEF Return, FrameAt
<1> QED
  BY <1>1, <1>2

(* What a store or a move to CP0 writes is a word, and the CPU's.            *)
LEMMA StoredValues ==
  ASSUME NEW u \in Units, NEW v \in Words
  PROVE  /\ Stored(u.op, v) \in Words
         /\ u.op.kind \in CPU!Stores => Stored(u.op, v) = CPU!Low(v, CPU!Size(u.op.kind))
<1>1. v % Byte \in Words /\ v % Half \in Words
  <2>1. v % Byte \in 0 .. Byte - 1 /\ v % Half \in 0 .. Half - 1
    BY Remainder, EmulationAssumption DEF Words
  <2> QED
    BY <2>1, EmulationAssumption DEF Words
<1>2. v % Word = v
  <2>1. \A n \in Nat : \A a \in 0 .. n - 1 : a % n = a
    OBVIOUS
  <2> QED
    BY <2>1, EmulationAssumption DEF Words
<1> QED
  BY <1>1, <1>2 DEF Stored, CPU!Low, CPU!Size, CPU!Stores

(* Every step keeps the types.                                              *)
LEMMA TypeStep ==
  ASSUME TypeOK, [Next]_vars
  PROVE  TypeOK'
<1>1. pc \in Words /\ gpr \in [Regs -> Words] /\ gpr[0] = 0 /\ unit \in Units \cup {NoUnit}
      /\ out \in Words /\ 0 \in Words /\ Word \in Nat /\ Word > 4
  BY EmulationAssumption DEF TypeOK, Words
<1>2. SUFFICES /\ pc' \in Words /\ gpr' \in [Regs -> Words] /\ gpr'[0] = 0
               /\ unit' \in Units \cup {NoUnit} /\ out' \in Words
  BY DEF TypeOK, Words
<1>3. CASE UNCHANGED vars
  BY <1>1, <1>3 DEF vars
<1>4. CASE Fetch
  BY <1>1, <1>4 DEF Fetch
<1>5. ASSUME unit # NoUnit
      PROVE  /\ unit \in Units
             /\ Frame = EntryFrame(unit, Frame.gpr)
             /\ Frame.gpr = CPU!Linked(unit.branch, gpr)
             /\ Frame.gpr \in [Regs -> Words]
             /\ Frame.gpr[0] = 0
             /\ unit.op.rt \in Regs /\ unit.op.value \in Words
  <2>1. unit \in Units
    BY <1>1, <1>5
  <2>2. Frame.gpr = CPU!Linked(unit.branch, gpr)
    BY DEF Frame
  <2>3. Frame = EntryFrame(unit, Frame.gpr)
    BY DEF Frame, EntryFrame, FrameAt
  <2>4. unit.op.rt \in Regs /\ unit.op.value \in Words
    BY <2>1, EmulationAssumption DEF WellFormed, Words
  <2> QED
    BY <2>1, <2>2, <2>3, <2>4, LinkedValues
<1> DEFINE Done(f) == compute_return_epc(EntryFrame(unit, f))
<1>6. ASSUME NEW f \in [Regs -> Words], unit # NoUnit
      PROVE  /\ Done(f) = FrameAt(unit, Done(f).gpr, Done(f).epc)
             /\ Done(f).gpr \in [Regs -> Words] /\ Done(f).epc \in Words
  BY <1>1, <1>5, <1>6, EpcType
<1> HIDE DEF Done
<1>7. ASSUME NEW f \in [Regs -> Words], unit # NoUnit, Return(Done(f))
      PROVE  /\ pc' \in Words /\ gpr' \in [Regs -> Words] /\ gpr'[0] = 0 /\ unit' = NoUnit
  <2>1. Return(FrameAt(unit, Done(f).gpr, Done(f).epc))
    BY <1>6, <1>7
  <2> QED
    BY <1>6, <1>7, <2>1, ReturnTypes
<1>8. CASE Skip
  <2>1. unit # NoUnit /\ pc' = (pc + 8) % Word /\ gpr' = Frame.gpr /\ unit' = NoUnit /\ out' = out
    BY <1>8 DEF Skip
  <2>2. (pc + 8) % Word \in Words
    BY <1>1, Words4 DEF Words
  <2> QED
    BY <1>1, <1>5, <2>1, <2>2
<1>9. CASE Load
  <2>1. unit # NoUnit /\ out' = out
    BY <1>9 DEF Load, Traps
  <2> DEFINE f == [y \in Regs |-> IF y = unit.op.rt /\ ~(Shadow /\ y = 0)
                                  THEN Loaded(unit.op) ELSE Frame.gpr[y]]
  <2>2. Loaded(unit.op) \in Words
    BY <1>5, <2>1, LoadedValues
  <2>3. f \in [Regs -> Words]
    BY <1>5, <2>1, <2>2
  <2>4. gpr_write(Frame, unit.op.rt, Loaded(unit.op)) = EntryFrame(unit, f)
    BY <1>5, <2>1, <2>2, WriteValues DEF EntryFrame
  <2>5. Return(Done(f))
    BY <1>9, <2>4 DEF Load, Done
  <2> QED
    BY <1>1, <1>7, <2>1, <2>3, <2>5
<1>10. CASE Store
  <2>1. unit # NoUnit /\ out' = Stored(unit.op, Frame.gpr[unit.op.rt])
    BY <1>10 DEF Store, Traps, gpr_read
  <2>2. Return(Done(Frame.gpr))
    BY <1>5, <1>10, <2>1 DEF Store, Done
  <2> QED
    BY <1>5, <1>7, <2>1, <2>2, StoredValues
<1>11. CASE StoreIgnored
  <2>1. unit # NoUnit /\ out' = out
    BY <1>11 DEF StoreIgnored, Traps
  <2>2. Return(Done(Frame.gpr))
    BY <1>5, <1>11, <2>1 DEF StoreIgnored, Done
  <2> QED
    BY <1>1, <1>5, <1>7, <2>1, <2>2
<1>12. CASE Gpsi
  <2>1. unit # NoUnit
    BY <1>12 DEF Gpsi, Traps
  <2>2. compute_return_epc(Frame) = Done(Frame.gpr)
    BY <1>5, <2>1 DEF Done
  <2> DEFINE e == Done(Frame.gpr)
  <2>3. e = FrameAt(unit, e.gpr, e.epc) /\ e.gpr \in [Regs -> Words] /\ e.epc \in Words
    BY <1>5, <1>6, <2>1
  <2>4. CASE Return(gpr_write(e, unit.op.rt, unit.op.value)) /\ out' = out
    <3> DEFINE f == [y \in Regs |-> IF y = unit.op.rt /\ ~(Shadow /\ y = 0)
                                    THEN unit.op.value ELSE e.gpr[y]]
    <3>1. f \in [Regs -> Words]
      BY <1>5, <2>1, <2>3
    <3> HIDE DEF e
    <3>2. gpr_write(FrameAt(unit, e.gpr, e.epc), unit.op.rt, unit.op.value) = FrameAt(unit, f, e.epc)
      BY <1>5, <2>1, <2>3, WriteValues
    <3>3. Return(FrameAt(unit, f, e.epc))
      BY <2>3, <2>4, <3>2
    <3> QED
      BY <1>1, <2>3, <2>4, <3>1, <3>3, ReturnTypes
  <2>5. CASE Return(e) /\ out' = gpr_read(e, unit.op.rt)
    BY <1>5, <1>7, <2>1, <2>3, <2>5 DEF gpr_read
  <2>6. CASE Return(e) /\ out' = out
    BY <1>1, <1>5, <1>7, <2>1, <2>6
  <2> QED
    BY <1>12, <2>2, <2>4, <2>5, <2>6 DEF Gpsi
<1>13. CASE Gsfc
  <2>1. unit # NoUnit /\ out' = Frame.gpr[unit.op.rt]
    BY <1>13 DEF Gsfc, Traps, gpr_read
  <2>2. Return(Done(Frame.gpr))
    BY <1>5, <1>13, <2>1 DEF Gsfc, Done
  <2> QED
    BY <1>5, <1>7, <2>1, <2>2
<1> QED
  BY <1>3, <1>4, <1>8, <1>9, <1>10, <1>11, <1>12, <1>13 DEF Next

(* Registers, PC and what is written are words of the machine, and $0 is 0.  *)
THEOREM TypeCorrect == Spec => []TypeOK
<1>1. Init => TypeOK
  BY EmulationAssumption DEF Init, CPU!Init, TypeOK, CPU!Values
<1> QED
  BY <1>1, TypeStep, PTL DEF Spec

-----------------------------------------------------------------------------
(* Refinement *)

(* The registers an emulated instruction works on are those of the CPU, and  *)
(* what the exit loads from a frame linked again is what the CPU linked.    *)
LEMMA FrameIsLinked ==
  ASSUME TypeOK, unit # NoUnit
  PROVE  /\ unit \in Units
         /\ Frame = EntryFrame(unit, CPU!Linked(unit.branch, gpr))
         /\ CPU!Linked(unit.branch, gpr) \in [Regs -> Words]
         /\ CPU!Linked(unit.branch, gpr)[0] = 0
         /\ \A x \in Reads(unit.branch) : CPU!Linked(unit.branch, gpr)[x] = gpr[x]
         /\ \A x \in Links(unit.branch) \cap Regs :
              x # 0 => CPU!Linked(unit.branch, gpr)[x] = (pc + 8) % Word
         /\ unit.op.rt \in Regs /\ unit.op.value \in Words
<1>1. unit \in Units
  BY DEF TypeOK
<1>2. Frame = EntryFrame(unit, CPU!Linked(unit.branch, gpr))
  BY DEF Frame, EntryFrame, FrameAt
<1>3. unit.op.rt \in Regs /\ unit.op.value \in Words
  BY <1>1, EmulationAssumption DEF WellFormed, Words
<1>4. \A x \in Reads(unit.branch) : CPU!Linked(unit.branch, gpr)[x] = gpr[x]
  BY <1>1, LinkedValues, LinkIsNotRead
<1>5. \A x \in Links(unit.branch) \cap Regs :
         x # 0 => CPU!Linked(unit.branch, gpr)[x] = (pc + 8) % Word
  BY <1>1, LinkedValues
<1> QED
  BY <1>1, <1>2, <1>3, <1>4, <1>5, LinkedValues

(* An emulation that writes no register leaves the CPU's registers and PC.   *)
LEMMA PlainReturn ==
  ASSUME TypeOK, unit # NoUnit, Return(compute_return_epc(Frame))
  PROVE  /\ pc' = CPU!NextPc(unit.branch, gpr)
         /\ gpr' = CPU!Linked(unit.branch, gpr)
         /\ unit' = NoUnit
<1> DEFINE L == CPU!Linked(unit.branch, gpr)
           r == Relinked(unit.branch, L)
<1>1. compute_return_epc(Frame) = FrameAt(unit, r, CPU!NextPc(unit.branch, gpr))
  BY FrameIsLinked, ReturnEpc
<1>2. /\ pc' = CPU!NextPc(unit.branch, gpr)
      /\ gpr' = [r EXCEPT ![0] = 0]
      /\ unit' = NoUnit
  BY <1>1 DEF Return, FrameAt
<1>3. \A y \in Regs : [r EXCEPT ![0] = 0][y] = L[y]
  BY FrameIsLinked, EmulationAssumption DEF Relinked
<1>4. [r EXCEPT ![0] = 0] = L
  BY <1>3, FrameIsLinked DEF Relinked
<1> QED
  BY <1>2, <1>4

(* What remains of CPU!Execute when the slot is executed.                   *)
LEMMA ExecuteFrom ==
  ASSUME unit # NoUnit, ~Nullified(unit.branch),
         unit' = NoUnit,
         pc' = CPU!NextPc(unit.branch, gpr),
         gpr' = CPU!Registers(unit.op, CPU!Linked(unit.branch, gpr)),
         out' = CPU!Output(unit.op, CPU!Linked(unit.branch, gpr))
  PROVE  CPU!Execute
BY DEF CPU!Execute, Nullified

(* do_TLB: a load that spares the branch's registers.                       *)
LEMMA LoadStep ==
  ASSUME TypeOK, Load, Exact(unit)
  PROVE  CPU!Execute
<1> DEFINE b == unit.branch
           x == unit.op.rt
           v == Loaded(unit.op)
           L == CPU!Linked(b, gpr)
           f == [y \in Regs |-> IF y = x /\ ~(Shadow /\ y = 0) THEN v ELSE L[y]]
           r == Relinked(b, f)
<1>1. /\ unit # NoUnit /\ ~Nullified(b) /\ unit.op.kind \in CPU!Loads /\ out' = out
      /\ Return(compute_return_epc(gpr_write(Frame, x, v)))
  BY DEF Load, Traps, CPU!Loads
<1>2. v \in Words /\ v = CPU!Loaded(unit.op)
  BY <1>1, FrameIsLinked, LoadedValues
<1>3. f \in [Regs -> Words]
  BY <1>1, <1>2, FrameIsLinked
<1>4. gpr_write(Frame, x, v) = EntryFrame(unit, f)
  BY <1>1, <1>2, FrameIsLinked, WriteValues DEF EntryFrame
<1>5. x \notin Reads(b) /\ x \notin Links(b)
  BY <1>1 DEF Exact, CPU!Loads
<1>6. \A y \in Reads(b) : f[y] = gpr[y]
  BY <1>1, <1>5, FrameIsLinked, LinkIsNotRead
<1>7. compute_return_epc(EntryFrame(unit, f)) = FrameAt(unit, r, CPU!NextPc(b, gpr))
  BY <1>1, <1>3, <1>6, FrameIsLinked, ReturnEpc
<1>8. pc' = CPU!NextPc(b, gpr) /\ gpr' = [r EXCEPT ![0] = 0] /\ unit' = NoUnit
  BY <1>1, <1>4, <1>7 DEF Return, FrameAt
<1>9. CPU!Registers(unit.op, L) = CPU!Put(L, x, v)
  BY <1>1, <1>2 DEF CPU!Registers
<1>10. \A y \in Regs : [r EXCEPT ![0] = 0][y] = CPU!Put(L, x, v)[y]
  BY <1>1, <1>5, FrameIsLinked, EmulationAssumption DEF Relinked, CPU!Put
<1>11. [r EXCEPT ![0] = 0] = CPU!Put(L, x, v)
  BY <1>1, <1>10, FrameIsLinked DEF Relinked, CPU!Put
<1>12. out' = CPU!Output(unit.op, L)
  BY <1>1 DEF CPU!Output, CPU!Loads, CPU!Stores
<1> QED
  BY <1>1, <1>8, <1>9, <1>11, <1>12, ExecuteFrom

(* do_TLB: stores, performed or ignored; do_gsfc.                           *)
LEMMA StoreStep ==
  ASSUME TypeOK, Store \/ StoreIgnored \/ Gsfc
  PROVE  CPU!Execute
<1> DEFINE L == CPU!Linked(unit.branch, gpr)
<1>1. /\ unit # NoUnit /\ ~Nullified(unit.branch)
      /\ unit.op.kind \in {"sb", "sh", "sw", "ignored", "gsfc"}
      /\ Return(compute_return_epc(Frame))
  BY DEF Store, StoreIgnored, Gsfc, Traps
<1>2. CPU!Registers(unit.op, L) = L
  BY <1>1 DEF CPU!Registers, CPU!Loads
<1>3. gpr_read(Frame, unit.op.rt) = L[unit.op.rt] /\ L[unit.op.rt] \in Words
  BY <1>1, FrameIsLinked DEF gpr_read, EntryFrame, FrameAt
<1>4. out' = CPU!Output(unit.op, L)
  <2>1. CASE Store
    BY <1>1, <1>3, <2>1, FrameIsLinked, StoredValues DEF Store, Traps, CPU!Output, CPU!Stores
  <2>2. CASE StoreIgnored
    BY <2>2 DEF StoreIgnored, Traps, CPU!Output, CPU!Stores
  <2>3. CASE Gsfc
    BY <1>3, <2>3 DEF Gsfc, Traps, CPU!Output, CPU!Stores
  <2> QED
    BY <2>1, <2>2, <2>3
<1> QED
  BY <1>1, <1>2, <1>4, PlainReturn, ExecuteFrom

(* do_gpsi: the branch is computed first.                                   *)
LEMMA GpsiStep ==
  ASSUME TypeOK, Gpsi, Exact(unit)
  PROVE  CPU!Execute
<1> DEFINE b == unit.branch
           x == unit.op.rt
           L == CPU!Linked(b, gpr)
           r == Relinked(b, L)
           e == FrameAt(unit, r, CPU!NextPc(b, gpr))
<1>1. unit # NoUnit /\ ~Nullified(b) /\ unit.op.kind \in {"mfc0", "mtc0", "wait"}
  BY DEF Gpsi, Traps
<1>2. compute_return_epc(Frame) = e
  BY <1>1, FrameIsLinked, ReturnEpc
<1>3. r \in [Regs -> Words]
  <2>1. (pc + 8) % Word \in Words
    BY Words4 DEF TypeOK
  <2> QED
    BY <1>1, <2>1, FrameIsLinked DEF Relinked
<1>4. CASE /\ unit.op.kind = "mfc0" /\ out' = out
           /\ Return(gpr_write(compute_return_epc(Frame), x, unit.op.value))
  <2> DEFINE v == unit.op.value
             f == [y \in Regs |-> IF y = x /\ ~(Shadow /\ y = 0) THEN v ELSE r[y]]
  <2>1. v = CPU!Loaded(unit.op)
    BY <1>1, <1>4, FrameIsLinked, LoadedValues
  <2>2. gpr_write(e, x, v) = FrameAt(unit, f, CPU!NextPc(b, gpr))
    <3>1. unit \in Units /\ x \in Regs /\ v \in Words
      BY <1>1, FrameIsLinked
    <3> HIDE DEF r, x, v, b
    <3> QED
      BY <1>3, <3>1, WriteValues
  <2>3. pc' = CPU!NextPc(b, gpr) /\ gpr' = [f EXCEPT ![0] = 0] /\ unit' = NoUnit
    BY <1>2, <1>4, <2>2 DEF Return, FrameAt
  <2>4. CPU!Registers(unit.op, L) = CPU!Put(L, x, v)
    BY <1>4, <2>1 DEF CPU!Registers
  <2>5. \A y \in Regs : [f EXCEPT ![0] = 0][y] = CPU!Put(L, x, v)[y]
    BY <1>1, FrameIsLinked, EmulationAssumption DEF Relinked, CPU!Put
  <2>6. [f EXCEPT ![0] = 0] = CPU!Put(L, x, v)
    BY <1>1, <2>5, FrameIsLinked DEF CPU!Put
  <2>7. out' = CPU!Output(unit.op, L)
    BY <1>4 DEF CPU!Output, CPU!Stores
  <2> QED
    BY <1>1, <2>3, <2>4, <2>6, <2>7, ExecuteFrom
<1>5. CASE /\ unit.op.kind = "mtc0" /\ out' = gpr_read(compute_return_epc(Frame), x)
           /\ Return(compute_return_epc(Frame))
  <2>1. out' = r[x]
    BY <1>2, <1>5 DEF gpr_read, FrameAt
  <2>2. r[x] = L[x]
    BY <1>1, <1>5, FrameIsLinked DEF Relinked, Exact
  <2>3. CPU!Output(unit.op, L) = L[x]
    BY <1>5 DEF CPU!Output, CPU!Stores
  <2>4. CPU!Registers(unit.op, L) = L
    BY <1>5 DEF CPU!Registers, CPU!Loads
  <2> QED
    BY <1>1, <1>5, <2>1, <2>2, <2>3, <2>4, PlainReturn, ExecuteFrom
<1>6. CASE unit.op.kind = "wait" /\ out' = out /\ Return(compute_return_epc(Frame))
  <2>1. CPU!Output(unit.op, L) = out /\ CPU!Registers(unit.op, L) = L
    BY <1>6 DEF CPU!Output, CPU!Stores, CPU!Registers, CPU!Loads
  <2> QED
    BY <1>1, <1>6, <2>1, PlainReturn, ExecuteFrom
<1> QED
  BY <1>4, <1>5, <1>6 DEF Gpsi

(* A likely branch that is not taken ends behind its slot.                  *)
LEMMA SkipStep ==
  ASSUME TypeOK, Skip
  PROVE  CPU!Execute
<1>1. unit # NoUnit /\ unit \in Units /\ unit.branch.likely /\ ~CPU!Taken(unit.branch, gpr)
  BY DEF Skip, Nullified, TypeOK
<1>2. unit.branch.kind # "none"
  BY <1>1, EmulationAssumption DEF WellFormed
<1> QED
  BY <1>1, <1>2 DEF Skip, Frame, CPU!Execute, CPU!NextPc, CPU!Wrap

(* A guest whose instruction root emulates goes on as if the CPU had executed *)
(* it (compute_return_epc, do_TLB, do_gpsi, do_gsfc), when no emulated load   *)
(* in a delay slot is into a register of its branch.                         *)
THEOREM EmulationIsExact ==
  ASSUME \A u \in Units : Exact(u)
  PROVE  Spec => AsExecuted
<1>1. Init => CPU!Init
  BY DEF Init
<1>2. ASSUME TypeOK, [Next]_vars
      PROVE  [CPU!Next]_CPU!vars
  <2>1. CASE UNCHANGED vars
    BY <2>1 DEF vars, CPU!vars
  <2>2. CASE Fetch
    BY <2>2 DEF Fetch, CPU!Fetch, CPU!Next
  <2>3. unit # NoUnit => Exact(unit)
    BY <1>2 DEF TypeOK
  <2>4. CASE Skip
    BY <1>2, <2>4, SkipStep DEF CPU!Next
  <2>5. CASE Load
    BY <1>2, <2>3, <2>5, LoadStep DEF CPU!Next, Load, Traps
  <2>6. CASE Store \/ StoreIgnored \/ Gsfc
    BY <1>2, <2>6, StoreStep DEF CPU!Next
  <2>7. CASE Gpsi
    BY <1>2, <2>3, <2>7, GpsiStep DEF CPU!Next, Gpsi, Traps
  <2> QED
    BY <1>2, <2>1, <2>2, <2>4, <2>5, <2>6, <2>7 DEF Next
<1> QED
  BY <1>1, <1>2, TypeCorrect, PTL DEF Spec, AsExecuted, CPU!Spec

=============================================================================
