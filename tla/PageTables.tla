----------------------------- MODULE PageTables -----------------------------
(***************************************************************************)
(* The root page tables of a guest: how build-scripts/vz-conf.py makes them *)
(* from the memory regions of the configuration, and how TLB_refill         *)
(* (start.S) and do_TLB (tlb.c) search them.  Addresses count words, the    *)
(* unit of the access bitmasks.                                             *)
(***************************************************************************)
EXTENDS Integers, SequencesExt

CONSTANTS
  Sizes,   \* pagelistsizes, ascending, each 4 times the one before
  Base,    \* basepagesize: below it a page exists only for software emulation
  Space,   \* words of guest physical address space
  None

ASSUME PageTablesAssumption ==
  /\ Sizes \in Seq(Nat \ {0}) /\ Space \in Nat \ {0}
  /\ \A i \in 2 .. Len(Sizes) : Sizes[i] = 4 * Sizes[i - 1]
  /\ \E i \in 1 .. Len(Sizes) : Sizes[i] = Base
  /\ Space % (2 * Sizes[Len(Sizes)]) = 0

Smallest == Sizes[1]
Largest == Sizes[Len(Sizes)]
Down(a, z) == a - (a % z)
End(p) == p.addr + p.size
AtLeast(n, m) == IF n > m THEN n ELSE m

\* A region: addr, size, flags, phys, emu (its device emulator) and bm, the
\* bitmask of the words that may be accessed, when only some may.
Bitmask(n, bits) == [len |-> n, bits |-> bits]

\* p put into a list sorted by address, behind those with its address.
Sorted(list, p) ==
  InsertAt(list, CHOOSE i \in 1 .. Len(list) + 1 :
                   /\ \A j \in 1 .. i - 1 : list[j].addr <= p.addr
                   /\ i <= Len(list) => list[i].addr > p.addr, p)

-----------------------------------------------------------------------------
(* Regions smaller than a page (small_pte_blocks) *)

\* The page size a small region is extended to.
BlockSize(n) == CHOOSE z \in ToSet(Sizes) :
  z >= n /\ \A y \in ToSet(Sizes) : y >= n => y >= z

\* pte_with_bitmask: a block of its own, with the region's words allowed.
Block(r) ==
  LET z == BlockSize(r.size)  a == Down(r.addr, z) IN
  [r EXCEPT !.addr = a, !.size = z, !.phys = Down(@, z), !.flags = @ \cup {"e"},
            !.bm = Bitmask(z, {i \in 0 .. z - 1 : i + a >= r.addr /\ i + a < End(r)})]

Within(p, q) == p.addr >= q.addr /\ End(p) <= End(q)

SameBlock(p, q) == p.addr = q.addr /\ p.size = q.size /\ q.bm # None /\ p.emu = q.emu

Extended(r) == IF r.size < Base THEN Block(r) ELSE r

\* A block takes in the equal ones before it; to lie in any other page is an
\* error, for which this is None.  Regions of size zero are skipped.
SmallBlocks(list) ==
  LET real == {i \in DOMAIN list : list[i].size # 0}
      block == [i \in real |-> Extended(list[i])]
      into == [i \in real |->
                {j \in real : j < i /\ block[i].bm # None /\ Within(block[i], block[j])}]
      joined(i) ==
        IF into[i] = {} THEN block[i]
        ELSE [block[i] EXCEPT !.bm.bits = @ \cup UNION {block[j].bm.bits : j \in into[i]}]
      left == {i \in real : \A k \in real : i \notin into[k]}
      blocks[i \in 0 .. Len(list)] ==
        IF i = 0 THEN <<>>
        ELSE IF i \in left THEN Sorted(blocks[i - 1], joined(i)) ELSE blocks[i - 1]
  IN  IF \E i \in real : \E j \in into[i] : ~SameBlock(block[i], block[j]) THEN None
      ELSE blocks[Len(list)]

\* Fault: one reader is enough.
CompatibleReader(f, g) == "w" \notin f \/ "w" \notin g \/ ("s" \in f /\ "s" \in g)

\* check_range_compat and the test of check_uniq_address_range
Compatible(f, g) ==
  \/ "s" \in f /\ "s" \in g
  \/ "w" \notin f /\ ("w" \notin g \/ "s" \in g)
  \/ "w" \notin g /\ "s" \in f

Overlaps(p, q) ==
  \/ q.phys >= p.phys /\ q.phys < p.phys + p.size
  \/ q.phys + q.size > p.phys /\ q.phys + q.size < p.phys + p.size

-----------------------------------------------------------------------------
(* Pages (split_pte) *)

\* The largest page at address a of a region that ends at e; 0 if none fits.
PageSize(a, e) ==
  LET fit == {z \in ToSet(Sizes) : a % z = 0 /\ a + z <= e} IN
  IF fit = {} THEN 0 ELSE CHOOSE z \in fit : \A y \in fit : y <= z

Piece(r, a, n) == [r EXCEPT !.addr = a, !.size = n, !.phys = r.phys + a - r.addr]

NextPiece(r, s) ==
  LET z == PageSize(s.addr, End(r)) IN
  IF z = 0 THEN s ELSE [addr |-> s.addr + z, pages |-> Append(s.pages, Piece(r, s.addr, z))]

\* split_pte cuts a region into its whole pages of the largest size, and what is
\* left before and behind them likewise: at each address is the largest page
\* that fits.  None if it never ends, for what is no multiple of the smallest.
SplitRegion(r) ==
  LET cut[n \in 0 .. r.size \div Smallest] ==
        IF n = 0 THEN [addr |-> r.addr, pages |-> <<>>] ELSE NextPiece(r, cut[n - 1])
      s == cut[r.size \div Smallest]
  IN  IF s.addr = End(r) THEN s.pages ELSE None

Split(list) ==
  LET pieces == [i \in DOMAIN list |-> SplitRegion(list[i])] IN
  IF \E i \in DOMAIN list : pieces[i] = None THEN None ELSE FlattenSeq(pieces)

-----------------------------------------------------------------------------
(* Pairs of pages (join_pairs): one entry maps two pages of one size *)

Entry(a, z, lo, hi, emu, bm) ==
  [addr |-> a, size |-> 2 * z, lo |-> lo, hi |-> hi, emu |-> emu, bm |-> bm]

EmptyEntry == Entry(0, 0, None, None, None, None)

HalfOf(p) == [flags |-> p.flags, phys |-> p.phys]

\* Fault: the second page's bits are dropped.
JoinBitmaskFirst(bm1, len1, bm2, len2) ==
  IF bm1 = None THEN None ELSE Bitmask(2 * len1, bm1.bits)

\* join_bitmask: the bits of the first page, then those of the second.  With
\* no first page its length is taken from that page, and nothing is joined.
JoinBitmask(bm1, len1, bm2, len2) ==
  IF bm1 = None /\ bm2 = None THEN None
  ELSE LET n == len1
           lo == IF bm1 = None THEN {} ELSE bm1.bits
           hi == IF bm2 = None THEN {} ELSE bm2.bits
       IN  Bitmask(2 * n, (lo \cap 0 .. n - 1) \cup {n + i : i \in hi \cap 0 .. n - 1})

FirstOnly(p) == Entry(p.addr, p.size, HalfOf(p), None, p.emu, JoinBitmask(p.bm, p.size, None, 0))
SecondOnly(p) ==
  Entry(p.addr - p.size, p.size, None, HalfOf(p), p.emu, JoinBitmask(None, 0, p.bm, p.size))
Both(p, q) ==
  Entry(p.addr, q.size, HalfOf(p), HalfOf(q), q.emu, JoinBitmask(p.bm, p.size, q.bm, q.size))

\* split_page: two pairs of quarters.
Quarters(p) ==
  LET z == p.size \div 4
      half(k) == [flags |-> IF z < Base THEN p.flags \cup {"e"} ELSE p.flags,
                  phys  |-> p.phys + k * z]
      pair(k) == Entry(p.addr + k * z, z, half(k), half(k + 1), p.emu, p.bm)
  IN  <<pair(0), pair(2)>>

IsFirst(p) == p.addr % (2 * p.size) = 0

\* Fault: pages are paired whatever lies between them.
MatchesApart(q, p) == q.size = p.size /\ q.emu = p.emu

Matches(q, p) == q.size = p.size /\ q.emu = p.emu /\ q.addr + p.size = p.addr

\* One page of the list; saved is the first page of a pair not yet complete.
JoinPage(s, p) ==
  LET done(out, e) == [saved |-> None, last |-> e, out |-> s.out \o out]
      keep(out, e) == [saved |-> p, last |-> e, out |-> s.out \o out]
      q == s.saved
      beyond == q.addr + 2 * q.size
  IN
  IF q = None THEN
    CASE IsFirst(p)                                -> keep(<<>>, End(p))
      [] ~IsFirst(p) /\ s.last + p.size <= p.addr  -> done(<<SecondOnly(p)>>, End(p))
      [] OTHER                                     -> done(Quarters(p), End(p))
  ELSE IF Matches(q, p) THEN
    done(<<Both(q, p)>>, End(p))
  ELSE IF beyond <= p.addr /\ (IsFirst(p) \/ beyond <= p.addr - p.size) THEN
    IF IsFirst(p) THEN keep(<<FirstOnly(q)>>, End(q))
    ELSE done(<<FirstOnly(q), SecondOnly(p)>>, End(p))
  ELSE IF beyond <= p.addr THEN
    done(<<FirstOnly(q)>> \o Quarters(p), End(p))
  ELSE IF IsFirst(p) THEN keep(Quarters(q), End(q))
  ELSE done(Quarters(q) \o Quarters(p), End(p))

Join(pages) ==
  LET joined[i \in 0 .. Len(pages)] ==
        IF i = 0 THEN [saved |-> None, last |-> 0, out |-> <<>>]
        ELSE JoinPage(joined[i - 1], pages[i])
      s == joined[Len(pages)]
  IN  IF s.saved = None THEN s.out ELSE Append(s.out, FirstOnly(s.saved))

\* address_alignment_check
PhysAligned(e) ==
  \A h \in {e.lo, e.hi} : h # None => h.phys % (e.size \div 2) = 0

-----------------------------------------------------------------------------
(* The tree (create_pte_tree, simplify_tree) *)

IsNode(n) == "kids" \in DOMAIN n

\* simplify_tree, for a node whose descendants are simplified.
Simplify(n) ==
  LET only == n.kids[1] IN
  IF Len(n.kids) # 1 THEN n
  ELSE IF IsNode(only) THEN only
  ELSE IF n.size = n.slot /\ n.size = only.size THEN only
  ELSE [n EXCEPT !.addr = only.addr, !.size = only.size]

\* What a level is made of: addresses and size as grouped, and the entry or the
\* simplified node that stands there.
Item(n, sub) == [addr |-> n.addr, size |-> n.size, sub |-> sub]

Finished(s) == IF s.cur = None THEN s.out ELSE Append(s.out, Item(s.cur, Simplify(s.cur)))

\* One level: entries of slot words under nodes of nodesize words.  (The branch
\* that would widen a node is left out: it needs an address both below the
\* node's and at or above the end of an entry the node holds.)
GroupStep(slot, nodesize, s, e) ==
  IF s.cur # None /\ e.size = slot /\ End(s.cur) >= e.addr + slot THEN
    [s EXCEPT !.cur.kids = Append(@, e.sub)]
  ELSE IF e.size >= nodesize THEN
    [cur |-> None, out |-> Append(Finished(s), e)]
  ELSE
    [cur |-> [addr |-> Down(e.addr, nodesize), size |-> nodesize, slot |-> slot, kids |-> <<e.sub>>],
     out |-> Finished(s)]

Group(list, slot, nodesize) ==
  LET grouped[i \in 0 .. Len(list)] ==
        IF i = 0 THEN [cur |-> None, out |-> <<>>]
        ELSE GroupStep(slot, nodesize, grouped[i - 1], list[i])
  IN  Finished(grouped[Len(list)])

\* The entries under the root, one slot per pair of largest pages.
Tree(entries) ==
  LET level[k \in 0 .. Len(Sizes) - 1] ==
        IF k = 0 THEN [i \in DOMAIN entries |-> Item(entries[i], entries[i])]
        ELSE Group(level[k - 1], 2 * Sizes[k], 2 * Sizes[k + 1])
      list == level[Len(Sizes) - 1]
  IN  [addr |-> 0, size |-> Space, slot |-> 2 * Largest,
       kids |-> [i \in DOMAIN list |-> list[i].sub]]

-----------------------------------------------------------------------------
(* The search: TLB_refill, and the same loop in do_TLB *)

\* The golden address of a node matches, in the bits its table does not index.
Golden(parent, n, a) == (a % parent.slot) \div n.size = (n.addr % parent.slot) \div n.size

\* output_ptetree: each descendant in its slot of the table, or, when that is
\* written already, in the next one; the other slots are empty.
InSlot(n, x) ==
  LET used[i \in 0 .. Len(n.kids)] ==
        IF i = 0 THEN 0 ELSE AtLeast((n.kids[i].addr - n.addr) \div n.slot, used[i - 1]) + 1
      here == {i \in DOMAIN n.kids : used[i] - 1 = x}
  IN  IF here = {} THEN None ELSE n.kids[CHOOSE i \in here : TRUE]

\* What the table of n has for a.
Slot(n, a) == InSlot(n, (a % n.size) \div n.slot)

\* The software subtree, for slots smaller than a page, hangs on a transit
\* entry where the search for a TLB entry stops.
IsTransit(k) == IsNode(k) /\ k.slot < Base

NoLeaf == [found |-> "nothing"]
Leaf(entry, slot) == [found |-> "leaf", leaf |-> entry, slot |-> slot]

AtNode(n) == [found |-> "node", node |-> n]

SearchStep(s, a, software) ==
  LET n == s.node  k == Slot(n, a) IN
  IF s.found # "node" THEN s
  ELSE IF k = None THEN Leaf(EmptyEntry, n.slot)
  ELSE IF IsTransit(k) /\ ~software THEN [found |-> "transit", node |-> k, under |-> n]
  ELSE IF ~IsNode(k) THEN Leaf(k, n.slot)
  ELSE IF Golden(n, k, a) THEN AtNode(k)
  ELSE NoLeaf

\* From node n down to a leaf, or to a transit entry when that ends the search.
Search(n, a, software) ==
  LET walk[d \in 0 .. Len(Sizes)] ==
        IF d = 0 THEN AtNode(n) ELSE SearchStep(walk[d - 1], a, software)
  IN  walk[Len(Sizes)]

SearchTable(tree, a) == Search(tree, a, FALSE)

\* The second search of do_TLB, in the subtree behind a transit entry.
SearchSmall(t, a) ==
  IF Golden(t.under, t.node, a) THEN Search(t.node, a, TRUE) ELSE NoLeaf

\* get_pa_from_cpte: which half of leaf f holds a, and a's physical address.  An
\* empty half has a zero EntryLo.
HalfAt(f, a) ==
  LET offset == a % f.slot
      low == offset < f.slot \div 2
      half == IF low THEN f.leaf.lo ELSE f.leaf.hi
      within == IF low THEN offset ELSE offset - f.slot \div 2
  IN  [half |-> half, offset |-> offset, within |-> within,
       pa |-> (IF half = None THEN 0 ELSE half.phys) + within]

\* The TLB entry that TLB_refill loads has a valid page for a, and its physical
\* address: the hardware takes the frame's address in units of the page.
Direct(f, a) ==
  /\ f.found = "leaf"
  /\ HalfAt(f, a).half # None
  /\ "e" \notin HalfAt(f, a).half.flags

DirectAddress(f, a) ==
  Down(HalfAt(f, a).half.phys, f.slot \div 2) + HalfAt(f, a).within

Outcome(kind, pa, emu) == [kind |-> kind, pa |-> pa, emu |-> emu]
Bad == Outcome("bad", 0, None)

\* The end of do_TLB, for a leaf: the outcomes it may have.  A bit behind the end
\* of the bitmask is whatever the memory there holds.
Emulate(f, a) ==
  LET t == HalfAt(f, a)
      bm == f.leaf.bm
      access == Outcome("emulated", t.pa, None)
  IN  IF f.leaf.emu # None THEN {Outcome("device", t.pa, f.leaf.emu)}
      ELSE IF bm = None \/ t.offset \in bm.bits THEN {access}
      ELSE IF t.offset < bm.len THEN {Bad}
      ELSE {access, Bad}

\* do_TLB for an address whose first search ended with f, and whose second
\* search, if f is a transit entry, with g.
Handle(f, g, a) ==
  IF f.found = "nothing" \/ (f.found = "leaf" /\ f.leaf = EmptyEntry) THEN {Bad}
  ELSE IF f.found = "leaf" THEN Emulate(f, a)
  ELSE IF g.found = "nothing" THEN {Bad}
  ELSE Emulate(g, a)

\* What an access to a comes to.
Resolve(tree, a) ==
  LET f == SearchTable(tree, a) IN
  IF Direct(f, a) THEN {Outcome("direct", DirectAddress(f, a), None)}
  ELSE Handle(f, IF f.found = "transit" THEN SearchSmall(f, a) ELSE NoLeaf, a)

\* The tables of one region list, when it has no error.
Tables(regions) == Tree(Join(Split(SmallBlocks(regions))))

=============================================================================
