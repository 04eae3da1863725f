---------------------------- MODULE MCConfigurator ----------------------------
(* Instances of Configurator for TLC.                                       *)
EXTENDS Configurator

OneVm == {1}
TwoVms == {1, 2}

\* Three page sizes, the middle one the base page; two entries under the root.
ThreeSizes == <<4, 16, 64>>

Emulators == {"ic", "uart", "console"}

Region(a, n, flags, phys, emu) ==
  [addr |-> a, size |-> n, flags |-> flags, phys |-> phys, emu |-> emu, bm |-> None]

\* Disjoint lists of one or two regions of a set, by address.
Lists(set) ==
  {<<r>> : r \in set} \cup {l \in {<<r, q>> : r \in set, q \in set} : End(l[1]) <= l[2].addr}

\* Regions of whole pages, at congruent and at shifted physical addresses.
PageRegions ==
  {Region(a, n, {"w"}, a + d, None) :
     a \in {16 * i : i \in 0 .. 8}, n \in {16, 32, 64, 80, 112}, d \in {256, 272}}

PageConfigurations ==
  {[v \in OneVm |-> l] : l \in Lists({r \in PageRegions : End(r) <= Space})}

\* Register blocks of at most the smallest page, at first pages of a pair,
\* beside whole pages and emulated ones.
EvenRegions ==
  {Region(a, n, {"w"}, a + 256, None) : a \in {8 * i : i \in 0 .. 8}, n \in {2, 4}}
  \cup {Region(a, 16, {"w"}, a + 256, None) : a \in {64, 80, 96, 128}}

\* Register blocks in both pages of a pair.
BothRegions == {<<Region(8 * i, n, {"w"}, 256 + 8 * i, None),
                  Region(8 * i + 4, m, {"w"}, 260 + 8 * i, None)>> :
                i \in 0 .. 7, n \in 1 .. 4, m \in 1 .. 4}

SmallConfigurations ==
  {[v \in OneVm |-> l] : l \in Lists(EvenRegions) \cup BothRegions
     \cup {l \in {<<r, q, p>> : r \in EvenRegions, q \in EvenRegions, p \in EvenRegions} :
              End(l[1]) <= l[2].addr /\ End(l[2]) <= l[3].addr}}

\* One register block at a second page of a pair.
OddConfigurations ==
  {[v \in OneVm |-> l] : l \in Lists({Region(4 * i, 4, {"w"}, 256 + 4 * i, None) : i \in 0 .. 3})}

\* Register blocks that are not aligned to the page size they are extended to.
BlockConfigurations ==
  {[v \in OneVm |-> <<Region(a, n, {"w"}, a + 256, None)>>] : a \in {0, 4, 8, 12}, n \in {5, 8}}

\* A register block in a page next to one that a device emulates.
SplitConfigurations ==
  {[v \in OneVm |-> <<Region(a, 8, {"w"}, a + 256, None), Region(16, 16, {"e"}, 272, "ic")>>] :
     a \in {0, 8}}

\* Whole pages, some of them emulated by one of two devices.
DeviceRegions ==
  {Region(16 * i, 16, f, 256 + 16 * i, None) : i \in 0 .. 5, f \in {{"w"}, {}}}
  \cup {Region(16 * i, 16, {"e"}, 256 + 16 * i, m) : i \in 0 .. 5, m \in {"ic", "uart"}}

DeviceConfigurations ==
  {[v \in OneVm |-> l] : l \in Lists(DeviceRegions)
     \cup {l \in {<<r, q, p>> : r \in DeviceRegions, q \in DeviceRegions, p \in DeviceRegions} :
              End(l[1]) <= l[2].addr /\ End(l[2]) <= l[3].addr}}

\* Two guests that may share physical pages.
GuestRegions ==
  {Region(a, n, f, p, None) : a \in {0, 32}, n \in {16, 32},
                              f \in {{"w"}, {}, {"w", "s"}}, p \in {256, 288}}

GuestConfigurations ==
  {[v \in TwoVms |-> IF v = 1 THEN <<r>> ELSE l] : r \in GuestRegions, l \in Lists(GuestRegions)}

\* A region that is no whole number of the smallest pages: the script ends.
RaggedConfigurations == {[v \in OneVm |-> <<Region(0, n, {"w"}, 256, None)>>] : n \in {18, 71}}

\* All of these, the first guest's lists beside a guest with no regions.
AllConfigurations ==
  {[v \in TwoVms |-> IF v = 1 THEN c[1] ELSE <<>>] :
     c \in PageConfigurations \cup SmallConfigurations \cup DeviceConfigurations
            \cup RaggedConfigurations}
  \cup GuestConfigurations

=============================================================================
