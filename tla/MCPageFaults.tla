---------------------------- MODULE MCPageFaults ----------------------------
(* Instances of PageFaults for TLC.                                         *)
EXTENDS MCConfigurator, PageFaults

\* Register blocks in one page, a device behind a whole page, and a large page.
Mixed(base) ==
  <<Region(0, 4, {"w"}, base, None), Region(8, 3, {"w"}, base + 8, None),
    Region(32, 16, {"e"}, base + 32, "ic"), Region(64, 64, {"e"}, base + 64, "console"),
    Region(128, 16, {"w"}, base + 128, None)>>

MixedOnce == {[v \in TwoVms |-> IF v = 1 THEN Mixed(256) ELSE <<>>]}

\* Two guests with register blocks at one guest address and two physical ones.
MixedTwice == {[v \in TwoVms |-> Mixed(256 * v)]}

\* Every configuration becomes tables; with the mixed one a guest runs on them.
TablesAndRun == AllConfigurations \cup MixedOnce

\* Blocks of two devices in one pair of the smallest pages, before a whole page.
NeighbourDevices ==
  {[v \in TwoVms |-> IF v = 1 THEN <<Region(0, 4, {"e"}, 256, "ic"), Region(4, 4, {"e"}, 260, "uart"),
                                     Region(32, 32, {"w"}, 512, None)>> ELSE <<>>]}

\* A region of whole pages inside another one.
OverlappingRegions ==
  {[v \in TwoVms |-> IF v = 1 THEN <<Region(0, 64, {"w"}, 256, None), Region(32, 32, {"w"}, 512, None)>>
                     ELSE <<>>]}

TwoSizes == <<4, 16>>

Some == 0 .. 20 \cup {33, 40, 47, 64, 70, 95, 96, 100, 127, 130, 150, 200, 255}
Few == {0, 8, 32}

TwoWays == {0, 1}
HashBlock(a) == (a \div 32) % 2
HashBit(a) == (a \div 4) % 2

=============================================================================
