----------------------------- MODULE Configurator -----------------------------
(***************************************************************************)
(* The page table part of build-scripts/vz-conf.py: from the regions of the *)
(* parsed configuration to the tables, in the order of the script's main    *)
(* program, one guest after the other.                                      *)
(***************************************************************************)
EXTENDS PageTables

CONSTANTS
  Vms,
  Devices,         \* emulators
  Configurations   \* what may be parsed: regions per VM, sorted by address

\* Access, emulation, sharing; what else may be said of a region is not modelled.
Flags == {"r", "w", "x", "e", "s"}

Regions == [addr : Nat, size : Nat, flags : SUBSET Flags, phys : Nat,
            emu : Devices \cup {None}, bm : {None}]

\* What they become (pte_with_bitmask), and the pages cut from it.
Masks == [len : Nat, bits : SUBSET Nat]
Blocks == [addr : Nat, size : Nat, flags : SUBSET Flags, phys : Nat,
           emu : Devices \cup {None}, bm : Masks \cup {None}]

ASSUME ConfiguratorAssumption ==
  /\ Configurations \subseteq [Vms -> Seq(Regions)]
  /\ None \notin Blocks

VARIABLES
  stage,     \* what is done next: "lists", "tables", "done", or "exit"
  regions,   \* the parsed configuration
  pages,     \* vm["pte"], a region list and then a page list
  entries,   \* vm["pteplaintree"]
  tree,      \* vm["ptetree"]
  todo       \* VMs whose tables are not made yet

script == <<stage, regions, pages, entries, tree, todo>>

ScriptInit ==
  /\ regions \in Configurations
  /\ stage = "lists" /\ todo = Vms
  /\ pages = [v \in Vms |-> <<>>] /\ entries = [v \in Vms |-> <<>>]
  /\ tree = [v \in Vms |-> None]

\* check_uniq_address_range, for every VM: a region may overlap another one's
\* physical addresses only where their flags are compatible.
Unique(lists) ==
  \A v \in Vms, w \in Vms : \A i \in DOMAIN lists[v], j \in DOMAIN lists[w] :
    (v # w \/ i # j) /\ Overlaps(lists[v][i], lists[w][j])
      => Compatible(lists[v][i].flags, lists[w][j].flags)

\* create_pte_lists; an error ends the script.
CreateLists ==
  /\ stage = "lists"
  /\ pages' = [v \in Vms |-> SmallBlocks(regions[v])]
  /\ stage' = IF (\E v \in Vms : pages'[v] = None) \/ ~Unique(pages') THEN "exit" ELSE "tables"
  /\ UNCHANGED <<regions, entries, tree, todo>>

\* split_ptes, join_pairs and create_pte_tree for one VM.
CreateTables(v) ==
  /\ stage = "tables" /\ v \in todo /\ \A w \in todo : v <= w
  /\ pages' = [pages EXCEPT ![v] = Split(@)]
  /\ entries' = IF pages'[v] = None THEN entries
                ELSE [entries EXCEPT ![v] = Join(pages'[v])]
  /\ IF pages'[v] # None /\ \A e \in ToSet(entries'[v]) : PhysAligned(e)
     THEN /\ tree' = [tree EXCEPT ![v] = Tree(entries'[v])]
          /\ stage' = IF todo = {v} THEN "done" ELSE "tables"
     ELSE UNCHANGED tree /\ stage' = "exit"
  /\ todo' = todo \ {v}
  /\ UNCHANGED regions

ScriptNext == CreateLists \/ \E v \in Vms : CreateTables(v)

ScriptSpec == ScriptInit /\ [][ScriptNext]_script

-----------------------------------------------------------------------------
Addresses == 0 .. Space - 1

Covers(r, a) == a >= r.addr /\ a < End(r)

\* The address the configuration gives a of region r, and how it is reached.
Reaches(o, r, a) ==
  /\ o.pa = r.phys + a - r.addr
  /\ o.kind = "direct" \/ o.emu = r.emu
  /\ o.kind = "direct" => "e" \notin r.flags /\ r.size >= Base

Made(v) == tree[v] # None

(* Every word of every region is reached at its configured physical address, *)
(* directly or through the region's emulator, by the searches of TLB_refill   *)
(* and do_TLB in the generated tables: split, pairing, grouping and           *)
(* compression of vz-conf.py lose and shift nothing.                          *)
RegionsReached ==
  \A v \in Vms : Made(v) =>
    \A r \in ToSet(regions[v]) : \A a \in r.addr .. End(r) - 1 :
      \A o \in Resolve(tree[v], a) : o.kind # "bad" /\ Reaches(o, r, a)

(* A page that the hardware may map, without tinyVP seeing the accesses, lies *)
(* in a region that needs no emulation, at its physical address: the joined   *)
(* and split pages of vz-conf.py never reach outside it.                      *)
DirectIsConfigured ==
  \A v \in Vms : Made(v) =>
    \A a \in Addresses :
      LET f == SearchTable(tree[v], a) IN
      Direct(f, a) =>
        \E r \in ToSet(regions[v]) :
          Covers(r, a) /\ "e" \notin r.flags /\ DirectAddress(f, a) = r.phys + a - r.addr

(* An address outside all regions of a VM is refused (do_TLB: bad_area).      *)
OthersRefused ==
  \A v \in Vms : Made(v) =>
    \A a \in Addresses :
      (\A r \in ToSet(regions[v]) : ~Covers(r, a)) => Resolve(tree[v], a) = {Bad}

(* Physical memory that one VM reaches directly with write permission is not  *)
(* reached directly by another VM, unless one of the two regions is shared    *)
(* (check_uniq_address_range, and all that the tables do after it).           *)
GuestsApart ==
  LET direct == [v \in Vms |->
        IF ~Made(v) THEN {}
        ELSE {LET f == SearchTable(tree[v], a)
              IN  [pa |-> DirectAddress(f, a), flags |-> HalfAt(f, a).half.flags] :
                a \in {a \in Addresses : Direct(SearchTable(tree[v], a), a)}}]
  IN  \A v, w \in Vms : v # w =>
        \A x \in direct[v], y \in direct[w] :
          x.pa = y.pa /\ "w" \in x.flags => "s" \in x.flags \cup y.flags

=============================================================================
