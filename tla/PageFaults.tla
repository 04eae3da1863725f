----------------------------- MODULE PageFaults -----------------------------
(***************************************************************************)
(* do_TLB (tlb.c) for accesses of several guests: the search of the page    *)
(* tables that vz-conf.py made, with the two small caches in front of its   *)
(* two halves.  Guests run once the tables of all VMs are there.            *)
(***************************************************************************)
EXTENDS Configurator

CONSTANTS
  Running,     \* configurations whose guests run; the others end as tables
  Accessed,    \* words that guests touch
  Ways,        \* places of each cache
  Hash(_),     \* cpte_address_hash of the faulting address
  HashSmall(_) \* sw_cpte_address_hash

ASSUME PageFaultsAssumption ==
  /\ Running \subseteq Configurations
  /\ Accessed \subseteq 0 .. Space - 1
  /\ \A a \in Accessed : Hash(a) \in Ways /\ HashSmall(a) \in Ways

VARIABLES
  cpte_cache, sw_cpte_cache,
  last          \* history: the VM, address and outcome of the last access

caches == <<cpte_cache, sw_cpte_cache, last>>

Unused == [at |-> -1, mask |-> 1, entry |-> NoLeaf]

RunInit ==
  /\ ScriptInit
  /\ cpte_cache = [i \in Ways |-> Unused]
  /\ sw_cpte_cache = [i \in Ways |-> Unused]
  /\ last = None

\* Fault: the address is compared without the pages' mask.
HitPage(c, a) == c.at = Down(a, 2 * Base)

Hit(c, a) == c.at = Down(a, c.mask)

Cached(entry, z, a) == [at |-> Down(a, z), mask |-> z, entry |-> entry]

\* The words one entry of the first search stands for.
Span(f) == AtLeast(IF f.found = "transit" THEN f.under.slot ELSE f.slot, 2 * Base)

\* An access to a: mapped by TLB_refill, or handled by do_TLB.  A VM with no
\* region has no program that could make one.
Access(v, a) ==
  LET i == Hash(a)
      j == HashSmall(a)
      loaded == SearchTable(tree[v], a)
      hit == Hit(cpte_cache[i], a)
      f == IF hit THEN cpte_cache[i].entry ELSE loaded
      hitSmall == Hit(sw_cpte_cache[j], a)
      g == IF f.found # "transit" THEN NoLeaf
           ELSE IF hitSmall THEN sw_cpte_cache[j].entry ELSE SearchSmall(f, a)
  IN
  /\ stage = "done" /\ regions \in Running /\ regions[v] # <<>>
  /\ UNCHANGED script
  /\ IF Direct(loaded, a)
     THEN /\ last' = [vm |-> v, addr |-> a, is |-> Outcome("direct", DirectAddress(loaded, a), None)]
          /\ UNCHANGED <<cpte_cache, sw_cpte_cache>>
     ELSE /\ cpte_cache' = IF hit \/ f.found = "nothing" THEN cpte_cache
                           ELSE [cpte_cache EXCEPT ![i] = Cached(f, Span(f), a)]
          /\ sw_cpte_cache' = IF f.found # "transit" \/ hitSmall \/ g.found = "nothing"
                              THEN sw_cpte_cache
                              ELSE [sw_cpte_cache EXCEPT ![j] = Cached(g, g.slot, a)]
          /\ \E o \in Handle(f, g, a) : last' = [vm |-> v, addr |-> a, is |-> o]

RunNext ==
  \/ ScriptNext /\ UNCHANGED caches
  \/ \E v \in Vms, a \in Accessed : Access(v, a)

RunSpec == RunInit /\ [][RunNext]_<<script, caches>>

-----------------------------------------------------------------------------
(* The caches only make do_TLB faster: what an access comes to is what the    *)
(* search of the guest's own tables gives.                                    *)
CachesAreTransparent ==
  last # None => last.is \in Resolve(tree[last.vm], last.addr)

=============================================================================
