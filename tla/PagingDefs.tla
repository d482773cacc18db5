----------------------------- MODULE PagingDefs -----------------------------
(***************************************************************************)
(* The vocabulary shared by every layer of the page table: memory regions, *)
(* page table entries, and the geometry of a multi-level paging            *)
(* architecture (definitions_t.rs).                                        *)
(*                                                                         *)
(* Addresses are counted in machine words, so word_index(addr) = addr and  *)
(* aligned(addr, 8) always holds.  The x86 instance is LastLayer = 3,      *)
(* NumEntries = 512 and EntrySize = (2^36, 2^27, 2^18, 2^9) words.         *)
(***************************************************************************)
EXTENDS Naturals, Functions

CONSTANTS
  LastLayer,    \* index of the leaf layer: Arch.layers.len() - 1
  NumEntries,   \* entries of a page directory, the same at every layer
  EntrySize     \* EntrySize[l]: words mapped by one entry of layer l

Layers == 0 .. LastLayer

EntryIndices == 0 .. (NumEntries - 1)

ASSUME ArchInv ==
  /\ LastLayer \in Nat \ {0}
  /\ NumEntries \in Nat \ {0}
  /\ EntrySize \in [Layers -> Nat \ {0}]
  /\ \A l \in 0 .. (LastLayer - 1) :
       EntrySize[l] = EntrySize[l + 1] * NumEntries

(***************************************************************************)
(* Geometry of the directory tree.                                         *)
(***************************************************************************)
entry_base(layer, base, idx) == base + idx * EntrySize[layer]

next_entry_base(layer, base, idx) == base + (idx + 1) * EntrySize[layer]

\* Seeded fault: the base of the directory is forgotten.
index_for_vaddr_from_zero(layer, base, vaddr) == vaddr \div EntrySize[layer]

index_for_vaddr(layer, base, vaddr) == (vaddr - base) \div EntrySize[layer]

\* First address past the address space: upper_vaddr(0, 0) = PT_BOUND_HIGH.
UpperVaddr == entry_base(0, 0, NumEntries)

\* Sizes of the layers that may hold page mappings: every layer but the root.
PageSizes == {EntrySize[l] : l \in Layers \ {0}}

(***************************************************************************)
(* Memory regions and page table entries.                                  *)
(***************************************************************************)
aligned(addr, size) == addr % size = 0

between(x, a, b) == a <= x /\ x < b

MemRegion(b, s) == [base |-> b, size |-> s]

overlap(r1, r2) ==
  \/ r1.base <= r2.base /\ r2.base < r1.base + r1.size
  \/ r2.base < r1.base /\ r1.base < r2.base + r2.size

Flags == [is_writable : BOOLEAN, is_supervisor : BOOLEAN,
          disable_execute : BOOLEAN]

PageTableEntry == [frame : [base : Nat, size : Nat], flags : Flags]

(***************************************************************************)
(* A mapping is a function from base addresses to page table entries.      *)
(***************************************************************************)
IsMapping(m) ==
  /\ m = [b \in DOMAIN m |-> m[b]]
  /\ DOMAIN m \subseteq Nat
  /\ \A b \in DOMAIN m : m[b] \in PageTableEntry

EmptyMap == [b \in {} |-> {}]

contains_pair(m, b, pte) == b \in DOMAIN m /\ m[b] = pte

map_insert(m, b, pte) ==
  [x \in DOMAIN m \cup {b} |-> IF x = b THEN pte ELSE m[x]]

map_remove(m, b) == Restrict(m, DOMAIN m \ {b})

\* The entry at base b of m maps the address vaddr.
Covers(m, b, vaddr) == between(vaddr, b, b + m[b].frame.size)

candidate_mapping_in_bounds(base, pte) == base + pte.frame.size < UpperVaddr

candidate_mapping_overlaps_existing_vmem(m, base, pte) ==
  \E b \in DOMAIN m :
    overlap(MemRegion(base, pte.frame.size), MemRegion(b, m[b].frame.size))

\* Seeded fault: only the bases of the frames are compared.
pmem_bases_equal(m, base, pte) == \E b \in DOMAIN m : pte.frame.base = m[b].frame.base

candidate_mapping_overlaps_existing_pmem(m, base, pte) ==
  \E b \in DOMAIN m : overlap(pte.frame, m[b].frame)
=============================================================================
