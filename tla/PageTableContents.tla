-------------------------- MODULE PageTableContents --------------------------
(***************************************************************************)
(* What must hold of the contents of a page table, whoever keeps them: the *)
(* invariants of PageTableContents (impl_u/l0.rs) with lower = 0 and       *)
(* upper = UpperVaddr, and the one of physical memory that the OS adds     *)
(* (spec_t/os.rs).  They are operators of a map, so that the page table    *)
(* specification, the OS and the implementation state them of their own    *)
(* maps.                                                                   *)
(***************************************************************************)
EXTENDS PagingDefs

\* A page has the size of a layer below the root, whose entries are
\* directories: what the OS demands (os.rs:43).  l0.rs:80 would allow the
\* root's size as well.
mappings_are_of_valid_size(m) ==
  \A b \in DOMAIN m : m[b].frame.size \in PageSizes

mappings_are_aligned(m) ==
  \A b \in DOMAIN m :
    /\ aligned(b, m[b].frame.size)
    /\ aligned(m[b].frame.base, m[b].frame.size)

\* Two mappings never claim the same virtual word, whatever page sizes they
\* have: the overlap test of step_Map compares regions of different sizes.
mappings_dont_overlap(m) ==
  \A b1, b2 \in DOMAIN m :
    b1 = b2 \/ ~overlap(MemRegion(b1, m[b1].frame.size),
                        MemRegion(b2, m[b2].frame.size))

\* Every mapping ends within the address space.
mappings_in_bounds(m) ==
  \A b \in DOMAIN m : b + m[b].frame.size <= UpperVaddr

\* Two mappings never claim the same physical word (the OS depends on it:
\* a store through one mapping must not show through another).
mappings_dont_overlap_in_pmem(m) ==
  \A b1, b2 \in DOMAIN m : b1 = b2 \/ ~overlap(m[b1].frame, m[b2].frame)

ContentsInv(m) ==
  /\ IsMapping(m)
  /\ mappings_are_of_valid_size(m)
  /\ mappings_are_aligned(m)
  /\ mappings_dont_overlap(m)
  /\ mappings_in_bounds(m)
  /\ mappings_dont_overlap_in_pmem(m)

(***************************************************************************)
(* What is asked of a mapping that is added.  Unlike the page table        *)
(* specification, l0.rs lets a mapping end at the upper bound itself, and  *)
(* have the size of an entry of the root.                                  *)
(***************************************************************************)
accepted_mapping(base, pte) ==
  /\ aligned(base, pte.frame.size)
  /\ aligned(pte.frame.base, pte.frame.size)
  /\ base + pte.frame.size <= UpperVaddr
  /\ \E l \in Layers : pte.frame.size = EntrySize[l]

valid_mapping(m, base, pte) ==
  \A b \in DOMAIN m : ~overlap(MemRegion(base, pte.frame.size),
                               MemRegion(b, m[b].frame.size))

(***************************************************************************)
(* The operations of l0.rs, on the contents m.  A failing operation        *)
(* returns the contents as they were; Err(()) of resolve is {}.            *)
(***************************************************************************)
OkMap(m)  == [tag |-> "Ok", map |-> m]
ErrMap(m) == [tag |-> "Err", map |-> m]

contents_map_frame(m, base, pte) ==
  IF valid_mapping(m, base, pte) THEN OkMap(map_insert(m, base, pte)) ELSE ErrMap(m)

contents_unmap(m, base) ==
  IF base \in DOMAIN m THEN OkMap(map_remove(m, base)) ELSE ErrMap(m)

\* Every <<base, pte>> that l0.rs may choose.
contents_resolve(m, vaddr) ==
  {<<b, m[b]>> : b \in {x \in DOMAIN m : Covers(m, x, vaddr)}}
=============================================================================
