---------------------------- MODULE PageTableSpec ----------------------------
(***************************************************************************)
(* What a page table promises (impl_u/spec_pt.rs, impl_u/l0.rs): a finite  *)
(* map from virtual base addresses to page table entries, changed by Map   *)
(* and Unmap and read by Resolve.  The result that labels a step of the    *)
(* source's state machine is kept in the variable obs, so that a           *)
(* refinement has to agree on results and not on the map alone.            *)
(***************************************************************************)
EXTENDS PageTableInputs

VARIABLES
  map,      \* PageTableVariables.map
  obs       \* the last operation, its arguments and its result

vars == <<map, obs>>

(***************************************************************************)
(* Results.                                                                *)
(***************************************************************************)
Ok               == [tag |-> "Ok"]
ErrOverlap       == [tag |-> "ErrOverlap"]
ErrNoSuchMapping == [tag |-> "ErrNoSuchMapping"]
ErrUnmapped      == [tag |-> "ErrUnmapped"]
Resolved(b, pte) == [tag |-> "Ok", base |-> b, pte |-> pte]

MapObs(vaddr, pte, result) ==
  [op |-> "Map", vaddr |-> vaddr, pte |-> pte, result |-> result]

UnmapObs(vaddr, result) == [op |-> "Unmap", vaddr |-> vaddr, result |-> result]

ResolveObs(vaddr, result) ==
  [op |-> "Resolve", vaddr |-> vaddr, result |-> result]

NoObs == [op |-> "Init"]

(***************************************************************************)
(* The operations.                                                         *)
(***************************************************************************)
Init ==
  /\ map = EmptyMap
  /\ obs = NoObs

\* Seeded fault: the alignment of the frame is not checked.
step_Map_enabled_unaligned(m, vaddr, pte) ==
  /\ pte.frame.size \in PageSizes
  /\ aligned(vaddr, pte.frame.size)
  /\ candidate_mapping_in_bounds(vaddr, pte)
  /\ ~candidate_mapping_overlaps_existing_pmem(m, vaddr, pte)

step_Map_enabled(m, vaddr, pte) ==
  /\ pte.frame.size \in PageSizes
  /\ aligned(vaddr, pte.frame.size)
  /\ aligned(pte.frame.base, pte.frame.size)
  /\ candidate_mapping_in_bounds(vaddr, pte)
  /\ ~candidate_mapping_overlaps_existing_pmem(m, vaddr, pte)

step_Map(vaddr, pte) ==
  /\ step_Map_enabled(map, vaddr, pte)
  /\ \/ /\ candidate_mapping_overlaps_existing_vmem(map, vaddr, pte)
        /\ obs' = MapObs(vaddr, pte, ErrOverlap)
        /\ UNCHANGED map
     \/ /\ ~candidate_mapping_overlaps_existing_vmem(map, vaddr, pte)
        /\ obs' = MapObs(vaddr, pte, Ok)
        /\ map' = map_insert(map, vaddr, pte)

step_Unmap_enabled(vaddr) ==
  /\ between(vaddr, 0, UpperVaddr)
  /\ \E size \in PageSizes : aligned(vaddr, size)

step_Unmap(vaddr) ==
  /\ step_Unmap_enabled(vaddr)
  /\ \/ /\ vaddr \in DOMAIN map
        /\ obs' = UnmapObs(vaddr, Ok)
        /\ map' = map_remove(map, vaddr)
     \/ /\ vaddr \notin DOMAIN map
        /\ obs' = UnmapObs(vaddr, ErrNoSuchMapping)
        /\ UNCHANGED map

\* The only guard of step_Resolve_enabled, aligned(vaddr, 8), holds of every
\* word address; in particular vaddr has no upper bound.
step_Resolve(vaddr) ==
  /\ \/ \E b \in DOMAIN map :
          /\ Covers(map, b, vaddr)
          /\ obs' = ResolveObs(vaddr, Resolved(b, map[b]))
     \/ /\ \A b \in DOMAIN map : ~Covers(map, b, vaddr)
        /\ obs' = ResolveObs(vaddr, ErrUnmapped)
  /\ UNCHANGED map

Next ==
  \E vaddr \in VAddrs :
    \/ \E pte \in PTEs : step_Map(vaddr, pte)
    \/ step_Unmap(vaddr)
    \/ step_Resolve(vaddr)

Spec == Init /\ [][Next]_vars

(***************************************************************************)
(* Invariants.                                                             *)
(***************************************************************************)

\* What is mapped stays well formed: no two mappings overlap, in virtual or
\* in physical memory, and each is aligned, of a page size and in bounds
\* (l0.rs:71, os.rs:57).
PageTableInv == ContentsInv(map)

\* No virtual address has two translations: what Resolve answers is a
\* function of the map although its definition chooses any covering entry.
TranslationIsUnique ==
  \A vaddr \in VAddrs :
    \A b1, b2 \in DOMAIN map :
      (Covers(map, b1, vaddr) /\ Covers(map, b2, vaddr)) => b1 = b2
=============================================================================
