------------------------------ MODULE OS_proofs ------------------------------
(***************************************************************************)
(* The invariants of the OS hold for every geometry, any inputs and any    *)
(* behaviour of the TLB, and it implements the user-level specification.   *)
(***************************************************************************)
EXTENDS OS, PageTableContents_proofs

(***************************************************************************)
(* The steps of the page table specification as steps of pt.               *)
(***************************************************************************)

\* A Map leaves the page table alone or adds the mapping to it, and then
\* nothing there overlaps it.
LEMMA MapStep ==
  ASSUME NEW vaddr \in VAddrs, NEW pte \in PTEs, PT!step_Map(vaddr, pte)
  PROVE  \/ UNCHANGED pt
         \/ /\ pt' = map_insert(pt, vaddr, pte)
            /\ vaddr \in Nat /\ pte \in PageTableEntry
            /\ accepted_mapping(vaddr, pte) /\ pte.frame.size \in PageSizes
            /\ valid_mapping(pt, vaddr, pte)
            /\ ~candidate_mapping_overlaps_existing_pmem(pt, vaddr, pte)
<1>1. vaddr \in Nat /\ pte \in PageTableEntry
  BY OSAssumption
<1>2. CASE UNCHANGED pt
  BY <1>2
<1>3. CASE /\ ~PT!candidate_mapping_overlaps_existing_vmem(pt, vaddr, pte)
           /\ pt' = PT!map_insert(pt, vaddr, pte)
  <2>1. pt' = map_insert(pt, vaddr, pte)
    BY <1>3 DEF PT!map_insert, map_insert
  <2>2. valid_mapping(pt, vaddr, pte)
    BY <1>3 DEF valid_mapping, PT!candidate_mapping_overlaps_existing_vmem,
                PT!overlap, overlap, PT!MemRegion, MemRegion
  <2>3. PT!step_Map_enabled(pt, vaddr, pte)
    BY DEF PT!step_Map
  <2>4. ~candidate_mapping_overlaps_existing_pmem(pt, vaddr, pte)
    BY <2>3 DEF PT!step_Map_enabled, PT!candidate_mapping_overlaps_existing_pmem,
                candidate_mapping_overlaps_existing_pmem, PT!overlap, overlap
  <2>5. /\ pte.frame.size \in PageSizes
        /\ aligned(vaddr, pte.frame.size)
        /\ aligned(pte.frame.base, pte.frame.size)
        /\ vaddr + pte.frame.size < UpperVaddr
    BY <2>3 DEF PT!step_Map_enabled, PT!candidate_mapping_in_bounds,
                PT!UpperVaddr, UpperVaddr, PT!entry_base, entry_base,
                PT!PageSizes, PageSizes, PT!Layers, Layers, PT!aligned, aligned
  <2>6. \E l \in Layers : pte.frame.size = EntrySize[l]
    BY <2>5 DEF PageSizes
  <2>7. accepted_mapping(vaddr, pte)
    BY <1>1, <2>5, <2>6, GeometryFacts, EntryFacts DEF accepted_mapping
  <2> QED BY <1>1, <2>1, <2>2, <2>4, <2>5, <2>7
<1> QED BY <1>2, <1>3 DEF PT!step_Map

\* An Unmap takes the mapping at vaddr out of the page table, if there is one.
LEMMA UnmapStep ==
  ASSUME NEW vaddr, PT!step_Unmap(vaddr)
  PROVE  \/ UNCHANGED pt /\ vaddr \notin DOMAIN pt
         \/ pt' = map_remove(pt, vaddr) /\ vaddr \in DOMAIN pt
BY DEF PT!step_Unmap, PT!map_remove, map_remove, PT!Restrict, Restrict

(***************************************************************************)
(* The TLB.                                                                *)
(***************************************************************************)

\* Whatever a page table operation evicts, what stays is what was there.
LEMMA TLBShrinks ==
  ASSUME PTMemOp
  PROVE  /\ tlb' = [b \in DOMAIN tlb' |-> tlb'[b]]
         /\ DOMAIN tlb' \subseteq DOMAIN tlb
         /\ \A b \in DOMAIN tlb' : tlb'[b] = tlb[b]
         /\ UNCHANGED mem
<1> PICK kept \in SUBSET DOMAIN tlb : tlb' = Restrict(tlb, kept)
  BY DEF PTMemOp
<1>1. /\ DOMAIN tlb' \subseteq DOMAIN tlb
      /\ \A b \in DOMAIN tlb' : tlb'[b] = tlb[b]
  BY DEF Restrict
<1>2. tlb' = [b \in DOMAIN tlb' |-> tlb'[b]]
  BY DEF Restrict
<1> QED BY <1>1, <1>2 DEF PTMemOp

\* A TLB whose entries are mappings of a well-formed page table is a mapping.
LEMMA SubmapIsMapping ==
  ASSUME NEW m, NEW t, IsMapping(m), t = [b \in DOMAIN t |-> t[b]],
         \A b \in DOMAIN t : contains_pair(m, b, t[b])
  PROVE  IsMapping(t)
BY DEF IsMapping, contains_pair

(***************************************************************************)
(* The inductive invariant.  OSInv is inductive as it stands.              *)
(***************************************************************************)

\* An empty page table is well formed and an empty TLB agrees with it.
LEMMA InitEstablishesOSInv == Init => OSInv
<1> SUFFICES ASSUME Init PROVE OSInv
  OBVIOUS
<1>1. IsMapping(EmptyMap)
  BY DEF IsMapping, EmptyMap
<1>2. TypeOK
  BY <1>1 DEF Init, TypeOK, PT!EmptyMap, EmptyMap
<1>3. ContentsInv(pt)
  BY EmptyContents DEF Init
<1>4. tlb_is_submap_of_pt
  BY DEF Init, tlb_is_submap_of_pt, EmptyMap
<1> QED BY <1>2, <1>3, <1>4 DEF OSInv

\* The steps of the hardware touch the memory or the TLB, one at a time.
LEMMA HWPreservesOSInv ==
  ASSUME OSInv, step_HW
  PROVE  OSInv'
<1> USE DEF OSInv
<1>1. CASE \E vaddr \in VAddrs, v \in Values : HWStore(vaddr, v)
  <2> PICK vaddr \in VAddrs, v \in Values : HWStore(vaddr, v)
    BY <1>1
  <2>1. UNCHANGED <<pt, tlb>>
    BY DEF HWStore
  <2>2. \/ UNCHANGED mem
        \/ \E paddr : mem' = [mem EXCEPT ![paddr] = v]
    BY DEF HWStore
  <2>3. mem' \in [0 .. (PhysMemSize - 1) -> Values]
    BY <2>2 DEF TypeOK
  <2> QED BY <2>1, <2>3 DEF TypeOK, tlb_is_submap_of_pt
<1>2. CASE \/ \E vaddr \in VAddrs, is_exec \in BOOLEAN : HWLoad(vaddr, is_exec)
           \/ \E vaddr \in VAddrs : HWFault(vaddr)
  <2>1. UNCHANGED <<mem, pt, tlb>>
    BY <1>2 DEF HWLoad, HWFault
  <2> QED BY <2>1 DEF TypeOK, tlb_is_submap_of_pt
<1>3. CASE \E b \in DOMAIN pt : TLBFill(b)
  <2> PICK b \in DOMAIN pt : TLBFill(b)
    BY <1>3
  <2>1. /\ UNCHANGED <<mem, pt>>
        /\ tlb' = map_insert(tlb, b, pt[b])
    BY DEF TLBFill
  <2>2. \A x \in DOMAIN tlb' : contains_pair(pt, x, tlb'[x])
    BY <2>1 DEF map_insert, tlb_is_submap_of_pt, contains_pair
  <2>3. tlb' = [x \in DOMAIN tlb' |-> tlb'[x]]
    BY <2>1 DEF map_insert
  <2>4. IsMapping(tlb')
    BY <2>2, <2>3, SubmapIsMapping DEF TypeOK
  <2> QED BY <2>1, <2>2, <2>4 DEF TypeOK, tlb_is_submap_of_pt
<1>4. CASE \E b \in DOMAIN tlb : TLBEvict(b)
  <2> PICK b \in DOMAIN tlb : TLBEvict(b)
    BY <1>4
  <2>1. /\ UNCHANGED <<mem, pt>>
        /\ tlb' = map_remove(tlb, b)
    BY DEF TLBEvict
  <2>2. \A x \in DOMAIN tlb' : contains_pair(pt, x, tlb'[x])
    BY <2>1 DEF map_remove, Restrict, tlb_is_submap_of_pt, contains_pair
  <2>3. IsMapping(tlb')
    BY <2>1, RemoveIsMapping DEF TypeOK
  <2> QED BY <2>1, <2>2, <2>3 DEF TypeOK, tlb_is_submap_of_pt
<1> QED BY <1>1, <1>2, <1>3, <1>4 DEF step_HW

\* An insertion changes no mapping that is there, because it overlaps none.
LEMMA MapKeepsOthers ==
  ASSUME ContentsInv(pt), NEW vaddr \in VAddrs, NEW pte \in PTEs,
         PT!step_Map(vaddr, pte)
  PROVE  ContentsInv(pt') /\ \A b \in DOMAIN pt : contains_pair(pt', b, pt[b])
<1>1. CASE UNCHANGED pt
  BY <1>1 DEF contains_pair
<1>2. CASE /\ pt' = map_insert(pt, vaddr, pte)
           /\ vaddr \in Nat /\ pte \in PageTableEntry
           /\ accepted_mapping(vaddr, pte) /\ pte.frame.size \in PageSizes
           /\ valid_mapping(pt, vaddr, pte)
           /\ ~candidate_mapping_overlaps_existing_pmem(pt, vaddr, pte)
  <2>1. ContentsInv(map_insert(pt, vaddr, pte))
    BY <1>2, MapFramePreservesContents
  <2>2. vaddr \notin DOMAIN pt
    <3> SUFFICES ASSUME vaddr \in DOMAIN pt PROVE FALSE
      OBVIOUS
    <3>1. ~overlap(MemRegion(vaddr, pte.frame.size), MemRegion(vaddr, pt[vaddr].frame.size))
      BY <1>2 DEF valid_mapping
    <3>2. pt[vaddr].frame.size \in Nat \ {0}
      BY GeometryFacts DEF ContentsInv, mappings_are_of_valid_size
    <3>3. pte.frame.size \in Nat \ {0}
      BY <1>2, GeometryFacts
    <3> QED BY <1>2, <3>1, <3>2, <3>3 DEF overlap, MemRegion
  <2>3. \A b \in DOMAIN pt : contains_pair(pt', b, pt[b])
    BY <1>2, <2>2 DEF map_insert, contains_pair
  <2> QED BY <1>2, <2>1, <2>3
<1> QED BY <1>1, <1>2, MapStep

\* A mapping that stays in the TLB stays in the page table.
LEMMA MapPreservesOSInv ==
  ASSUME OSInv, NEW vaddr \in VAddrs, NEW pte \in PTEs, step_Map(vaddr, pte)
  PROVE  OSInv'
<1> USE DEF OSInv
<1>1. PTMemOp /\ PT!step_Map(vaddr, pte)
  BY DEF step_Map
<1>2. /\ tlb' = [b \in DOMAIN tlb' |-> tlb'[b]]
      /\ DOMAIN tlb' \subseteq DOMAIN tlb
      /\ \A b \in DOMAIN tlb' : tlb'[b] = tlb[b]
      /\ UNCHANGED mem
  BY <1>1, TLBShrinks
<1>3. \A b \in DOMAIN tlb' : contains_pair(pt, b, tlb'[b])
  BY <1>2 DEF tlb_is_submap_of_pt
<1>4. ContentsInv(pt') /\ \A b \in DOMAIN pt : contains_pair(pt', b, pt[b])
  BY <1>1, MapKeepsOthers
<1>5. \A b \in DOMAIN tlb' : contains_pair(pt', b, tlb'[b])
  BY <1>3, <1>4 DEF contains_pair
<1>6. IsMapping(pt') /\ IsMapping(tlb')
  BY <1>2, <1>4, <1>5, SubmapIsMapping DEF ContentsInv
<1> QED BY <1>2, <1>4, <1>5, <1>6 DEF TypeOK, tlb_is_submap_of_pt

\* The entry removed from the page table is the one that leaves the TLB.
LEMMA UnmapPreservesOSInv ==
  ASSUME OSInv, NEW vaddr \in VAddrs, step_Unmap(vaddr)
  PROVE  OSInv'
<1> USE DEF OSInv
<1>1. PTMemOp /\ PT!step_Unmap(vaddr) /\ vaddr \notin DOMAIN tlb'
  BY DEF step_Unmap
<1>2. /\ tlb' = [b \in DOMAIN tlb' |-> tlb'[b]]
      /\ DOMAIN tlb' \subseteq DOMAIN tlb
      /\ \A b \in DOMAIN tlb' : tlb'[b] = tlb[b]
      /\ UNCHANGED mem
  BY <1>1, TLBShrinks
<1>3. \A b \in DOMAIN tlb' : b # vaddr /\ contains_pair(pt, b, tlb'[b])
  BY <1>1, <1>2 DEF tlb_is_submap_of_pt
<1>4. ContentsInv(pt')
      /\ \A b \in DOMAIN pt : b # vaddr => contains_pair(pt', b, pt[b])
  <2>1. CASE UNCHANGED pt
    BY <2>1 DEF contains_pair
  <2>2. CASE pt' = map_remove(pt, vaddr)
    BY <2>2, UnmapPreservesContents, RemoveFacts DEF contains_pair
  <2> QED BY <1>1, <2>1, <2>2, UnmapStep
<1>5. \A b \in DOMAIN tlb' : contains_pair(pt', b, tlb'[b])
  BY <1>3, <1>4 DEF contains_pair
<1>6. IsMapping(pt') /\ IsMapping(tlb')
  BY <1>2, <1>4, <1>5, SubmapIsMapping DEF ContentsInv
<1> QED BY <1>2, <1>4, <1>5, <1>6 DEF TypeOK, tlb_is_submap_of_pt

\* A Resolve changes nothing but the TLB.
LEMMA ResolvePreservesOSInv ==
  ASSUME OSInv, NEW vaddr \in VAddrs, step_Resolve(vaddr)
  PROVE  OSInv'
<1> USE DEF OSInv
<1>1. PTMemOp /\ UNCHANGED pt
  BY DEF step_Resolve, PT!step_Resolve
<1>2. /\ tlb' = [b \in DOMAIN tlb' |-> tlb'[b]]
      /\ DOMAIN tlb' \subseteq DOMAIN tlb
      /\ \A b \in DOMAIN tlb' : tlb'[b] = tlb[b]
      /\ UNCHANGED mem
  BY <1>1, TLBShrinks
<1>3. \A b \in DOMAIN tlb' : contains_pair(pt, b, tlb'[b])
  BY <1>2 DEF tlb_is_submap_of_pt
<1>4. IsMapping(tlb')
  BY <1>2, <1>3, SubmapIsMapping DEF TypeOK
<1> QED BY <1>1, <1>2, <1>3, <1>4 DEF TypeOK, tlb_is_submap_of_pt

\* Every step of the OS and its hardware keeps the invariant.
LEMMA NextPreservesOSInv == OSInv /\ [Next]_vars => OSInv'
<1> SUFFICES ASSUME OSInv, [Next]_vars PROVE OSInv'
  OBVIOUS
<1>1. CASE UNCHANGED vars
  BY <1>1 DEF vars, OSInv, TypeOK, tlb_is_submap_of_pt
<1>2. CASE step_HW
  BY <1>2, HWPreservesOSInv
<1>3. CASE \E vaddr \in VAddrs, pte \in PTEs : step_Map(vaddr, pte)
  BY <1>3, MapPreservesOSInv
<1>4. CASE \E vaddr \in VAddrs : step_Unmap(vaddr)
  BY <1>4, UnmapPreservesOSInv
<1>5. CASE \E vaddr \in VAddrs : step_Resolve(vaddr)
  BY <1>5, ResolvePreservesOSInv
<1> QED BY <1>1, <1>2, <1>3, <1>4, <1>5 DEF Next

(***************************************************************************)
(* Physical memory.                                                        *)
(***************************************************************************)

\* In well-formed contents a physical word stands behind one virtual word.
LEMMA OneVirtualWord ==
  ASSUME NEW m, ContentsInv(m), NEW v1 \in Nat, NEW v2 \in Nat,
         NEW b1 \in DOMAIN m, NEW b2 \in DOMAIN m,
         Covers(m, b1, v1), Covers(m, b2, v2),
         pmem_idx(b1, m[b1], v1) = pmem_idx(b2, m[b2], v2)
  PROVE  v1 = v2
<1>1. /\ b1 \in Nat /\ m[b1].frame.base \in Nat /\ m[b1].frame.size \in Nat
      /\ b2 \in Nat /\ m[b2].frame.base \in Nat /\ m[b2].frame.size \in Nat
      /\ m[b1].frame = MemRegion(m[b1].frame.base, m[b1].frame.size)
      /\ m[b2].frame = MemRegion(m[b2].frame.base, m[b2].frame.size)
  BY EntryFacts DEF ContentsInv, IsMapping
<1>2. LET p == pmem_idx(b1, m[b1], v1)
      IN /\ p \in Nat
         /\ between(p, m[b1].frame.base, m[b1].frame.base + m[b1].frame.size)
         /\ between(p, m[b2].frame.base, m[b2].frame.base + m[b2].frame.size)
  BY <1>1 DEF pmem_idx, Covers, between
<1>3. overlap(m[b1].frame, m[b2].frame)
  BY <1>1, <1>2, SharedWordOverlaps
<1>4. b1 = b2
  BY <1>3 DEF ContentsInv, mappings_dont_overlap_in_pmem
<1> QED BY <1>1, <1>4 DEF pmem_idx, Covers, between

(***************************************************************************)
(* Theorems.                                                               *)
(***************************************************************************)

\* The page table stays well formed, and no cached translation outlives or
\* contradicts the mapping it was filled from.
THEOREM OSInvariant == Spec => []OSInv
BY InitEstablishesOSInv, NextPreservesOSInv, PTL DEF Spec

\* With a TLB that agrees with the page table, the user's mappings are the
\* page table's.
LEMMA EffectiveMappingsArePt ==
  ASSUME OSInv
  PROVE  effective_mappings = pt
<1>1. \A b \in DOMAIN tlb : b \in DOMAIN pt /\ tlb[b] = pt[b]
  BY DEF OSInv, tlb_is_submap_of_pt, contains_pair
<1>2. pt = [b \in DOMAIN pt |-> pt[b]]
  BY DEF OSInv, TypeOK, IsMapping
<1> QED BY <1>1, <1>2 DEF effective_mappings

\* No physical word is reachable under two virtual addresses.
THEOREM NoAliasing == Spec => []NoPhysicalAliasing
<1>1. OSInv => NoPhysicalAliasing
  <2> SUFFICES ASSUME OSInv,
                      NEW v1 \in VAddrs, NEW v2 \in VAddrs,
                      NEW b1 \in DOMAIN pt, NEW b2 \in DOMAIN pt,
                      Covers(pt, b1, v1), Covers(pt, b2, v2),
                      pmem_idx(b1, pt[b1], v1) = pmem_idx(b2, pt[b2], v2)
               PROVE  v1 = v2
    BY EffectiveMappingsArePt DEF NoPhysicalAliasing
  <2>1. v1 \in Nat /\ v2 \in Nat
    BY OSAssumption
  <2> QED BY <2>1, OneVirtualWord DEF OSInv
<1> QED BY <1>1, OSInvariant, PTL

(***************************************************************************)
(* The OS implements the user's specification: the counterpart of          *)
(* os_refines_hl (impl_u/os_refinement.rs), for every geometry.            *)
(***************************************************************************)

(***************************************************************************)
(* The instances of HighSpec speak of the same operators.                  *)
(***************************************************************************)

\* The words of memory the user can reach.
Reachable(m) ==
  {vaddr \in 0 .. (UpperVaddr - 1) :
     \E b \in DOMAIN m : Covers(m, b, vaddr) /\ pmem_idx(b, m[b], vaddr) < PhysMemSize}

\* Reachable is the domain of the user's memory in hlspec.rs.
LEMMA ReachableIsDomain ==
  ASSUME NEW m
  PROVE  /\ H!mem_domain_from_mappings(m) = Reachable(m)
         /\ High!mem_domain_from_mappings(m) = Reachable(m)
<1>1. H!UpperVaddr = UpperVaddr /\ High!UpperVaddr = UpperVaddr
  BY DEF H!UpperVaddr, High!UpperVaddr, UpperVaddr, H!entry_base, High!entry_base,
         entry_base
<1>2. H!mem_domain_from_mappings(m) = Reachable(m)
  BY <1>1 DEF Reachable, H!mem_domain_from_mappings,
              H!mem_domain_from_mappings_contains, H!Covers, Covers,
              H!between, between, H!pmem_idx, pmem_idx
<1>3. High!mem_domain_from_mappings(m) = Reachable(m)
  BY <1>1 DEF Reachable, High!mem_domain_from_mappings,
              High!mem_domain_from_mappings_contains, High!Covers, Covers,
              High!between, between, High!pmem_idx, pmem_idx
<1> QED BY <1>2, <1>3

\* The machine comes up as the user's empty memory.
LEMMA InitRefinesHigh == Init => High!Init
<1> SUFFICES ASSUME Init PROVE High!Init
  OBVIOUS
<1>1. effective_mappings = EmptyMap
  BY DEF Init, effective_mappings, EmptyMap, PT!EmptyMap
<1>2. interp_vmem = EmptyMap
  <2>1. Reachable(EmptyMap) = {}
    BY DEF Reachable, EmptyMap
  <2> QED BY <1>1, <2>1, ReachableIsDomain DEF interp_vmem, EmptyMap
<1>3. obs = High!PT!NoObs
  BY DEF Init, PT!NoObs, High!PT!NoObs
<1> QED BY <1>1, <1>2, <1>3 DEF High!Init, High!EmptyMap, EmptyMap

(***************************************************************************)
(* The virtual memory a user sees, as an operator of the contents m of the *)
(* page table and of the physical memory phys.                             *)
(***************************************************************************)
Vmem(m, phys) ==
  LET base(vaddr) == CHOOSE b \in DOMAIN m : Covers(m, b, vaddr)
  IN [vaddr \in Reachable(m) |->
        phys[pmem_idx(base(vaddr), m[base(vaddr)], vaddr)]]

\* The word at vaddr is found through whichever mapping covers vaddr.
LEMMA VmemValue ==
  ASSUME NEW m, NEW phys, ContentsInv(m), NEW vaddr \in Reachable(m),
         NEW b \in DOMAIN m, Covers(m, b, vaddr)
  PROVE  Vmem(m, phys)[vaddr] = phys[pmem_idx(b, m[b], vaddr)]
<1> DEFINE c == CHOOSE x \in DOMAIN m : Covers(m, x, vaddr)
<1>1. c \in DOMAIN m /\ Covers(m, c, vaddr)
  OBVIOUS
<1>2. vaddr \in Nat
  BY GeometryFacts DEF Reachable
<1>3. c = b
  <2> HIDE DEF c
  <2> QED BY <1>1, <1>2, ContentsTranslateOnce
<1> QED BY <1>3 DEF Vmem

\* What makes a word reachable.
LEMMA ReachableFacts ==
  ASSUME NEW m, ContentsInv(m), NEW vaddr \in Reachable(m)
  PROVE  /\ vaddr \in Nat
         /\ \E b \in DOMAIN m :
              /\ Covers(m, b, vaddr)
              /\ pmem_idx(b, m[b], vaddr) \in 0 .. (PhysMemSize - 1)
<1>1. vaddr \in Nat
  BY GeometryFacts DEF Reachable
<1> PICK b \in DOMAIN m :
      Covers(m, b, vaddr) /\ pmem_idx(b, m[b], vaddr) < PhysMemSize
  BY DEF Reachable
<1>2. b \in Nat /\ m[b].frame.base \in Nat /\ m[b].frame.size \in Nat
  BY EntryFacts DEF ContentsInv, IsMapping
<1>3. pmem_idx(b, m[b], vaddr) \in 0 .. (PhysMemSize - 1)
  BY <1>1, <1>2, OSAssumption DEF pmem_idx, Covers, between
<1> QED BY <1>1, <1>3

\* Contents that share a mapping show the same word behind it.
LEMMA SameMappingSameWord ==
  ASSUME NEW m, NEW n, NEW phys, ContentsInv(m), ContentsInv(n),
         NEW vaddr, NEW b \in DOMAIN m, Covers(m, b, vaddr),
         pmem_idx(b, m[b], vaddr) < PhysMemSize,
         contains_pair(n, b, m[b]), vaddr \in 0 .. (UpperVaddr - 1)
  PROVE  vaddr \in Reachable(n) /\ Vmem(n, phys)[vaddr] = Vmem(m, phys)[vaddr]
<1>1. b \in DOMAIN n /\ n[b] = m[b] /\ Covers(n, b, vaddr)
  BY DEF contains_pair, Covers
<1>2. vaddr \in Reachable(m) /\ vaddr \in Reachable(n)
  BY <1>1 DEF Reachable
<1>3. Vmem(m, phys)[vaddr] = phys[pmem_idx(b, m[b], vaddr)]
  BY <1>2, VmemValue
<1>4. Vmem(n, phys)[vaddr] = phys[pmem_idx(b, n[b], vaddr)]
  BY <1>1, <1>2, VmemValue
<1> QED BY <1>1, <1>2, <1>3, <1>4

\* A mapped word backed by physical memory is reachable.
LEMMA BackedIsReachable ==
  ASSUME NEW m, ContentsInv(m), NEW vaddr \in Nat, NEW b \in DOMAIN m,
         Covers(m, b, vaddr), pmem_idx(b, m[b], vaddr) < PhysMemSize
  PROVE  vaddr \in Reachable(m)
<1>1. b \in Nat /\ m[b].frame.size \in Nat /\ b + m[b].frame.size <= UpperVaddr
  BY EntryFacts DEF ContentsInv, IsMapping, mappings_in_bounds
<1>2. vaddr \in 0 .. (UpperVaddr - 1)
  BY <1>1, GeometryFacts DEF Covers, between
<1> QED BY <1>2 DEF Reachable

\* A store to physical memory through a mapping shows at one virtual word.
LEMMA StoreShowsOnce ==
  ASSUME NEW m, NEW phys, NEW after, ContentsInv(m),
         NEW vaddr \in Nat, NEW b \in DOMAIN m, Covers(m, b, vaddr),
         pmem_idx(b, m[b], vaddr) < PhysMemSize,
         \A p \in 0 .. (PhysMemSize - 1) :
           p # pmem_idx(b, m[b], vaddr) => after[p] = phys[p]
  PROVE  Vmem(m, after) =
           map_insert(Vmem(m, phys), vaddr, after[pmem_idx(b, m[b], vaddr)])
<1> DEFINE paddr == pmem_idx(b, m[b], vaddr)
           old == Vmem(m, phys)
           new == Vmem(m, after)
<1>1. vaddr \in Reachable(m)
  BY BackedIsReachable
<1>2. DOMAIN old = Reachable(m) /\ DOMAIN new = Reachable(m)
  BY DEF Vmem
<1>3. ASSUME NEW x \in Reachable(m)
      PROVE  new[x] = IF x = vaddr THEN after[paddr] ELSE old[x]
  <2> PICK c \in DOMAIN m :
        Covers(m, c, x) /\ pmem_idx(c, m[c], x) \in 0 .. (PhysMemSize - 1)
    BY <1>3, ReachableFacts
  <2>1. x \in Nat
    BY <1>3, ReachableFacts
  <2>2. old[x] = phys[pmem_idx(c, m[c], x)] /\ new[x] = after[pmem_idx(c, m[c], x)]
    <3>1. \A f : Vmem(m, f)[x] = f[pmem_idx(c, m[c], x)]
      BY VmemValue
    <3> QED BY <3>1
  <2>3. CASE x = vaddr
    <3>1. c = b
      BY <2>1, <2>3, ContentsTranslateOnce
    <3> QED BY <2>2, <2>3, <3>1
  <2>4. CASE x # vaddr
    <3>1. pmem_idx(c, m[c], x) # paddr
      BY <2>1, <2>4, OneVirtualWord
    <3> QED BY <2>2, <2>4, <3>1
  <2> QED BY <2>3, <2>4
<1>4. new = [x \in Reachable(m) |-> new[x]]
  BY DEF Vmem
<1> HIDE DEF old, new
<1>5. new = map_insert(old, vaddr, after[paddr])
  BY <1>1, <1>2, <1>3, <1>4 DEF map_insert
<1> QED BY <1>5 DEF old, new

\* The user's state in terms of page table and memory, before and after.
LEMMA UserState ==
  ASSUME OSInv, OSInv'
  PROVE  /\ effective_mappings = pt /\ effective_mappings' = pt'
         /\ interp_vmem = Vmem(pt, mem) /\ interp_vmem' = Vmem(pt', mem')
<1>1. effective_mappings = pt
  BY EffectiveMappingsArePt
<1>2. effective_mappings' = pt'
  <2>1. \A b \in DOMAIN tlb' : b \in DOMAIN pt' /\ tlb'[b] = pt'[b]
    BY DEF OSInv, tlb_is_submap_of_pt, contains_pair
  <2>2. pt' = [b \in DOMAIN pt' |-> pt'[b]]
    BY DEF OSInv, TypeOK, IsMapping
  <2> QED BY <2>1, <2>2 DEF effective_mappings
<1>3. interp_vmem = Vmem(pt, mem)
  BY <1>1, ReachableIsDomain DEF interp_vmem, Vmem
<1>4. interp_vmem' = Vmem(pt', mem')
  BY <1>2, ReachableIsDomain DEF interp_vmem, Vmem
<1> QED BY <1>1, <1>2, <1>3, <1>4

(***************************************************************************)
(* Loads, stores and faults.                                               *)
(***************************************************************************)

\* A cached translation is the one the page table has.
LEMMA CachedIsMapped ==
  ASSUME OSInv, NEW vaddr, NEW b \in DOMAIN tlb, Covers(tlb, b, vaddr)
  PROVE  b \in DOMAIN pt /\ pt[b] = tlb[b] /\ Covers(pt, b, vaddr)
BY DEF OSInv, tlb_is_submap_of_pt, contains_pair, Covers

\* A store through a TLB entry is a store of the user at the same address:
\* the written word shows there and at no other address.
LEMMA StoreRefinesHigh ==
  ASSUME OSInv, OSInv', NEW vaddr \in VAddrs, NEW v \in Values, HWStore(vaddr, v)
  PROVE  High!Store(vaddr, v)
<1>0. PICK b \in DOMAIN tlb :
      /\ Covers(tlb, b, vaddr)
      /\ LET allowed == /\ pmem_idx(b, tlb[b], vaddr) < PhysMemSize
                        /\ ~tlb[b].flags.is_supervisor
                        /\ tlb[b].flags.is_writable
         IN \/ /\ allowed
               /\ obs' = H!StoreObs(vaddr, v, H!Stored)
               /\ mem' = [mem EXCEPT ![pmem_idx(b, tlb[b], vaddr)] = v]
            \/ /\ ~allowed
               /\ obs' = H!StoreObs(vaddr, v, H!Pagefault)
               /\ UNCHANGED mem
  BY DEF HWStore
<1>1. b \in DOMAIN pt /\ pt[b] = tlb[b] /\ Covers(pt, b, vaddr)
  BY <1>0, CachedIsMapped
<1>2. UNCHANGED <<pt, tlb>> /\ vaddr \in Nat
  BY OSAssumption DEF HWStore
<1>3. /\ effective_mappings = pt /\ effective_mappings' = pt
      /\ interp_vmem = Vmem(pt, mem) /\ interp_vmem' = Vmem(pt, mem')
  BY <1>2, UserState
<1>4. High!Covers(pt, b, vaddr)
  BY <1>1 DEF High!Covers, Covers, High!between, between
<1>5. High!pmem_idx(b, pt[b], vaddr) = pmem_idx(b, tlb[b], vaddr)
  BY <1>1 DEF High!pmem_idx, pmem_idx
<1>6. /\ High!StoreObs(vaddr, v, High!Stored) = H!StoreObs(vaddr, v, H!Stored)
      /\ High!StoreObs(vaddr, v, High!Pagefault) = H!StoreObs(vaddr, v, H!Pagefault)
  BY DEF High!StoreObs, High!Stored, High!Pagefault, H!StoreObs, H!Stored, H!Pagefault
<1>7. CASE /\ pmem_idx(b, tlb[b], vaddr) < PhysMemSize
           /\ ~tlb[b].flags.is_supervisor
           /\ tlb[b].flags.is_writable
           /\ obs' = H!StoreObs(vaddr, v, H!Stored)
           /\ mem' = [mem EXCEPT ![pmem_idx(b, tlb[b], vaddr)] = v]
  <2>1. interp_vmem' = map_insert(interp_vmem, vaddr, v)
    <3>1. mem \in [0 .. (PhysMemSize - 1) -> Values] /\ ContentsInv(pt)
      BY DEF OSInv, TypeOK
    <3>2. pmem_idx(b, pt[b], vaddr) \in 0 .. (PhysMemSize - 1)
      <4>1. /\ b \in Nat /\ pt[b].frame.base \in Nat /\ pt[b].frame.size \in Nat
            /\ pmem_idx(b, pt[b], vaddr) < PhysMemSize
        BY <1>1, <1>7, EntryFacts DEF OSInv, ContentsInv, IsMapping
      <4> QED BY <1>1, <1>2, <4>1, OSAssumption DEF pmem_idx, Covers, between
    <3>3. /\ pmem_idx(b, pt[b], vaddr) < PhysMemSize
          /\ mem'[pmem_idx(b, pt[b], vaddr)] = v
          /\ \A p \in 0 .. (PhysMemSize - 1) :
               p # pmem_idx(b, pt[b], vaddr) => mem'[p] = mem[p]
      BY <1>1, <1>7, <3>1, <3>2
    <3>4. Vmem(pt, mem') =
            map_insert(Vmem(pt, mem), vaddr, mem'[pmem_idx(b, pt[b], vaddr)])
      <4>1. \A phys, after : \A x \in Nat, c \in DOMAIN pt :
              (/\ Covers(pt, c, x)
               /\ pmem_idx(c, pt[c], x) < PhysMemSize
               /\ \A p \in 0 .. (PhysMemSize - 1) :
                    p # pmem_idx(c, pt[c], x) => after[p] = phys[p]) =>
              Vmem(pt, after) =
                map_insert(Vmem(pt, phys), x, after[pmem_idx(c, pt[c], x)])
        BY <3>1, StoreShowsOnce
      <4> QED BY <1>1, <1>2, <3>3, <4>1
    <3> QED BY <1>3, <3>3, <3>4
  <2>2. interp_vmem' = High!map_insert(interp_vmem, vaddr, v)
    BY <2>1 DEF High!map_insert, map_insert
  <2> QED BY <1>1, <1>3, <1>4, <1>5, <1>6, <1>7, <2>2 DEF High!Store
<1>8. CASE /\ ~(/\ pmem_idx(b, tlb[b], vaddr) < PhysMemSize
                /\ ~tlb[b].flags.is_supervisor
                /\ tlb[b].flags.is_writable)
           /\ obs' = H!StoreObs(vaddr, v, H!Pagefault)
           /\ UNCHANGED mem
  BY <1>1, <1>3, <1>4, <1>5, <1>6, <1>8 DEF High!Store
<1> QED BY <1>0, <1>7, <1>8

\* A load through a TLB entry returns the word the user last stored there.
LEMMA LoadRefinesHigh ==
  ASSUME OSInv, OSInv', NEW vaddr \in VAddrs, NEW is_exec \in BOOLEAN,
         HWLoad(vaddr, is_exec)
  PROVE  High!Load(vaddr, is_exec)
<1> PICK b \in DOMAIN tlb :
      /\ Covers(tlb, b, vaddr)
      /\ LET allowed == /\ pmem_idx(b, tlb[b], vaddr) < PhysMemSize
                        /\ ~tlb[b].flags.is_supervisor
                        /\ is_exec => ~tlb[b].flags.disable_execute
         IN \/ /\ allowed
               /\ obs' = H!LoadObs(vaddr, is_exec,
                                   H!Value(mem[pmem_idx(b, tlb[b], vaddr)]))
            \/ /\ ~allowed
               /\ obs' = H!LoadObs(vaddr, is_exec, H!Pagefault)
  BY DEF HWLoad
<1>1. b \in DOMAIN pt /\ pt[b] = tlb[b] /\ Covers(pt, b, vaddr)
  BY CachedIsMapped
<1>2. UNCHANGED <<mem, pt, tlb>> /\ vaddr \in Nat
  BY OSAssumption DEF HWLoad
<1>3. /\ effective_mappings = pt /\ effective_mappings' = pt
      /\ interp_vmem = Vmem(pt, mem) /\ interp_vmem' = Vmem(pt, mem)
  BY <1>2, UserState
<1>4. High!Covers(pt, b, vaddr)
  BY <1>1 DEF High!Covers, Covers, High!between, between
<1>5. High!pmem_idx(b, pt[b], vaddr) = pmem_idx(b, tlb[b], vaddr)
  BY <1>1 DEF High!pmem_idx, pmem_idx
<1>6. \A x : /\ High!LoadObs(vaddr, is_exec, x) = H!LoadObs(vaddr, is_exec, x)
             /\ High!Value(x) = H!Value(x)
             /\ High!Pagefault = H!Pagefault
  BY DEF High!LoadObs, High!Value, High!Pagefault, H!LoadObs, H!Value, H!Pagefault
<1>7. CASE /\ pmem_idx(b, tlb[b], vaddr) < PhysMemSize
           /\ ~tlb[b].flags.is_supervisor
           /\ is_exec => ~tlb[b].flags.disable_execute
           /\ obs' = H!LoadObs(vaddr, is_exec,
                               H!Value(mem[pmem_idx(b, tlb[b], vaddr)]))
  <2>1. ContentsInv(pt)
    BY DEF OSInv
  <2>2. vaddr \in Reachable(pt)
    BY <1>1, <1>2, <1>7, <2>1, BackedIsReachable
  <2>3. interp_vmem[vaddr] = mem[pmem_idx(b, tlb[b], vaddr)]
    BY <1>1, <1>3, <2>1, <2>2, VmemValue
  <2>4. obs' = High!LoadObs(vaddr, is_exec, High!Value(interp_vmem[vaddr]))
    BY <1>6, <1>7, <2>3
  <2> QED BY <1>1, <1>3, <1>4, <1>5, <1>7, <2>4 DEF High!Load
<1>8. CASE /\ ~(/\ pmem_idx(b, tlb[b], vaddr) < PhysMemSize
                /\ ~tlb[b].flags.is_supervisor
                /\ is_exec => ~tlb[b].flags.disable_execute)
           /\ obs' = H!LoadObs(vaddr, is_exec, H!Pagefault)
  <2>1. obs' = High!LoadObs(vaddr, is_exec, High!Pagefault)
    BY <1>6, <1>8
  <2> QED BY <1>1, <1>3, <1>4, <1>5, <1>8, <2>1 DEF High!Load
<1> QED BY <1>7, <1>8

\* The machine faults only where the page table maps nothing; the user's
\* specification lets it fault wherever no physical memory is behind vaddr.
LEMMA FaultRefinesHigh ==
  ASSUME OSInv, OSInv', NEW vaddr \in VAddrs, HWFault(vaddr)
  PROVE  High!Fault(vaddr)
<1>1. UNCHANGED <<mem, pt, tlb>>
  BY DEF HWFault
<1>2. /\ effective_mappings = pt /\ effective_mappings' = pt
      /\ interp_vmem = Vmem(pt, mem) /\ interp_vmem' = Vmem(pt, mem)
  BY <1>1, UserState
<1>3. ~High!mem_domain_from_mappings_contains(vaddr, pt)
  BY DEF HWFault, High!mem_domain_from_mappings_contains, High!Covers, Covers,
         High!between, between
<1>4. \/ \E v \in Values : obs' = High!StoreObs(vaddr, v, High!Pagefault)
      \/ \E is_exec \in BOOLEAN :
           obs' = High!LoadObs(vaddr, is_exec, High!Pagefault)
  BY DEF HWFault, High!StoreObs, High!LoadObs, High!Pagefault,
         H!StoreObs, H!LoadObs, H!Pagefault
<1> QED BY <1>2, <1>3, <1>4 DEF High!Fault

(***************************************************************************)
(* System calls.                                                           *)
(***************************************************************************)

\* spec_pt.rs and hlspec.rs enable the same Map and Unmap calls.
LEMMA EnablingConditionsAgree ==
  ASSUME NEW vaddr, NEW pte
  PROVE  /\ PT!step_Map_enabled(pt, vaddr, pte) =>
              High!PT!step_Map_enabled(pt, vaddr, pte)
         /\ PT!step_Unmap_enabled(vaddr) => High!PT!step_Unmap_enabled(vaddr)
<1>1. PT!PageSizes = High!PT!PageSizes /\ PT!UpperVaddr = High!PT!UpperVaddr
  BY DEF PT!PageSizes, High!PT!PageSizes, PT!Layers, High!PT!Layers,
         PT!UpperVaddr, High!PT!UpperVaddr, PT!entry_base, High!PT!entry_base
<1>2. PT!candidate_mapping_overlaps_existing_pmem(pt, vaddr, pte) <=>
        High!PT!candidate_mapping_overlaps_existing_pmem(pt, vaddr, pte)
  BY DEF PT!candidate_mapping_overlaps_existing_pmem, PT!overlap, High!PT!overlap,
         High!PT!candidate_mapping_overlaps_existing_pmem
<1>3. PT!step_Map_enabled(pt, vaddr, pte) =>
        High!PT!step_Map_enabled(pt, vaddr, pte)
  BY <1>1, <1>2 DEF PT!step_Map_enabled, High!PT!step_Map_enabled,
       PT!aligned, High!PT!aligned,
       PT!candidate_mapping_in_bounds, High!PT!candidate_mapping_in_bounds
<1>4. PT!step_Unmap_enabled(vaddr) => High!PT!step_Unmap_enabled(vaddr)
  BY <1>1 DEF PT!step_Unmap_enabled, High!PT!step_Unmap_enabled,
       PT!aligned, High!PT!aligned, PT!between, High!PT!between
<1> QED BY <1>3, <1>4

\* The words of the new mapping hold what its frame holds; the others are
\* where they were.
LEMMA MapRefinesHigh ==
  ASSUME OSInv, OSInv', NEW vaddr \in VAddrs, NEW pte \in PTEs, step_Map(vaddr, pte)
  PROVE  High!step_Map(vaddr, pte)
<1>1. PTMemOp /\ PT!step_Map(vaddr, pte) /\ UNCHANGED mem
  BY DEF step_Map, PTMemOp
<1>2. /\ effective_mappings = pt /\ effective_mappings' = pt'
      /\ interp_vmem = Vmem(pt, mem) /\ interp_vmem' = Vmem(pt', mem)
  BY <1>1, UserState
<1>3. High!PT!step_Map_enabled(pt, vaddr, pte)
  BY <1>1, EnablingConditionsAgree DEF PT!step_Map
<1>4. PT!candidate_mapping_overlaps_existing_vmem(pt, vaddr, pte) <=>
        High!candidate_mapping_overlaps_existing_vmem(pt, vaddr, pte)
  BY DEF PT!candidate_mapping_overlaps_existing_vmem, PT!overlap, PT!MemRegion,
         High!candidate_mapping_overlaps_existing_vmem, High!overlap, High!MemRegion
<1>5. /\ PT!MapObs(vaddr, pte, PT!Ok) = High!PT!MapObs(vaddr, pte, High!PT!Ok)
      /\ PT!MapObs(vaddr, pte, PT!ErrOverlap) =
           High!PT!MapObs(vaddr, pte, High!PT!ErrOverlap)
  BY DEF PT!MapObs, PT!Ok, PT!ErrOverlap,
         High!PT!MapObs, High!PT!Ok, High!PT!ErrOverlap
<1>6. CASE /\ PT!candidate_mapping_overlaps_existing_vmem(pt, vaddr, pte)
           /\ obs' = PT!MapObs(vaddr, pte, PT!ErrOverlap)
           /\ UNCHANGED pt
  BY <1>2, <1>3, <1>4, <1>5, <1>6 DEF High!step_Map
<1>7. CASE /\ ~PT!candidate_mapping_overlaps_existing_vmem(pt, vaddr, pte)
           /\ obs' = PT!MapObs(vaddr, pte, PT!Ok)
           /\ pt' = PT!map_insert(pt, vaddr, pte)
  <2>1. effective_mappings' = High!map_insert(effective_mappings, vaddr, pte)
    BY <1>2, <1>7 DEF PT!map_insert, High!map_insert
  <2>2. ContentsInv(pt) /\ ContentsInv(pt')
        /\ \A b \in DOMAIN pt : contains_pair(pt', b, pt[b])
    BY <1>1, MapKeepsOthers DEF OSInv
  <2>3. Vmem(pt', mem) \in [Reachable(pt') -> Values]
    <3>1. ASSUME NEW x \in Reachable(pt')
          PROVE  Vmem(pt', mem)[x] \in Values
      <4> PICK c \in DOMAIN pt' :
            Covers(pt', c, x) /\ pmem_idx(c, pt'[c], x) \in 0 .. (PhysMemSize - 1)
        BY <2>2, <3>1, ReachableFacts
      <4>1. Vmem(pt', mem)[x] = mem[pmem_idx(c, pt'[c], x)]
        BY <2>2, <3>1, VmemValue
      <4> QED BY <4>1 DEF OSInv, TypeOK
    <3>2. Vmem(pt', mem) = [x \in Reachable(pt') |-> Vmem(pt', mem)[x]]
      BY DEF Vmem
    <3> QED BY <3>1, <3>2
  <2>4. ASSUME NEW x \in DOMAIN interp_vmem
        PROVE  Vmem(pt', mem)[x] = interp_vmem[x]
    <3>1. x \in Reachable(pt)
      BY <1>2, <2>4 DEF Vmem
    <3> PICK c \in DOMAIN pt :
          Covers(pt, c, x) /\ pmem_idx(c, pt[c], x) < PhysMemSize
      BY <3>1 DEF Reachable
    <3>2. contains_pair(pt', c, pt[c]) /\ x \in 0 .. (UpperVaddr - 1)
      BY <2>2, <3>1 DEF Reachable
    <3> QED BY <1>2, <2>2, <3>2, SameMappingSameWord
  <2>5. interp_vmem' \in
          {m \in [High!mem_domain_from_mappings(effective_mappings') -> Values] :
             \A idx \in DOMAIN interp_vmem : m[idx] = interp_vmem[idx]}
    BY <1>2, <2>3, <2>4, ReachableIsDomain
  <2> QED BY <1>2, <1>3, <1>4, <1>5, <1>7, <2>1, <2>5 DEF High!step_Map
<1> QED BY <1>1, <1>6, <1>7 DEF PT!step_Map

\* The user loses the words of the removed mapping and no others.
LEMMA UnmapRefinesHigh ==
  ASSUME OSInv, OSInv', NEW vaddr \in VAddrs, step_Unmap(vaddr)
  PROVE  High!step_Unmap(vaddr)
<1>1. PTMemOp /\ PT!step_Unmap(vaddr) /\ UNCHANGED mem
  BY DEF step_Unmap, PTMemOp
<1>2. /\ effective_mappings = pt /\ effective_mappings' = pt'
      /\ interp_vmem = Vmem(pt, mem) /\ interp_vmem' = Vmem(pt', mem)
  BY <1>1, UserState
<1>3. High!PT!step_Unmap_enabled(vaddr)
  BY <1>1, EnablingConditionsAgree DEF PT!step_Unmap
<1>4. /\ PT!UnmapObs(vaddr, PT!Ok) = High!PT!UnmapObs(vaddr, High!PT!Ok)
      /\ PT!UnmapObs(vaddr, PT!ErrNoSuchMapping) =
           High!PT!UnmapObs(vaddr, High!PT!ErrNoSuchMapping)
  BY DEF PT!UnmapObs, PT!Ok, PT!ErrNoSuchMapping,
         High!PT!UnmapObs, High!PT!Ok, High!PT!ErrNoSuchMapping
<1>5. CASE /\ vaddr \notin DOMAIN pt
           /\ obs' = PT!UnmapObs(vaddr, PT!ErrNoSuchMapping)
           /\ UNCHANGED pt
  BY <1>2, <1>3, <1>4, <1>5 DEF High!step_Unmap
<1>6. CASE /\ vaddr \in DOMAIN pt
           /\ obs' = PT!UnmapObs(vaddr, PT!Ok)
           /\ pt' = PT!map_remove(pt, vaddr)
  <2>1. effective_mappings' = High!map_remove(effective_mappings, vaddr)
    BY <1>2, <1>6 DEF PT!map_remove, High!map_remove, PT!Restrict, High!Restrict
  <2>2. DOMAIN pt' \subseteq DOMAIN pt /\ \A b \in DOMAIN pt' : pt'[b] = pt[b]
    BY <1>6 DEF PT!map_remove, PT!Restrict
  <2>3. ContentsInv(pt) /\ ContentsInv(pt')
    BY DEF OSInv
  <2>4. ASSUME NEW x \in Reachable(pt')
        PROVE  x \in Reachable(pt) /\ Vmem(pt', mem)[x] = Vmem(pt, mem)[x]
    <3> PICK c \in DOMAIN pt' :
          Covers(pt', c, x) /\ pmem_idx(c, pt'[c], x) < PhysMemSize
      BY <2>4 DEF Reachable
    <3>1. contains_pair(pt, c, pt'[c]) /\ x \in 0 .. (UpperVaddr - 1)
      BY <2>2, <2>4 DEF Reachable, contains_pair
    <3> QED BY <2>3, <3>1, SameMappingSameWord
  <2>5. /\ DOMAIN Vmem(pt, mem) = Reachable(pt)
        /\ Vmem(pt', mem) = [x \in Reachable(pt') |-> Vmem(pt', mem)[x]]
    BY DEF Vmem
  <2>6. Vmem(pt', mem) = [x \in Reachable(pt') |-> Vmem(pt, mem)[x]]
    BY <2>4, <2>5
  <2>7. interp_vmem' =
          High!Restrict(interp_vmem, High!mem_domain_from_mappings(effective_mappings'))
    BY <1>2, <2>6, ReachableIsDomain DEF High!Restrict
  <2> QED BY <1>2, <1>3, <1>4, <1>6, <2>1, <2>7 DEF High!step_Unmap
<1> QED BY <1>1, <1>5, <1>6 DEF PT!step_Unmap

\* Resolve tells the user what the page table holds, and changes nothing.
LEMMA ResolveRefinesHigh ==
  ASSUME OSInv, OSInv', NEW vaddr \in VAddrs, step_Resolve(vaddr)
  PROVE  High!step_Resolve(vaddr)
<1>1. UNCHANGED <<mem, pt>> /\ PT!step_Resolve(vaddr)
  BY DEF step_Resolve, PTMemOp, PT!step_Resolve
<1>2. /\ effective_mappings = pt /\ effective_mappings' = pt
      /\ interp_vmem = Vmem(pt, mem) /\ interp_vmem' = Vmem(pt, mem)
  BY <1>1, UserState
<1>3. \A b : PT!Covers(pt, b, vaddr) <=> High!Covers(pt, b, vaddr)
  BY DEF PT!Covers, High!Covers, PT!between, High!between
<1>4. /\ \A b : PT!ResolveObs(vaddr, PT!Resolved(b, pt[b])) =
                  High!PT!ResolveObs(vaddr, High!PT!Resolved(b, pt[b]))
      /\ PT!ResolveObs(vaddr, PT!ErrUnmapped) =
           High!PT!ResolveObs(vaddr, High!PT!ErrUnmapped)
  BY DEF PT!ResolveObs, PT!Resolved, PT!ErrUnmapped,
         High!PT!ResolveObs, High!PT!Resolved, High!PT!ErrUnmapped
<1>5. CASE \E b \in DOMAIN pt :
             /\ PT!Covers(pt, b, vaddr)
             /\ obs' = PT!ResolveObs(vaddr, PT!Resolved(b, pt[b]))
  BY <1>2, <1>3, <1>4, <1>5 DEF High!step_Resolve
<1>6. CASE /\ \A b \in DOMAIN pt : ~PT!Covers(pt, b, vaddr)
           /\ obs' = PT!ResolveObs(vaddr, PT!ErrUnmapped)
  <2>1. ~High!mem_domain_from_mappings_contains(vaddr, pt)
    BY <1>3, <1>6 DEF High!mem_domain_from_mappings_contains
  <2> QED BY <1>2, <1>4, <1>6, <2>1 DEF High!step_Resolve
<1> QED BY <1>1, <1>5, <1>6 DEF PT!step_Resolve

(***************************************************************************)
(* The refinement.                                                         *)
(***************************************************************************)

\* What the MMU does on its own does not show.
LEMMA TLBStepsStutter ==
  ASSUME OSInv, OSInv', UNCHANGED <<mem, pt, obs>>
  PROVE  UNCHANGED High!vars
BY UserState DEF High!vars

\* Every step of the OS is a step of the user's specification or shows
\* nothing of itself.
LEMMA NextRefinesHigh ==
  ASSUME OSInv, OSInv', [Next]_vars
  PROVE  [High!Next]_(High!vars)
<1>1. CASE UNCHANGED vars
  BY <1>1, TLBStepsStutter DEF vars
<1>2. CASE \/ \E b \in DOMAIN pt : TLBFill(b)
           \/ \E b \in DOMAIN tlb : TLBEvict(b)
  <2>1. UNCHANGED <<mem, pt, obs>>
    BY <1>2 DEF TLBFill, TLBEvict
  <2> QED BY <2>1, TLBStepsStutter
<1>3. CASE \E vaddr \in VAddrs, v \in Values : HWStore(vaddr, v)
  BY <1>3, StoreRefinesHigh DEF High!Next
<1>4. CASE \E vaddr \in VAddrs, is_exec \in BOOLEAN : HWLoad(vaddr, is_exec)
  BY <1>4, LoadRefinesHigh DEF High!Next
<1>5. CASE \E vaddr \in VAddrs : HWFault(vaddr)
  BY <1>5, FaultRefinesHigh DEF High!Next
<1>6. CASE \E vaddr \in VAddrs, pte \in PTEs : step_Map(vaddr, pte)
  BY <1>6, MapRefinesHigh DEF High!Next
<1>7. CASE \E vaddr \in VAddrs : step_Unmap(vaddr)
  BY <1>7, UnmapRefinesHigh DEF High!Next
<1>8. CASE \E vaddr \in VAddrs : step_Resolve(vaddr)
  BY <1>8, ResolveRefinesHigh DEF High!Next
<1> QED BY <1>1, <1>2, <1>3, <1>4, <1>5, <1>6, <1>7, <1>8 DEF Next, step_HW

\* Whatever the TLB holds and drops, the OS and its machine behave as the
\* user's specification says.
THEOREM OSRefinesHighSpec == Spec => ImplementsHighSpec
<1>1. OSInv /\ OSInv' /\ [Next]_vars => [High!Next]_(High!vars)
  BY NextRefinesHigh
<1> QED BY <1>1, OSInvariant, InitRefinesHigh, PTL
        DEF Spec, ImplementsHighSpec, High!Spec
=============================================================================
