--------------------------- MODULE System_proofs ----------------------------
(***************************************************************************)
(* The page table implementation on a machine with an MMU and a TLB: the   *)
(* inductive invariant of the system, and its refinement of the OS         *)
(* specification and, through that, of the user's specification.  All of   *)
(* it is about a kernel that invalidates the TLB entry after unmap, which  *)
(* the code leaves to be done (FIXME at l2_impl.rs:2363).                  *)
(***************************************************************************)
EXTENDS System, PageTableContents_proofs, FiniteSetTheorems

(***************************************************************************)
(* The theorems about PageTableImpl, for the instance Impl.  They come     *)
(* with the instance ImplP of the module that proves them, whose           *)
(* definitions are those of Impl under another name.                       *)
(***************************************************************************)
ImplP == INSTANCE PageTableImpl_proofs WITH
           obs <- result, ResolveVAddrs <- VAddrs

\* The assumptions of PageTableImpl hold for the instance.
LEMMA ImplAssumptions ==
  /\ ImplP!IsFiniteSet(Regions)
  /\ ImplP!Layers = Layers
  /\ ImplP!PageTableEntry = PageTableEntry
  /\ ImplP!UpperVaddr = UpperVaddr
BY SystemAssumption
   DEF ImplP!IsFiniteSet, IsFiniteSet, ImplP!Layers, Layers, ImplP!Flags, Flags,
       ImplP!PageTableEntry, PageTableEntry, ImplP!UpperVaddr, UpperVaddr,
       ImplP!entry_base, entry_base

\* Both instances count pages the same way.
LEMMA SameCardinality ==
  ASSUME NEW S
  PROVE  Impl!Cardinality(S) = Cardinality(S) /\ ImplP!Cardinality(S) = Cardinality(S)
BY DEF Impl!Cardinality, ImplP!Cardinality, Cardinality,
       Impl!IsFiniteSet, ImplP!IsFiniteSet, IsFiniteSet

\* The steps of the implementation.
LEMMA SameSteps ==
  ASSUME NEW vaddr
  PROVE  /\ Impl!MapDescend <=> ImplP!MapDescend
         /\ Impl!MapOverlap <=> ImplP!MapOverlap
         /\ Impl!MapPage <=> ImplP!MapPage
         /\ Impl!MapAllocDir <=> ImplP!MapAllocDir
         /\ Impl!MapLinkDir <=> ImplP!MapLinkDir
         /\ Impl!CallUnmap(vaddr) <=> ImplP!CallUnmap(vaddr)
         /\ Impl!UnmapDescend <=> ImplP!UnmapDescend
         /\ Impl!UnmapMissing <=> ImplP!UnmapMissing
         /\ Impl!UnmapPage <=> ImplP!UnmapPage
         /\ Impl!UnlinkDir <=> ImplP!UnlinkDir
         /\ Impl!UnmapReturn <=> ImplP!UnmapReturn
         /\ Impl!CallResolve(vaddr) <=> ImplP!CallResolve(vaddr)
         /\ Impl!ResolveDescend <=> ImplP!ResolveDescend
         /\ Impl!ResolvePage <=> ImplP!ResolvePage
         /\ Impl!ResolveEmpty <=> ImplP!ResolveEmpty
BY DEF Impl!MapDescend, ImplP!MapDescend, Impl!memVars, ImplP!memVars,
       Impl!entry, ImplP!entry, Impl!idx, ImplP!idx, Impl!index_for_vaddr,
       ImplP!index_for_vaddr, Impl!ptr, ImplP!ptr, Impl!view_at,
       ImplP!view_at, Impl!Enter, ImplP!Enter, Impl!entry_base,
       ImplP!entry_base, Impl!is_dir, ImplP!is_dir, Impl!is_page,
       ImplP!is_page, Impl!is_mapping, ImplP!is_mapping, Impl!MapOverlap,
       ImplP!MapOverlap, Impl!Return, ImplP!Return, Impl!NoOld, ImplP!NoOld,
       Impl!RootFrame, ImplP!RootFrame, Impl!Layers, ImplP!Layers,
       Impl!NoCall, ImplP!NoCall, Impl!PT!ErrOverlap, ImplP!PT!ErrOverlap,
       Impl!PT!MapObs, ImplP!PT!MapObs, Impl!MapPage, ImplP!MapPage,
       Impl!PT!Ok, ImplP!PT!Ok, Impl!new_page_entry, ImplP!new_page_entry,
       Impl!flags, ImplP!flags, Impl!new_entry, ImplP!new_entry, Impl!write,
       ImplP!write, Impl!MapAllocDir, ImplP!MapAllocDir, Impl!alloc_page,
       ImplP!alloc_page, Impl!ZeroPage, ImplP!ZeroPage, Impl!ZeroEntry,
       ImplP!ZeroEntry, Impl!zero_entry, ImplP!zero_entry, Impl!EntryIndices,
       ImplP!EntryIndices, Impl!MapLinkDir, ImplP!MapLinkDir, Impl!map_insert,
       ImplP!map_insert, Impl!new_dir_entry, ImplP!new_dir_entry,
       Impl!CallUnmap, ImplP!CallUnmap, Impl!Begin, ImplP!Begin,
       Impl!PT!step_Unmap_enabled, ImplP!PT!step_Unmap_enabled,
       Impl!PT!aligned, ImplP!PT!aligned, Impl!PT!PageSizes,
       ImplP!PT!PageSizes, Impl!PT!Layers, ImplP!PT!Layers,
       Impl!PT!UpperVaddr, ImplP!PT!UpperVaddr, Impl!PT!entry_base,
       ImplP!PT!entry_base, Impl!PT!between, ImplP!PT!between,
       Impl!UnmapDescend, ImplP!UnmapDescend, Impl!UnmapMissing,
       ImplP!UnmapMissing, Impl!PT!ErrNoSuchMapping,
       ImplP!PT!ErrNoSuchMapping, Impl!PT!UnmapObs, ImplP!PT!UnmapObs,
       Impl!aligned, ImplP!aligned, Impl!UnmapPage, ImplP!UnmapPage,
       Impl!UnlinkDir, ImplP!UnlinkDir, Impl!map_remove, ImplP!map_remove,
       Impl!is_directory_empty, ImplP!is_directory_empty, Impl!UnmapReturn,
       ImplP!UnmapReturn, Impl!CallResolve, ImplP!CallResolve,
       Impl!ResolveDescend, ImplP!ResolveDescend, Impl!read_entries,
       ImplP!read_entries, Impl!JunkEntry, ImplP!JunkEntry, Impl!ReadInBounds,
       ImplP!ReadInBounds, Impl!ResolvePage, ImplP!ResolvePage, Impl!EntryPTE,
       ImplP!EntryPTE, Impl!MemRegion, ImplP!MemRegion, Impl!PT!Resolved,
       ImplP!PT!Resolved, Impl!PT!ResolveObs, ImplP!PT!ResolveObs,
       Impl!ResolveEmpty, ImplP!ResolveEmpty, Impl!PT!ErrUnmapped,
       ImplP!PT!ErrUnmapped, Impl!Restrict, ImplP!Restrict

\* unmap's step past a directory that is not empty.
LEMMA SameKeepDir ==
  /\ Impl!KeepDir <=> ImplP!KeepDir
BY DEF Impl!KeepDir, ImplP!KeepDir, Impl!memVars, ImplP!memVars, Impl!ptr,
       ImplP!ptr, Impl!is_directory_empty, ImplP!is_directory_empty,
       Impl!view_at, ImplP!view_at, Impl!is_mapping, ImplP!is_mapping,
       Impl!EntryIndices, ImplP!EntryIndices

\* The call of map_frame.
LEMMA SameCallMap ==
  ASSUME NEW vaddr, NEW pte
  PROVE  /\ Impl!CallMap(vaddr, pte) <=> ImplP!CallMap(vaddr, pte)
BY SameCardinality DEF Impl!CallMap, ImplP!CallMap, Impl!Begin, ImplP!Begin, Impl!memVars,
       ImplP!memVars, Impl!interp, ImplP!interp, Impl!SlotBase,
       ImplP!SlotBase, Impl!entry_base, ImplP!entry_base, Impl!idx, ImplP!idx,
       Impl!index_for_vaddr, ImplP!index_for_vaddr, Impl!Slots, ImplP!Slots,
       Impl!IsPageAt, ImplP!IsPageAt, Impl!view_at, ImplP!view_at,
       Impl!is_page, ImplP!is_page, Impl!is_mapping, ImplP!is_mapping,
       Impl!EntryIndices, ImplP!EntryIndices, Impl!SlotPTE, ImplP!SlotPTE,
       Impl!EntryPTE, ImplP!EntryPTE, Impl!flags, ImplP!flags, Impl!MemRegion,
       ImplP!MemRegion, Impl!PT!step_Map_enabled, ImplP!PT!step_Map_enabled,
       Impl!PT!candidate_mapping_overlaps_existing_pmem,
       ImplP!PT!candidate_mapping_overlaps_existing_pmem, Impl!PT!overlap,
       ImplP!PT!overlap, Impl!PT!candidate_mapping_in_bounds,
       ImplP!PT!candidate_mapping_in_bounds, Impl!PT!UpperVaddr,
       ImplP!PT!UpperVaddr, Impl!PT!entry_base, ImplP!PT!entry_base,
       Impl!PT!aligned, ImplP!PT!aligned, Impl!PT!PageSizes,
       ImplP!PT!PageSizes, Impl!PT!Layers, ImplP!PT!Layers

\* The initial states, the variables and what is mapped.
LEMMA SameInit ==
  /\ Impl!Init <=> ImplP!Init
  /\ Impl!vars = ImplP!vars
  /\ Impl!interp = ImplP!interp
BY DEF Impl!Init, ImplP!Init, Impl!InitWith, ImplP!InitWith, Impl!NoOld, ImplP!NoOld, Impl!PT!NoObs,
       ImplP!PT!NoObs, Impl!PT!Init, ImplP!PT!Init, Impl!PT!EmptyMap,
       ImplP!PT!EmptyMap, Impl!RootFrame, ImplP!RootFrame, Impl!ptr,
       ImplP!ptr, Impl!Layers, ImplP!Layers, Impl!NoCall, ImplP!NoCall,
       Impl!JunkPage, ImplP!JunkPage, Impl!JunkEntry, ImplP!JunkEntry,
       Impl!ZeroEntry, ImplP!ZeroEntry, Impl!zero_entry, ImplP!zero_entry,
       Impl!EntryIndices, ImplP!EntryIndices, Impl!ZeroPage, ImplP!ZeroPage,
       Impl!vars, ImplP!vars, Impl!callVars, ImplP!callVars, Impl!memVars,
       ImplP!memVars, Impl!interp, ImplP!interp, Impl!SlotBase,
       ImplP!SlotBase, Impl!entry_base, ImplP!entry_base, Impl!idx, ImplP!idx,
       Impl!index_for_vaddr, ImplP!index_for_vaddr, Impl!Slots, ImplP!Slots,
       Impl!IsPageAt, ImplP!IsPageAt, Impl!view_at, ImplP!view_at,
       Impl!is_page, ImplP!is_page, Impl!is_mapping, ImplP!is_mapping,
       Impl!SlotPTE, ImplP!SlotPTE, Impl!EntryPTE, ImplP!EntryPTE, Impl!flags,
       ImplP!flags, Impl!MemRegion, ImplP!MemRegion

\* Types, tree and precondition.
LEMMA SameTree ==
  /\ Impl!TypeOK <=> ImplP!TypeOK
  /\ Impl!TreeInv <=> ImplP!TreeInv
  /\ Impl!EnabledInv <=> ImplP!EnabledInv
BY DEF Impl!TypeOK, ImplP!TypeOK, Impl!ptr, ImplP!ptr, Impl!Layers,
       ImplP!Layers, Impl!used_regions, ImplP!used_regions,
       Impl!PageDirectoryEntry, ImplP!PageDirectoryEntry, Impl!EntryIndices,
       ImplP!EntryIndices, Impl!TreeInv, ImplP!TreeInv,
       Impl!LeavesAreDisjoint, ImplP!LeavesAreDisjoint, Impl!InEntry,
       ImplP!InEntry, Impl!entry_base, ImplP!entry_base, Impl!idx, ImplP!idx,
       Impl!index_for_vaddr, ImplP!index_for_vaddr, Impl!between,
       ImplP!between, Impl!IsDirAt, ImplP!IsDirAt, Impl!view_at,
       ImplP!view_at, Impl!is_dir, ImplP!is_dir, Impl!is_page, ImplP!is_page,
       Impl!is_mapping, ImplP!is_mapping, Impl!UpperVaddr, ImplP!UpperVaddr,
       Impl!PagesAreWellPlaced, ImplP!PagesAreWellPlaced, Impl!aligned,
       ImplP!aligned, Impl!Slots, ImplP!Slots, Impl!IsPageAt, ImplP!IsPageAt,
       Impl!EntriesAreFilled, ImplP!EntriesAreFilled, Impl!DirectoriesSpan,
       ImplP!DirectoriesSpan, Impl!DirectoriesFormTree,
       ImplP!DirectoriesFormTree, Impl!SlotBase, ImplP!SlotBase,
       Impl!contains_pair, ImplP!contains_pair, Impl!EnabledInv,
       ImplP!EnabledInv, Impl!PT!step_Unmap_enabled,
       ImplP!PT!step_Unmap_enabled, Impl!PT!aligned, ImplP!PT!aligned,
       Impl!PT!PageSizes, ImplP!PT!PageSizes, Impl!PT!Layers, ImplP!PT!Layers,
       Impl!PT!UpperVaddr, ImplP!PT!UpperVaddr, Impl!PT!entry_base,
       ImplP!PT!entry_base, Impl!PT!between, ImplP!PT!between, Impl!interp,
       ImplP!interp, Impl!SlotPTE, ImplP!SlotPTE, Impl!EntryPTE,
       ImplP!EntryPTE, Impl!flags, ImplP!flags, Impl!MemRegion,
       ImplP!MemRegion, Impl!PT!step_Map_enabled, ImplP!PT!step_Map_enabled,
       Impl!PT!candidate_mapping_overlaps_existing_pmem,
       ImplP!PT!candidate_mapping_overlaps_existing_pmem, Impl!PT!overlap,
       ImplP!PT!overlap, Impl!PT!candidate_mapping_in_bounds,
       ImplP!PT!candidate_mapping_in_bounds

\* What is known of the arguments of a call.
LEMMA SameCallInv ==
  /\ Impl!CallInv <=> ImplP!CallInv
BY DEF Impl!CallInv, ImplP!CallInv, Impl!ArgsInv, ImplP!ArgsInv, Impl!UpperVaddr, ImplP!UpperVaddr,
       Impl!entry_base, ImplP!entry_base, Impl!idx, ImplP!idx,
       Impl!index_for_vaddr, ImplP!index_for_vaddr, Impl!Layers, ImplP!Layers,
       Impl!candidate_mapping_in_bounds, ImplP!candidate_mapping_in_bounds,
       Impl!aligned, ImplP!aligned, Impl!RootFrame, ImplP!RootFrame, Impl!ptr,
       ImplP!ptr

\* The frames of a call.
LEMMA SamePathIsChain ==
  /\ Impl!PathIsChain <=> ImplP!PathIsChain
BY DEF Impl!PathIsChain, ImplP!PathIsChain, Impl!ptr, ImplP!ptr, Impl!view_at,
       ImplP!view_at, Impl!IsDirAt, ImplP!IsDirAt, Impl!is_dir, ImplP!is_dir,
       Impl!is_page, ImplP!is_page, Impl!is_mapping, ImplP!is_mapping,
       Impl!index_for_vaddr, ImplP!index_for_vaddr, Impl!between,
       ImplP!between, Impl!UpperVaddr, ImplP!UpperVaddr, Impl!entry_base,
       ImplP!entry_base, Impl!idx, ImplP!idx, Impl!contains_pair,
       ImplP!contains_pair, Impl!RootFrame, ImplP!RootFrame

\* Empty directories.
LEMMA SameNoEmptyDirectories ==
  /\ Impl!NoEmptyDirectories <=> ImplP!NoEmptyDirectories
BY DEF Impl!NoEmptyDirectories, ImplP!NoEmptyDirectories, Impl!ptr, ImplP!ptr,
       Impl!is_directory_empty, ImplP!is_directory_empty, Impl!view_at,
       ImplP!view_at, Impl!is_mapping, ImplP!is_mapping, Impl!EntryIndices,
       ImplP!EntryIndices, Impl!used_regions, ImplP!used_regions

\* The directory about to be linked.
LEMMA SameLinkInv ==
  /\ Impl!LinkInv <=> ImplP!LinkInv
BY DEF Impl!LinkInv, ImplP!LinkInv, Impl!entry, ImplP!entry, Impl!idx,
       ImplP!idx, Impl!index_for_vaddr, ImplP!index_for_vaddr, Impl!ptr,
       ImplP!ptr, Impl!view_at, ImplP!view_at, Impl!is_mapping,
       ImplP!is_mapping, Impl!is_directory_empty, ImplP!is_directory_empty,
       Impl!EntryIndices, ImplP!EntryIndices, Impl!used_regions,
       ImplP!used_regions

\* What a call has written.
LEMMA SameNothingWritten ==
  /\ Impl!NothingWritten <=> ImplP!NothingWritten
BY DEF Impl!NothingWritten, ImplP!NothingWritten, Impl!is_directory_empty,
       ImplP!is_directory_empty, Impl!view_at, ImplP!view_at,
       Impl!is_mapping, ImplP!is_mapping, Impl!EntryIndices,
       ImplP!EntryIndices, Impl!ptr, ImplP!ptr

\* The buffer of pages.
LEMMA SameBufferInv ==
  /\ Impl!BufferInv <=> ImplP!BufferInv
BY SameCardinality DEF Impl!BufferInv, ImplP!BufferInv

\* The walk of the MMU.
LEMMA SameWalk ==
  ASSUME NEW vaddr
  PROVE  /\ Impl!mmu_walk(vaddr) = ImplP!mmu_walk(vaddr)
BY DEF Impl!mmu_walk, ImplP!mmu_walk, Impl!flags, ImplP!flags, Impl!MemRegion,
       ImplP!MemRegion, Impl!is_mapping, ImplP!is_mapping, Impl!mmu_last,
       ImplP!mmu_last, Impl!mmu_read, ImplP!mmu_read, Impl!mmu_index,
       ImplP!mmu_index, Impl!view_at, ImplP!view_at, Impl!is_dir,
       ImplP!is_dir, Impl!is_page, ImplP!is_page, Impl!Layers, ImplP!Layers

\* Operators on mappings.
LEMMA SameMaps ==
  ASSUME NEW m, NEW b, NEW pte
  PROVE  /\ Impl!map_insert(m, b, pte) = ImplP!map_insert(m, b, pte)
         /\ Impl!map_remove(m, b) = ImplP!map_remove(m, b)
BY DEF Impl!map_insert, ImplP!map_insert, Impl!map_remove, ImplP!map_remove,
       Impl!Restrict, ImplP!Restrict

\* The inductive invariant of the implementation is the same for both.
LEMMA SameInv == Impl!IInv <=> ImplP!IInv
BY SameTree, SameCallInv, SamePathIsChain, SameNoEmptyDirectories, SameLinkInv,
   SameNothingWritten, SameBufferInv
   DEF Impl!IInv, ImplP!IInv, Impl!RunInv, ImplP!RunInv

\* So is that of the next state.
LEMMA SameInvNext == Impl!IInv' <=> ImplP!IInv'
BY SameInv, PTL

\* So is what the caller has promised, in the next state.
LEMMA SameEnabledNext == Impl!EnabledInv' <=> ImplP!EnabledInv'
<1>1. Impl!EnabledInv <=> ImplP!EnabledInv
  BY SameTree
<1> QED BY <1>1, PTL

\* So is what is mapped, in the next state.
LEMMA SameInterpNext == Impl!interp' = ImplP!interp'
<1>1. Impl!interp = ImplP!interp
  BY SameInit
<1>2. (Impl!interp = ImplP!interp)'
  BY <1>1, PTL
<1> QED BY <1>2

\* So are the steps of the implementation.
LEMMA SameNext == Impl!Next <=> ImplP!Next
<1>1. Impl!Call <=> ImplP!Call
  BY SameSteps, SameCallMap DEF Impl!Call, ImplP!Call
<1>2. Impl!Step <=> ImplP!Step
  BY SameSteps, SameKeepDir DEF Impl!Step, ImplP!Step
<1> QED BY <1>1, <1>2 DEF Impl!Next, ImplP!Next

\* The implementation starts in its invariant.
LEMMA ImplInit == Impl!Init => Impl!IInv /\ Impl!EnabledInv
<1> SUFFICES ASSUME Impl!Init PROVE Impl!IInv /\ Impl!EnabledInv
  OBVIOUS
<1>1. Impl!IInv
  BY SameInit, SameInv, ImplAssumptions, ArchInv, SystemAssumption, ImplP!InitEstablishes
<1>2. Impl!EnabledInv
  BY DEF Impl!Init, Impl!InitWith, Impl!EnabledInv
<1> QED BY <1>1, <1>2

\* Steps of the implementation keep its invariant (StepKeepsInv).
LEMMA ImplStepKeepsInv ==
  ASSUME Impl!IInv, [Impl!Next]_(Impl!vars)
  PROVE  Impl!IInv'
<1>1. ImplP!IInv /\ [ImplP!Next]_(ImplP!vars)
  BY SameInv, SameNext
     DEF Impl!vars, ImplP!vars, Impl!memVars, ImplP!memVars, Impl!callVars, ImplP!callVars
<1>2. ImplP!IInv'
  BY <1>1, ImplP!StepKeepsInv, ImplAssumptions, ArchInv, SystemAssumption
<1> QED BY <1>2, SameInvNext

\* Overlaps mean the same for both.
LEMMA SameOverlap ==
  ASSUME NEW m, NEW b, NEW pte
  PROVE  ImplP!candidate_mapping_overlaps_existing_vmem(m, b, pte)
           <=> candidate_mapping_overlaps_existing_vmem(m, b, pte)
BY DEF ImplP!candidate_mapping_overlaps_existing_vmem,
       candidate_mapping_overlaps_existing_vmem, ImplP!overlap, overlap,
       ImplP!MemRegion, MemRegion

\* Steps of the implementation keep what the caller has promised (EnabledStep).
LEMMA ImplEnabledStep ==
  ASSUME Impl!IInv, Impl!IInv', Impl!EnabledInv, [Impl!Next]_(Impl!vars)
  PROVE  Impl!EnabledInv'
<1>1. ImplP!IInv /\ ImplP!EnabledInv /\ [ImplP!Next]_(ImplP!vars)
  BY SameInv, SameNext, SameTree
     DEF Impl!vars, ImplP!vars, Impl!memVars, ImplP!memVars, Impl!callVars, ImplP!callVars
<1>2. ImplP!EnabledInv'
  BY <1>1, SameInvNext, ImplP!EnabledStep, ImplAssumptions, ArchInv, SystemAssumption
<1> QED BY <1>2, SameEnabledNext

\* Only the writes of map_frame's and unmap's page entries change what is
\* mapped (InterpUnchanged).
LEMMA ImplQuiet ==
  ASSUME Impl!IInv, Impl!IInv', [Impl!Next]_(Impl!vars), ~Impl!MapPage, ~Impl!UnmapPage
  PROVE  interp' = interp
<1>1. ImplP!IInv /\ ImplP!IInv' /\ [ImplP!Next]_(ImplP!vars)
  BY SameInv, SameInvNext, SameNext
     DEF Impl!vars, ImplP!vars, Impl!memVars, ImplP!memVars, Impl!callVars, ImplP!callVars
<1>2. ~ImplP!MapPage /\ ~ImplP!UnmapPage
  BY SameSteps
<1>3. ImplP!interp' = ImplP!interp
  BY <1>1, <1>2, ImplP!InterpUnchanged, ImplAssumptions, ArchInv, SystemAssumption
<1> QED BY <1>3, SameInit, SameInterpNext DEF interp

\* map_frame's write adds the mapping, where nothing overlaps it
\* (MapPageInserts).
LEMMA ImplMapPage ==
  ASSUME Impl!IInv, Impl!IInv', Impl!MapPage
  PROVE  /\ interp' = map_insert(interp, call.vaddr, call.pte)
         /\ ~candidate_mapping_overlaps_existing_vmem(interp, call.vaddr, call.pte)
<1>1. ImplP!IInv /\ ImplP!IInv' /\ ImplP!MapPage
  BY SameInv, SameInvNext, SameSteps
<1>2. /\ ImplP!interp' = ImplP!map_insert(ImplP!interp, call.vaddr, call.pte)
      /\ ~ImplP!candidate_mapping_overlaps_existing_vmem(ImplP!interp, call.vaddr, call.pte)
  BY <1>1, ImplP!InvWalks, ImplP!MapPageInserts, ImplAssumptions, ArchInv, SystemAssumption
<1>3. ImplP!map_insert(ImplP!interp, call.vaddr, call.pte)
        = map_insert(ImplP!interp, call.vaddr, call.pte)
  BY DEF ImplP!map_insert, map_insert
<1> QED BY <1>2, <1>3, SameOverlap, SameInit, SameInterpNext DEF interp

\* unmap's first write removes the mapping (UnmapPageRemoves).
LEMMA ImplUnmapPage ==
  ASSUME Impl!IInv, Impl!IInv', Impl!UnmapPage
  PROVE  /\ interp' = map_remove(interp, call.vaddr)
         /\ call.vaddr \in DOMAIN interp
<1>1. ImplP!IInv /\ ImplP!IInv' /\ ImplP!UnmapPage
  BY SameInv, SameInvNext, SameSteps
<1>2. /\ ImplP!interp' = ImplP!map_remove(ImplP!interp, call.vaddr)
      /\ call.vaddr \in DOMAIN ImplP!interp
  BY <1>1, ImplP!InvWalks, ImplP!UnmapPageRemoves, ImplAssumptions, ArchInv, SystemAssumption
<1>3. ImplP!map_remove(ImplP!interp, call.vaddr) = map_remove(ImplP!interp, call.vaddr)
  BY DEF ImplP!map_remove, map_remove, ImplP!Restrict, Restrict
<1> QED BY <1>2, <1>3, SameInit, SameInterpNext DEF interp

\* map_frame reports real overlaps only (OverlapIsReal).
LEMMA ImplMapOverlap ==
  ASSUME Impl!IInv, Impl!MapOverlap
  PROVE  candidate_mapping_overlaps_existing_vmem(interp, call.vaddr, call.pte)
<1>1. ImplP!IInv /\ ImplP!MapOverlap
  BY SameInv, SameSteps
<1>2. ImplP!candidate_mapping_overlaps_existing_vmem(ImplP!interp, call.vaddr, call.pte)
  BY <1>1, ImplP!OverlapIsReal, ImplAssumptions, ArchInv, SystemAssumption
<1> QED BY <1>2, SameOverlap, SameInit DEF interp

\* unmap misses only what is not there (MissingIsReal).
LEMMA ImplUnmapMissing ==
  ASSUME Impl!IInv, Impl!UnmapMissing
  PROVE  call.vaddr \notin DOMAIN interp
<1>1. ImplP!IInv /\ ImplP!UnmapMissing
  BY SameInv, SameSteps
<1>2. call.vaddr \notin DOMAIN ImplP!interp
  BY <1>1, ImplP!InvWalks, ImplP!MissingIsReal, ImplAssumptions, ArchInv, SystemAssumption
<1> QED BY <1>2, SameInit DEF interp

\* A walk finds what is mapped (WalkFindsInterp).
LEMMA ImplWalk ==
  ASSUME Impl!IInv, NEW vaddr \in 0 .. (UpperVaddr - 1)
  PROVE  Impl!mmu_walk(vaddr) =
           {[base |-> b, frame |-> interp[b].frame, flags |-> interp[b].flags] :
              b \in {x \in DOMAIN interp : Covers(interp, x, vaddr)}}
<1>1. ImplP!TypeOK /\ ImplP!TreeInv
  BY SameInv DEF ImplP!IInv
<1>2. \A x : ImplP!Covers(ImplP!interp, x, vaddr) <=> Covers(interp, x, vaddr)
  BY SameInit DEF ImplP!Covers, Covers, ImplP!between, between, interp
<1>3. vaddr \in 0 .. (ImplP!UpperVaddr - 1)
  BY ImplAssumptions
<1>4. ImplP!mmu_walk(vaddr) =
        {[base |-> b, frame |-> ImplP!interp[b].frame, flags |-> ImplP!interp[b].flags] :
           b \in {x \in DOMAIN ImplP!interp : ImplP!Covers(ImplP!interp, x, vaddr)}}
  BY <1>1, <1>3, ImplP!WalkFindsInterp, ImplAssumptions, ArchInv, SystemAssumption
<1> QED BY <1>2, <1>4, SameWalk, SameInit DEF interp

\* What is mapped is a function to page table entries.
LEMMA InterpHoldsEntries ==
  ASSUME Impl!IInv
  PROVE  /\ interp = [b \in DOMAIN interp |-> interp[b]]
         /\ \A b \in DOMAIN interp :
              interp[b] = [frame |-> interp[b].frame, flags |-> interp[b].flags]
<1>1. ImplP!InterpMatches
  BY SameInv, ImplP!InterpFacts, ImplAssumptions, ArchInv, SystemAssumption DEF ImplP!IInv
<1>2. \A s : ImplP!SlotPTE(s) = [frame |-> ImplP!SlotPTE(s).frame, flags |-> ImplP!SlotPTE(s).flags]
  BY DEF ImplP!SlotPTE, ImplP!EntryPTE
<1> QED BY <1>1, <1>2, SameInit DEF ImplP!InterpMatches, interp

(***************************************************************************)
(* The inductive invariant.                                                *)
(***************************************************************************)

\* What is known of a map_frame or an unmap that is about to be decided.
LEMMA CallFacts ==
  ASSUME Impl!IInv, Impl!EnabledInv
  PROVE  /\ layer \in Layers
         /\ pc = "map" => /\ call.vaddr \in VAddrs /\ call.pte \in PTEs
                          /\ Impl!PT!step_Map_enabled(interp, call.vaddr, call.pte)
         /\ pc = "unmap" => /\ call.vaddr \in VAddrs
                            /\ Impl!PT!step_Unmap_enabled(call.vaddr)
         /\ pc = "resolve" => call.vaddr \in VAddrs
BY DEF Impl!IInv, Impl!RunInv, Impl!TypeOK, Impl!CallInv, Impl!ArgsInv, Impl!EnabledInv, interp,
       Impl!Layers, Layers

\* map_frame adds a mapping at an address that has none.
LEMMA MapPageIsNew ==
  ASSUME Impl!IInv, Impl!IInv', Impl!EnabledInv, Impl!MapPage
  PROVE  /\ interp' = map_insert(interp, call.vaddr, call.pte)
         /\ call.vaddr \notin DOMAIN interp
<1>1. EntrySize[layer] \in Nat \ {0} /\ EntrySize[layer] = call.pte.frame.size /\ pc = "map"
  BY CallFacts, SizeFacts DEF Impl!MapPage
<1>2. call.vaddr \in Nat
  BY <1>1, CallFacts, SystemAssumption
<1>3. overlap(MemRegion(call.vaddr, call.pte.frame.size),
              MemRegion(call.vaddr, interp[call.vaddr].frame.size))
  BY <1>1, <1>2 DEF overlap, MemRegion
<1> QED BY <1>3, ImplMapPage DEF candidate_mapping_overlaps_existing_vmem

\* The steps of the system, seen by the implementation.
LEMMA StepIsImplStep ==
  ASSUME [Next]_vars
  PROVE  [Impl!Next]_(Impl!vars)
<1>1. CASE Begin \/ Decide \/ Unmap \/ Internal \/ Return
  BY <1>1 DEF Begin, Decide, Unmap, Internal, Return, Impl!Next, Impl!Step
<1>2. CASE \/ invalidate_entry \/ UNCHANGED vars
           \/ \E vaddr \in VAddrs : TLBFill(vaddr) \/ ReadWrite(vaddr)
           \/ \E b \in DOMAIN tlb : TLBEvict(b)
  <2>1. UNCHANGED implVars
    BY <1>2 DEF invalidate_entry, vars, TLBFill, ReadWrite, TLBEvict
  <2> QED BY <2>1 DEF implVars, Impl!vars, Impl!memVars, Impl!callVars
<1> QED BY <1>1, <1>2 DEF Next

\* Every step of the system keeps the invariant of the implementation.
LEMMA ImplPartKept ==
  ASSUME SystemInv, [Next]_vars
  PROVE  Impl!IInv' /\ Impl!EnabledInv'
BY StepIsImplStep, ImplStepKeepsInv, ImplEnabledStep DEF SystemInv

\* All steps but two leave what is mapped alone.
LEMMA QuietSteps ==
  ASSUME SystemInv, [Next]_vars, ~Impl!MapPage, ~Impl!UnmapPage
  PROVE  interp' = interp
BY StepIsImplStep, ImplPartKept, ImplQuiet DEF SystemInv

\* The actions of the system that take neither of the two writes.
LEMMA QuietActions ==
  /\ Begin \/ Internal \/ Return => ~Impl!MapPage /\ ~Impl!UnmapPage
  /\ \/ Impl!MapOverlap \/ Impl!UnmapMissing \/ Impl!ResolvePage \/ Impl!ResolveEmpty
     => ~Impl!MapPage /\ ~Impl!UnmapPage
<1>1. Impl!MapPage => pc = "map" /\ ~Impl!is_mapping(Impl!entry) /\ EntrySize[layer] = call.pte.frame.size
  BY DEF Impl!MapPage
<1>2. Impl!UnmapPage => /\ pc = "unmap" /\ Impl!is_mapping(Impl!entry) /\ Impl!is_page(layer, Impl!entry)
                        /\ Impl!aligned(call.vaddr, EntrySize[layer])
  BY DEF Impl!UnmapPage
<1>3. Begin => pc = "idle"
  BY DEF Begin, Impl!Call, Impl!CallMap, Impl!CallUnmap, Impl!CallResolve, Impl!Begin
<1>4. Internal => ~Impl!MapPage /\ ~Impl!UnmapPage
  BY <1>1, <1>2 DEF Internal, Impl!MapDescend, Impl!MapAllocDir, Impl!MapLinkDir,
     Impl!UnmapDescend, Impl!UnlinkDir, Impl!KeepDir, Impl!ResolveDescend, Impl!is_dir
<1>5. Return => pc = "cleanup"
  BY DEF Return, Impl!UnmapReturn
<1>6. Impl!MapOverlap \/ Impl!UnmapMissing => ~Impl!MapPage /\ ~Impl!UnmapPage
  BY <1>1, <1>2 DEF Impl!MapOverlap, Impl!UnmapMissing
<1>7. Impl!ResolvePage \/ Impl!ResolveEmpty => pc = "resolve"
  BY DEF Impl!ResolvePage, Impl!ResolveEmpty
<1> QED BY <1>1, <1>2, <1>3, <1>4, <1>5, <1>6, <1>7

\* The machine starts with nothing cached and nothing mapped.
LEMMA InitInv == Init => SystemInv
<1> SUFFICES ASSUME Init PROVE SystemInv
  OBVIOUS
<1>1. Impl!IInv /\ Impl!EnabledInv
  BY ImplInit DEF Init
<1>2. /\ tlb = [b \in DOMAIN tlb |-> tlb[b]]
      /\ DOMAIN tlb = {} /\ DOMAIN unmapped = {} /\ unmapped = EmptyMap
  BY DEF Init, EmptyMap
<1> QED BY <1>1, <1>2 DEF SystemInv, UnmappedInv, StaleOnlyWhileUnmapping

\* What leaves the TLB leaves no stale entry behind.
LEMMA DropKeepsStale ==
  ASSUME SystemInv, NEW b, DropFromTLB(b), interp' = interp,
         unmapped' = unmapped \/ (unmapped' = EmptyMap /\ b \in DOMAIN unmapped)
  PROVE  StaleOnlyWhileUnmapping' /\ tlb' = [x \in DOMAIN tlb' |-> tlb'[x]]
<1>1. /\ DOMAIN tlb' = DOMAIN tlb \ {b}
      /\ \A x \in DOMAIN tlb \ {b} : tlb'[x] = tlb[x]
  BY RemoveFacts DEF DropFromTLB
<1>2. tlb' = [x \in DOMAIN tlb' |-> tlb'[x]]
  BY DEF DropFromTLB, map_remove, Restrict
<1>3. b \in DOMAIN unmapped => DOMAIN unmapped = {b}
  BY DEF SystemInv, UnmappedInv
<1>4. ASSUME NEW x \in DOMAIN tlb'
      PROVE  contains_pair(interp', x, tlb'[x]) \/ contains_pair(unmapped', x, tlb'[x])
  <2>1. contains_pair(interp, x, tlb[x]) \/ contains_pair(unmapped, x, tlb[x])
    BY <1>1 DEF SystemInv, StaleOnlyWhileUnmapping
  <2>2. x # b /\ tlb'[x] = tlb[x]
    BY <1>1
  <2> QED BY <1>3, <2>1, <2>2 DEF contains_pair
<1> QED BY <1>2, <1>4 DEF StaleOnlyWhileUnmapping, contains_pair

\* A step that leaves TLB, mappings and the mapping being unmapped alone.
LEMMA QuietKeepsInv ==
  ASSUME SystemInv, [Next]_vars, interp' = interp, UNCHANGED <<tlb, unmapped>>,
         unmapped # EmptyMap => pc' \in {"idle", "cleanup"}
  PROVE  SystemInv'
BY ImplPartKept
   DEF SystemInv, UnmappedInv, StaleOnlyWhileUnmapping, contains_pair,
       Impl!PT!step_Unmap_enabled

\* A call begins.
LEMMA BeginKeepsSystemInv ==
  ASSUME SystemInv, Begin
  PROVE  SystemInv'
<1>1. interp' = interp
  BY QuietSteps, QuietActions DEF Next
<1>2. UNCHANGED <<tlb, unmapped>> /\ unmapped = EmptyMap
  BY DEF Begin
<1> QED BY <1>1, <1>2, QuietKeepsInv DEF Next

\* A call other than a successful unmap is decided.
LEMMA DecideKeepsSystemInv ==
  ASSUME SystemInv, Decide
  PROVE  SystemInv'
<1>1. UNCHANGED <<mem, tlb, unmapped>>
  BY DEF Decide
<1>2. pc \notin {"idle", "cleanup"}
  BY DEF Decide, Impl!MapOverlap, Impl!MapPage, Impl!UnmapMissing,
         Impl!ResolvePage, Impl!ResolveEmpty
<1>3. unmapped = EmptyMap /\ DOMAIN unmapped = {}
  BY <1>2 DEF SystemInv, UnmappedInv, EmptyMap
<1>4. Impl!IInv' /\ Impl!EnabledInv'
  BY ImplPartKept DEF Next
<1>5. CASE Impl!MapPage
  <2>1. interp' = map_insert(interp, call.vaddr, call.pte) /\ call.vaddr \notin DOMAIN interp
    BY <1>4, <1>5, MapPageIsNew DEF SystemInv
  <2>2. \A b \in DOMAIN interp : contains_pair(interp', b, interp[b])
    BY <2>1 DEF contains_pair, map_insert
  <2>3. \A b \in DOMAIN tlb : contains_pair(interp', b, tlb[b])
    BY <1>3, <2>2 DEF SystemInv, StaleOnlyWhileUnmapping, contains_pair
  <2> QED BY <1>1, <1>3, <1>4, <2>3 DEF SystemInv, UnmappedInv, StaleOnlyWhileUnmapping
<1>6. CASE ~Impl!MapPage
  <2>1. interp' = interp
    BY <1>6, QuietSteps, QuietActions DEF Next, Decide
  <2> QED BY <1>1, <1>3, <2>1, QuietKeepsInv DEF Next
<1> QED BY <1>5, <1>6

\* unmap removes a mapping that the TLB may hold.
LEMMA UnmapKeepsSystemInv ==
  ASSUME SystemInv, Unmap
  PROVE  SystemInv'
<1>1. /\ Impl!UnmapPage /\ tlb' = tlb
      /\ unmapped' = map_insert(EmptyMap, call.vaddr, interp[call.vaddr])
  BY DEF Unmap
<1>2. pc = "unmap" /\ pc' = "cleanup"
  BY <1>1 DEF Impl!UnmapPage
<1>3. DOMAIN unmapped = {}
  BY <1>2 DEF SystemInv, UnmappedInv, EmptyMap
<1>4. Impl!IInv' /\ Impl!EnabledInv'
  BY ImplPartKept DEF Next
<1>5. interp' = map_remove(interp, call.vaddr) /\ call.vaddr \in DOMAIN interp
  BY <1>1, <1>4, ImplUnmapPage DEF SystemInv
<1>6. /\ DOMAIN interp' = DOMAIN interp \ {call.vaddr}
      /\ \A b \in DOMAIN interp \ {call.vaddr} : interp'[b] = interp[b]
  BY <1>5, RemoveFacts
<1>7. DOMAIN unmapped' = {call.vaddr} /\ unmapped'[call.vaddr] = interp[call.vaddr]
  BY <1>1 DEF map_insert, EmptyMap
<1>8. call.vaddr \in VAddrs /\ Impl!PT!step_Unmap_enabled(call.vaddr)
  BY <1>2, CallFacts DEF SystemInv
<1>9. UnmappedInv'
  BY <1>2, <1>6, <1>7, <1>8 DEF UnmappedInv, Impl!PT!step_Unmap_enabled
<1>10. StaleOnlyWhileUnmapping'
  BY <1>1, <1>3, <1>6, <1>7 DEF SystemInv, StaleOnlyWhileUnmapping, contains_pair
<1> QED BY <1>1, <1>4, <1>9, <1>10 DEF SystemInv

\* The implementation takes a step that decides nothing.
LEMMA InternalKeepsSystemInv ==
  ASSUME SystemInv, Internal
  PROVE  SystemInv'
<1>1. interp' = interp
  BY QuietSteps, QuietActions DEF Next
<1>2. UNCHANGED <<tlb, unmapped>>
  BY DEF Internal
<1>3. pc # "idle" /\ (pc = "cleanup" => pc' = "cleanup")
  BY DEF Internal, Impl!MapDescend, Impl!MapAllocDir, Impl!MapLinkDir,
     Impl!UnmapDescend, Impl!UnlinkDir, Impl!KeepDir, Impl!ResolveDescend
<1>4. unmapped # EmptyMap => pc' \in {"idle", "cleanup"}
  BY <1>3 DEF SystemInv, UnmappedInv
<1> QED BY <1>1, <1>2, <1>4, QuietKeepsInv DEF Next

\* unmap returns, with the invalidation still to come.
LEMMA ReturnKeepsSystemInv ==
  ASSUME SystemInv, Invalidates, Return
  PROVE  SystemInv'
<1>1. interp' = interp
  BY QuietSteps, QuietActions DEF Next
<1>2. UNCHANGED <<tlb, unmapped>>
  BY DEF Return
<1>3. pc' = "idle"
  BY DEF Return, Impl!UnmapReturn, Impl!Return
<1> QED BY <1>1, <1>2, <1>3, QuietKeepsInv DEF Next

\* The kernel invalidates the TLB entry after unmap.
LEMMA InvalidateKeepsSystemInv ==
  ASSUME SystemInv, invalidate_entry
  PROVE  SystemInv'
<1>1. /\ UNCHANGED implVars /\ unmapped' = EmptyMap /\ DOMAIN unmapped' = {}
  BY DEF invalidate_entry, EmptyMap
<1>2. ~Impl!MapPage /\ ~Impl!UnmapPage
  BY DEF invalidate_entry, Impl!MapPage, Impl!UnmapPage
<1>3. interp' = interp
  BY <1>2, QuietSteps DEF Next
<1>4. PICK b \in DOMAIN unmapped : DropFromTLB(b)
  BY DEF invalidate_entry
<1>5. StaleOnlyWhileUnmapping' /\ tlb' = [x \in DOMAIN tlb' |-> tlb'[x]]
  BY <1>1, <1>3, <1>4, DropKeepsStale
<1> QED BY <1>1, <1>5, ImplPartKept DEF SystemInv, UnmappedInv, Next

\* A step of the machine alone.
LEMMA MachineStep ==
  ASSUME UNCHANGED implVars, SystemInv, [Next]_vars
  PROVE  interp' = interp /\ pc' = pc
<1>1. UNCHANGED Impl!vars /\ pc' = pc
  BY DEF implVars, Impl!vars, Impl!memVars, Impl!callVars
<1>2. Impl!interp' = Impl!interp
  BY DEF implVars, Impl!interp, Impl!Slots, Impl!SlotBase, Impl!SlotPTE, Impl!EntryPTE,
         Impl!IsPageAt, Impl!view_at
<1> QED BY <1>1, <1>2 DEF interp

\* The TLB drops an entry.
LEMMA EvictKeepsSystemInv ==
  ASSUME SystemInv, NEW b \in DOMAIN tlb, TLBEvict(b)
  PROVE  SystemInv'
<1>1. UNCHANGED <<implVars, unmapped>> /\ DropFromTLB(b)
  BY DEF TLBEvict
<1>2. interp' = interp /\ pc' = pc
  BY <1>1, MachineStep DEF Next
<1>3. StaleOnlyWhileUnmapping' /\ tlb' = [x \in DOMAIN tlb' |-> tlb'[x]]
  BY <1>1, <1>2, DropKeepsStale
<1> QED BY <1>1, <1>2, <1>3, ImplPartKept
        DEF SystemInv, UnmappedInv, Next, Impl!PT!step_Unmap_enabled

\* The MMU fills the TLB with what the implementation holds mapped.
LEMMA FillIsMapped ==
  ASSUME SystemInv, NEW vaddr \in 0 .. (UpperVaddr - 1), TLBFill(vaddr)
  PROVE  \E b \in DOMAIN interp : tlb' = map_insert(tlb, b, interp[b])
<1>1. PICK w \in Impl!mmu_walk(vaddr) :
        tlb' = map_insert(tlb, w.base, [frame |-> w.frame, flags |-> w.flags])
  BY DEF TLBFill
<1>2. PICK b \in DOMAIN interp :
        w = [base |-> b, frame |-> interp[b].frame, flags |-> interp[b].flags]
  BY <1>1, ImplWalk DEF SystemInv
<1>3. interp[b] = [frame |-> w.frame, flags |-> w.flags] /\ w.base = b
  BY <1>2, InterpHoldsEntries DEF SystemInv
<1> QED BY <1>1, <1>2, <1>3

\* The MMU walks the directories as they are, and fills the TLB.
LEMMA FillKeepsSystemInv ==
  ASSUME SystemInv, NEW vaddr \in VAddrs, VAddrs \subseteq 0 .. (UpperVaddr - 1), TLBFill(vaddr)
  PROVE  SystemInv'
<1>1. UNCHANGED <<implVars, unmapped>>
  BY DEF TLBFill
<1>2. interp' = interp /\ pc' = pc
  BY <1>1, MachineStep DEF Next
<1>3. PICK b \in DOMAIN interp : tlb' = map_insert(tlb, b, interp[b])
  BY FillIsMapped
<1>4. /\ tlb' = [x \in DOMAIN tlb' |-> tlb'[x]]
      /\ DOMAIN tlb' = DOMAIN tlb \cup {b}
      /\ \A x \in DOMAIN tlb' : tlb'[x] = IF x = b THEN interp[b] ELSE tlb[x]
  BY <1>3 DEF map_insert
<1>5. StaleOnlyWhileUnmapping'
  BY <1>1, <1>2, <1>4 DEF SystemInv, StaleOnlyWhileUnmapping, contains_pair
<1> QED BY <1>1, <1>2, <1>4, <1>5, ImplPartKept
        DEF SystemInv, UnmappedInv, Next, Impl!PT!step_Unmap_enabled

\* A process loads, stores or faults.
LEMMA AccessKeepsSystemInv ==
  ASSUME SystemInv, NEW vaddr \in VAddrs, ReadWrite(vaddr)
  PROVE  SystemInv'
<1>1. UNCHANGED <<implVars, unmapped>> /\ tlb' = tlb
  BY DEF ReadWrite, HWFault, HW!HWStore, HW!HWLoad, HW!HWFault
<1>2. interp' = interp /\ pc' = pc
  BY <1>1, MachineStep DEF Next
<1> QED BY <1>1, <1>2, QuietKeepsInv DEF Next, SystemInv, UnmappedInv

\* The inductive invariant of the system holds, when the caller of unmap
\* invalidates the TLB entry.
THEOREM SystemInvariant ==
  ASSUME Invalidates, VAddrs \subseteq 0 .. (UpperVaddr - 1)
  PROVE  Spec => []SystemInv
<1>1. SystemInv /\ [Next]_vars => SystemInv'
  <2> SUFFICES ASSUME SystemInv, [Next]_vars PROVE SystemInv'
    OBVIOUS
  <2>1. CASE UNCHANGED vars
    <3>1. UNCHANGED <<implVars, tlb, unmapped>>
      BY <2>1 DEF vars
    <3>2. interp' = interp /\ pc' = pc
      BY <3>1, MachineStep
    <3> QED BY <3>1, <3>2, QuietKeepsInv DEF SystemInv, UnmappedInv
  <2> QED BY <2>1, BeginKeepsSystemInv, DecideKeepsSystemInv, UnmapKeepsSystemInv,
             InternalKeepsSystemInv, ReturnKeepsSystemInv, InvalidateKeepsSystemInv,
             FillKeepsSystemInv, AccessKeepsSystemInv, EvictKeepsSystemInv DEF Next
<1> QED BY <1>1, InitInv, PTL DEF Spec

\* If every unmap is followed by TLB::invalidate_entry, no translation outlives
\* its mapping but while the unmap that removed it is under way; between calls
\* the TLB holds what the page table holds (os.rs:39, 123-129), in spite of
\* walks between any two writes of map_frame and unmap.
THEOREM NothingStale ==
  ASSUME Invalidates, VAddrs \subseteq 0 .. (UpperVaddr - 1)
  PROVE  Spec => []StaleOnlyWhileUnmapping /\ []TLBIsSubmapBetweenCalls
<1>1. SystemInv => StaleOnlyWhileUnmapping /\ TLBIsSubmapBetweenCalls
  BY DEF SystemInv, StaleOnlyWhileUnmapping, TLBIsSubmapBetweenCalls, EmptyMap, contains_pair
<1> QED BY <1>1, SystemInvariant, PTL

(***************************************************************************)
(* The OS specification.                                                   *)
(***************************************************************************)

\* The instances of the specifications speak of the same operators.
LEMMA SameSpecs ==
  ASSUME NEW m, NEW v, NEW pte, NEW r
  PROVE  /\ OSView!PT!step_Map_enabled(m, v, pte) <=> Impl!PT!step_Map_enabled(m, v, pte)
         /\ OSView!PT!step_Unmap_enabled(v) <=> Impl!PT!step_Unmap_enabled(v)
         /\ OSView!PT!candidate_mapping_overlaps_existing_vmem(m, v, pte)
              <=> candidate_mapping_overlaps_existing_vmem(m, v, pte)
         /\ OSView!PT!Covers(m, v, r) <=> Covers(m, v, r)
         /\ OSView!PT!map_insert(m, v, pte) = map_insert(m, v, pte)
         /\ OSView!PT!map_remove(m, v) = map_remove(m, v)
<1>1. OSView!PT!step_Map_enabled(m, v, pte) <=> Impl!PT!step_Map_enabled(m, v, pte)
  BY DEF OSView!PT!step_Map_enabled, Impl!PT!step_Map_enabled,
     OSView!PT!PageSizes, Impl!PT!PageSizes, OSView!PT!Layers, Impl!PT!Layers,
     OSView!PT!aligned, Impl!PT!aligned,
     OSView!PT!candidate_mapping_in_bounds, Impl!PT!candidate_mapping_in_bounds,
     OSView!PT!UpperVaddr, Impl!PT!UpperVaddr, OSView!PT!entry_base, Impl!PT!entry_base,
     OSView!PT!candidate_mapping_overlaps_existing_pmem,
     Impl!PT!candidate_mapping_overlaps_existing_pmem, OSView!PT!overlap, Impl!PT!overlap
<1>2. OSView!PT!step_Unmap_enabled(v) <=> Impl!PT!step_Unmap_enabled(v)
  BY DEF OSView!PT!step_Unmap_enabled, Impl!PT!step_Unmap_enabled,
     OSView!PT!PageSizes, Impl!PT!PageSizes, OSView!PT!Layers, Impl!PT!Layers,
     OSView!PT!aligned, Impl!PT!aligned, OSView!PT!between, Impl!PT!between,
     OSView!PT!UpperVaddr, Impl!PT!UpperVaddr, OSView!PT!entry_base, Impl!PT!entry_base
<1>3. OSView!PT!candidate_mapping_overlaps_existing_vmem(m, v, pte)
        <=> candidate_mapping_overlaps_existing_vmem(m, v, pte)
  BY DEF OSView!PT!candidate_mapping_overlaps_existing_vmem, OSView!PT!overlap,
     candidate_mapping_overlaps_existing_vmem, overlap, OSView!PT!MemRegion, MemRegion
<1>4. OSView!PT!Covers(m, v, r) <=> Covers(m, v, r)
  BY DEF OSView!PT!Covers, Covers, OSView!PT!between, between
<1>5. OSView!PT!map_insert(m, v, pte) = map_insert(m, v, pte)
  BY DEF OSView!PT!map_insert, map_insert
<1>6. OSView!PT!map_remove(m, v) = map_remove(m, v)
  BY DEF OSView!PT!map_remove, map_remove, OSView!PT!Restrict, Restrict
<1> QED BY <1>1, <1>2, <1>3, <1>4, <1>5, <1>6

\* The accesses of processes are the same for both views of the page table.
LEMMA SameAccesses ==
  ASSUME NEW vaddr, NEW v, NEW is_exec, os_pt' = os_pt
  PROVE  /\ HW!HWStore(vaddr, v) => OSView!HWStore(vaddr, v)
         /\ HW!HWLoad(vaddr, is_exec) => OSView!HWLoad(vaddr, is_exec)
         /\ HW!HWFault(vaddr) /\ (\A b \in DOMAIN os_pt : ~Covers(os_pt, b, vaddr))
              => OSView!HWFault(vaddr)
<1>1. HW!HWStore(vaddr, v) => OSView!HWStore(vaddr, v)
  BY DEF HW!HWStore, OSView!HWStore, HW!pmem_idx, OSView!pmem_idx, HW!Covers, OSView!Covers,
     HW!between, OSView!between, HW!H!StoreObs, OSView!H!StoreObs, HW!H!Stored, OSView!H!Stored,
     HW!H!Pagefault, OSView!H!Pagefault
<1>2. HW!HWLoad(vaddr, is_exec) => OSView!HWLoad(vaddr, is_exec)
  BY DEF HW!HWLoad, OSView!HWLoad, HW!pmem_idx, OSView!pmem_idx, HW!Covers, OSView!Covers,
     HW!between, OSView!between, HW!H!LoadObs, OSView!H!LoadObs, HW!H!Value, OSView!H!Value,
     HW!H!Pagefault, OSView!H!Pagefault
<1>3. HW!HWFault(vaddr) /\ (\A b \in DOMAIN os_pt : ~Covers(os_pt, b, vaddr))
        => OSView!HWFault(vaddr)
  BY DEF HW!HWFault, OSView!HWFault, Covers, OSView!Covers,
     between, OSView!between, HW!H!LoadObs, OSView!H!LoadObs, HW!H!StoreObs, OSView!H!StoreObs,
     HW!H!Pagefault, OSView!H!Pagefault
<1> QED BY <1>1, <1>2, <1>3

\* What os.rs takes for the page table.
LEMMA OsPtFacts ==
  /\ DOMAIN os_pt = DOMAIN interp \cup (DOMAIN unmapped \cap DOMAIN tlb)
  /\ \A b \in DOMAIN interp : os_pt[b] = interp[b]
  /\ \A b \in DOMAIN unmapped \cap DOMAIN tlb : b \notin DOMAIN interp => os_pt[b] = unmapped[b]
  /\ os_pt = [b \in DOMAIN os_pt |-> os_pt[b]]
BY DEF os_pt

\* The same in the next state.
LEMMA OsPtFactsNext ==
  /\ DOMAIN os_pt' = DOMAIN interp' \cup (DOMAIN unmapped' \cap DOMAIN tlb')
  /\ \A b \in DOMAIN interp' : os_pt'[b] = interp'[b]
  /\ \A b \in DOMAIN unmapped' \cap DOMAIN tlb' : b \notin DOMAIN interp' => os_pt'[b] = unmapped'[b]
  /\ os_pt' = [b \in DOMAIN os_pt' |-> os_pt'[b]]
BY DEF os_pt

\* While no unmap is under way it is what is mapped.
LEMMA OsPtIsInterp ==
  ASSUME Impl!IInv, DOMAIN unmapped \cap DOMAIN tlb = {}
  PROVE  os_pt = interp
BY OsPtFacts, InterpHoldsEntries

\* What is mapped is a function in the next state too.
LEMMA InterpIsFunctionNext == Impl!IInv' => interp' = [b \in DOMAIN interp' |-> interp'[b]]
<1>1. Impl!IInv => (interp = [b \in DOMAIN interp |-> interp[b]])
  BY InterpHoldsEntries
<1>2. Impl!IInv' => (interp = [b \in DOMAIN interp |-> interp[b]])'
  BY <1>1, PTL
<1> QED BY <1>2

\* The same in the next state.
LEMMA OsPtIsInterpNext ==
  ASSUME Impl!IInv', DOMAIN unmapped' \cap DOMAIN tlb' = {}
  PROVE  os_pt' = interp'
BY OsPtFactsNext, InterpIsFunctionNext

\* Calls leave the TLB alone, or take an entry out of it.
LEMMA TLBMayLose ==
  ASSUME SystemInv, mem' = mem, tlb' = tlb \/ \E b : tlb' = map_remove(tlb, b)
  PROVE  OSView!PTMemOp
<1>1. \A S : Restrict(tlb, S) = OSView!Restrict(tlb, S)
  BY DEF Restrict, OSView!Restrict
<1>2. tlb = Restrict(tlb, DOMAIN tlb)
  BY DEF SystemInv, Restrict
<1> QED BY <1>1, <1>2 DEF OSView!PTMemOp, map_remove

\* The machine comes up as os.rs says.
LEMMA InitImplementsOS == Init => OSView!Init
<1> SUFFICES ASSUME Init PROVE OSView!Init
  OBVIOUS
<1>1. ImplP!PT!Init
  BY SameInit, ImplP!InitRefines, ImplAssumptions, ArchInv, SystemAssumption DEF Init
<1>2. DOMAIN interp = {} /\ result = Impl!PT!NoObs
  BY <1>1, SameInit DEF ImplP!PT!Init, ImplP!PT!EmptyMap, interp, Init, Impl!Init, Impl!InitWith
<1>3. DOMAIN unmapped = {} /\ tlb = OSView!EmptyMap
  BY DEF Init, EmptyMap, OSView!EmptyMap
<1>4. os_pt = OSView!EmptyMap
  BY <1>2, <1>3, OsPtFacts DEF OSView!EmptyMap
<1>5. obs = OSView!PT!NoObs
  BY <1>2 DEF Init, Impl!PT!NoObs, OSView!PT!NoObs
<1> QED BY <1>3, <1>4, <1>5 DEF Init, OSView!Init

\* A step that changes nothing that os.rs knows of.
LEMMA Unseen ==
  ASSUME UNCHANGED <<mem, tlb, obs>>, os_pt' = os_pt
  PROVE  UNCHANGED OSView!vars
BY DEF OSView!vars

\* So is one that changes neither memory, TLB nor mappings.
LEMMA QuietIsUnseen ==
  ASSUME interp' = interp, UNCHANGED <<mem, tlb, unmapped, obs>>
  PROVE  UNCHANGED OSView!vars
BY Unseen DEF os_pt

\* A map_frame is decided.
LEMMA MapImplements ==
  ASSUME SystemInv, Impl!IInv', Decide, Impl!MapOverlap \/ Impl!MapPage
  PROVE  OSView!step_Map(call.vaddr, call.pte) /\ call.vaddr \in VAddrs /\ call.pte \in PTEs
<1>1. UNCHANGED <<mem, tlb, unmapped>> /\ obs' = result' /\ pc = "map"
  BY DEF Decide, Impl!MapOverlap, Impl!MapPage
<1>2. DOMAIN unmapped = {} /\ DOMAIN unmapped' = {}
  BY <1>1 DEF SystemInv, UnmappedInv, EmptyMap
<1>3. os_pt = interp /\ os_pt' = interp'
  BY <1>2, OsPtIsInterp, OsPtIsInterpNext DEF SystemInv
<1>4. /\ call.vaddr \in VAddrs /\ call.pte \in PTEs
      /\ OSView!PT!step_Map_enabled(os_pt, call.vaddr, call.pte)
  BY <1>1, <1>3, CallFacts, SameSpecs DEF SystemInv
<1>5. OSView!PT!step_Map(call.vaddr, call.pte)
  <2>1. CASE Impl!MapOverlap
    <3>1. interp' = interp
      BY <2>1, QuietSteps, QuietActions DEF Next
    <3>2. candidate_mapping_overlaps_existing_vmem(interp, call.vaddr, call.pte)
      BY <2>1, ImplMapOverlap DEF SystemInv
    <3>3. obs' = OSView!PT!MapObs(call.vaddr, call.pte, OSView!PT!ErrOverlap)
      BY <1>1, <2>1 DEF Impl!MapOverlap, Impl!PT!MapObs, OSView!PT!MapObs,
         Impl!PT!ErrOverlap, OSView!PT!ErrOverlap
    <3> QED BY <1>3, <1>4, <3>1, <3>2, <3>3, SameSpecs DEF OSView!PT!step_Map
  <2>2. CASE Impl!MapPage
    <3>1. /\ interp' = map_insert(interp, call.vaddr, call.pte)
          /\ ~candidate_mapping_overlaps_existing_vmem(interp, call.vaddr, call.pte)
      BY <2>2, ImplMapPage DEF SystemInv
    <3>2. obs' = OSView!PT!MapObs(call.vaddr, call.pte, OSView!PT!Ok)
      BY <1>1, <2>2 DEF Impl!MapPage, Impl!PT!MapObs, OSView!PT!MapObs,
         Impl!PT!Ok, OSView!PT!Ok
    <3> QED BY <1>3, <1>4, <3>1, <3>2, SameSpecs DEF OSView!PT!step_Map
  <2> QED BY <2>1, <2>2
<1>6. OSView!PTMemOp
  BY <1>1, TLBMayLose
<1> QED BY <1>4, <1>5, <1>6 DEF OSView!step_Map

\* An unmap that finds nothing is decided.
LEMMA MissingImplements ==
  ASSUME SystemInv, Impl!IInv', Decide, Impl!UnmapMissing
  PROVE  OSView!step_Unmap(call.vaddr) /\ call.vaddr \in VAddrs
<1>1. UNCHANGED <<mem, tlb, unmapped>> /\ obs' = result' /\ pc = "unmap"
  BY DEF Decide, Impl!UnmapMissing
<1>2. DOMAIN unmapped = {} /\ DOMAIN unmapped' = {}
  BY <1>1 DEF SystemInv, UnmappedInv, EmptyMap
<1>3. os_pt = interp /\ os_pt' = interp'
  BY <1>2, OsPtIsInterp, OsPtIsInterpNext DEF SystemInv
<1>4. /\ call.vaddr \in VAddrs
      /\ OSView!PT!step_Unmap_enabled(call.vaddr)
  BY <1>1, <1>3, CallFacts, SameSpecs DEF SystemInv
<1>5. interp' = interp
  BY QuietSteps, QuietActions DEF Next
<1>6. call.vaddr \notin DOMAIN interp
  BY ImplUnmapMissing DEF SystemInv
<1>7. obs' = OSView!PT!UnmapObs(call.vaddr, OSView!PT!ErrNoSuchMapping)
  BY <1>1 DEF Impl!UnmapMissing, Impl!PT!UnmapObs, OSView!PT!UnmapObs,
     Impl!PT!ErrNoSuchMapping, OSView!PT!ErrNoSuchMapping
<1>8. OSView!PT!step_Unmap(call.vaddr)
  BY <1>3, <1>4, <1>5, <1>6, <1>7 DEF OSView!PT!step_Unmap
<1>9. call.vaddr \notin DOMAIN tlb'
  BY <1>1, <1>2, <1>6 DEF SystemInv, StaleOnlyWhileUnmapping, contains_pair
<1> QED BY <1>1, <1>4, <1>8, <1>9, TLBMayLose DEF OSView!step_Unmap

\* A resolve is decided.
LEMMA ResolveImplements ==
  ASSUME SystemInv, Impl!IInv', Decide, Impl!ResolvePage \/ Impl!ResolveEmpty,
         VAddrs \subseteq 0 .. (UpperVaddr - 1)
  PROVE  OSView!step_Resolve(call.vaddr) /\ call.vaddr \in VAddrs
<1>1. UNCHANGED <<mem, tlb, unmapped>> /\ obs' = result' /\ pc = "resolve"
  BY DEF Decide, Impl!ResolvePage, Impl!ResolveEmpty
<1>2. DOMAIN unmapped = {} /\ DOMAIN unmapped' = {}
  BY <1>1 DEF SystemInv, UnmappedInv, EmptyMap
<1>3. os_pt = interp /\ os_pt' = interp'
  BY <1>2, OsPtIsInterp, OsPtIsInterpNext DEF SystemInv
<1>4. call.vaddr \in VAddrs
  BY <1>1, CallFacts DEF SystemInv
<1>5. interp' = interp
  BY QuietSteps, QuietActions DEF Next
<1>6. ImplP!PT!step_Resolve(call.vaddr)
  <2>1. ImplP!IInv /\ ImplP!IInv' /\ (ImplP!ResolvePage \/ ImplP!ResolveEmpty)
    BY SameInv, SameInvNext, SameSteps DEF SystemInv
  <2> QED BY <2>1, ImplP!ResolveIsReal, ImplAssumptions, ArchInv, SystemAssumption
<1>7. ImplP!interp = os_pt
  BY <1>3, SameInit DEF interp
<1>8. \/ \E b \in DOMAIN os_pt :
           /\ ImplP!PT!Covers(os_pt, b, call.vaddr)
           /\ result' = ImplP!PT!ResolveObs(call.vaddr, ImplP!PT!Resolved(b, os_pt[b]))
      \/ /\ \A b \in DOMAIN os_pt : ~ImplP!PT!Covers(os_pt, b, call.vaddr)
         /\ result' = ImplP!PT!ResolveObs(call.vaddr, ImplP!PT!ErrUnmapped)
  BY <1>6, <1>7 DEF ImplP!PT!step_Resolve
<1>9. OSView!PT!step_Resolve(call.vaddr)
  BY <1>1, <1>3, <1>5, <1>8 DEF OSView!PT!step_Resolve, OSView!PT!Covers, ImplP!PT!Covers,
     OSView!PT!between, ImplP!PT!between, OSView!PT!ResolveObs, ImplP!PT!ResolveObs,
     OSView!PT!Resolved, ImplP!PT!Resolved, OSView!PT!ErrUnmapped, ImplP!PT!ErrUnmapped
<1> QED BY <1>1, <1>4, <1>9, TLBMayLose DEF OSView!step_Resolve

\* unmap's write takes effect when the TLB does not hold the mapping.
LEMMA UnmapImplements ==
  ASSUME SystemInv, Impl!IInv', Unmap
  PROVE  \/ OSView!step_Unmap(call.vaddr) /\ call.vaddr \in VAddrs
         \/ UNCHANGED OSView!vars
<1>1. /\ Impl!UnmapPage /\ UNCHANGED <<mem, tlb>> /\ pc = "unmap"
      /\ unmapped' = map_insert(EmptyMap, call.vaddr, interp[call.vaddr])
      /\ result' = Impl!PT!UnmapObs(call.vaddr, Impl!PT!Ok)
  BY DEF Unmap, Impl!UnmapPage
<1>2. DOMAIN unmapped = {}
  BY <1>1 DEF SystemInv, UnmappedInv, EmptyMap
<1>3. os_pt = interp
  BY <1>2, OsPtIsInterp DEF SystemInv
<1>4. interp' = map_remove(interp, call.vaddr) /\ call.vaddr \in DOMAIN interp
  BY <1>1, ImplUnmapPage DEF SystemInv
<1>5. DOMAIN unmapped' = {call.vaddr} /\ unmapped'[call.vaddr] = interp[call.vaddr]
  BY <1>1 DEF map_insert, EmptyMap
<1>6. CASE Cached(call.vaddr)
  <2>1. UNCHANGED <<mem, tlb, obs>>
    BY <1>1, <1>6 DEF Unmap
  <2>2. /\ DOMAIN interp' = DOMAIN interp \ {call.vaddr}
        /\ \A b \in DOMAIN interp \ {call.vaddr} : interp'[b] = interp[b]
    BY <1>4, RemoveFacts
  <2>3. os_pt' = os_pt
    BY <1>1, <1>3, <1>4, <1>5, <1>6, <2>2, OsPtFactsNext, OsPtFacts DEF Cached
  <2> QED BY <2>1, <2>3, Unseen
<1>7. CASE ~Cached(call.vaddr)
  <2>1. os_pt' = interp'
    BY <1>1, <1>5, <1>7, OsPtIsInterpNext DEF Cached
  <2>2. obs' = OSView!PT!UnmapObs(call.vaddr, OSView!PT!Ok)
    BY <1>1, <1>7 DEF Unmap, Impl!PT!UnmapObs, OSView!PT!UnmapObs, Impl!PT!Ok, OSView!PT!Ok
  <2>3. call.vaddr \in VAddrs /\ OSView!PT!step_Unmap_enabled(call.vaddr)
    BY <1>1, CallFacts, SameSpecs DEF SystemInv
  <2>4. OSView!PT!step_Unmap(call.vaddr)
    BY <1>3, <1>4, <2>1, <2>2, <2>3, SameSpecs DEF OSView!PT!step_Unmap
  <2> QED BY <1>1, <1>7, <2>3, <2>4, TLBMayLose DEF OSView!step_Unmap, Cached
<1> QED BY <1>6, <1>7

\* An entry leaves the TLB: the last copy of the mapping being unmapped, or
\* any other one.
LEMMA DropImplements ==
  ASSUME SystemInv, SystemInv', NEW b, DropFromTLB(b), interp' = interp, mem' = mem,
         \/ unmapped' = unmapped /\ Cached(b)
         \/ unmapped' = EmptyMap /\ b \in DOMAIN unmapped
  PROVE  \/ OSView!step_Unmap(b) /\ b \in VAddrs
         \/ OSView!TLBEvict(b) /\ b \in DOMAIN tlb
         \/ UNCHANGED OSView!vars
<1>1. /\ tlb' = map_remove(tlb, b)
      /\ DOMAIN tlb' = DOMAIN tlb \ {b}
      /\ \A x \in DOMAIN tlb \ {b} : tlb'[x] = tlb[x]
  BY RemoveFacts DEF DropFromTLB
<1>2. b \in DOMAIN unmapped =>
        /\ b \in VAddrs /\ b \notin DOMAIN interp /\ DOMAIN unmapped = {b}
        /\ OSView!PT!step_Unmap_enabled(b)
  BY SameSpecs DEF SystemInv, UnmappedInv
<1>3. DOMAIN EmptyMap = {}
  BY DEF EmptyMap
<1>4. CASE b \in DOMAIN unmapped /\ Cached(b)
  <2>1. obs' = OSView!PT!UnmapObs(b, OSView!PT!Ok)
    BY <1>4 DEF DropFromTLB, Impl!PT!UnmapObs, OSView!PT!UnmapObs, Impl!PT!Ok, OSView!PT!Ok
  <2>2. DOMAIN unmapped' \cap DOMAIN tlb' = {}
    BY <1>1, <1>2, <1>3, <1>4
  <2>3. os_pt' = interp
    BY <2>2, OsPtIsInterpNext DEF SystemInv
  <2>4. DOMAIN os_pt = DOMAIN interp \cup {b} /\ \A x \in DOMAIN interp : os_pt[x] = interp[x]
    BY <1>2, <1>4, OsPtFacts DEF Cached
  <2>5. interp = map_remove(os_pt, b)
    <3>1. DOMAIN os_pt \ {b} = DOMAIN interp
      BY <1>2, <1>4, <2>4
    <3>2. map_remove(os_pt, b) = [x \in DOMAIN interp |-> interp[x]]
      BY <2>4, <3>1 DEF map_remove, Restrict
    <3> QED BY <3>2, InterpHoldsEntries DEF SystemInv
  <2>6. OSView!PT!step_Unmap(b)
    BY <1>2, <1>4, <2>1, <2>3, <2>4, <2>5, SameSpecs DEF OSView!PT!step_Unmap
  <2>7. b \notin DOMAIN tlb'
    BY <1>1
  <2> QED BY <1>1, <1>2, <1>4, <2>6, <2>7, TLBMayLose DEF OSView!step_Unmap
<1>5. CASE b \in DOMAIN unmapped /\ ~Cached(b)
  <2>1. tlb' = tlb
    BY <1>1, <1>5 DEF Cached, map_remove, Restrict, SystemInv
  <2>2. obs' = obs
    BY <1>5 DEF DropFromTLB
  <2>3. DOMAIN unmapped \cap DOMAIN tlb = {} /\ DOMAIN unmapped' \cap DOMAIN tlb' = {}
    BY <1>1, <1>2, <1>3, <1>5 DEF Cached
  <2>4. os_pt' = os_pt
    BY <2>3, OsPtIsInterp, OsPtIsInterpNext DEF SystemInv
  <2> QED BY <2>1, <2>2, <2>4, Unseen
<1>6. CASE b \notin DOMAIN unmapped
  <2>1. unmapped' = unmapped /\ b \in DOMAIN tlb /\ obs' = obs
    BY <1>6 DEF Cached, DropFromTLB
  <2>2. DOMAIN unmapped' \cap DOMAIN tlb' = DOMAIN unmapped \cap DOMAIN tlb
    BY <1>1, <1>6, <2>1
  <2>3. os_pt' = os_pt
    BY <2>1, <2>2 DEF os_pt
  <2>4. OSView!map_remove(tlb, b) = map_remove(tlb, b)
    BY DEF OSView!map_remove, map_remove, OSView!Restrict, Restrict
  <2> QED BY <1>1, <2>1, <2>3, <2>4 DEF OSView!TLBEvict
<1> QED BY <1>4, <1>5, <1>6

\* The MMU fills the TLB.
LEMMA FillImplements ==
  ASSUME SystemInv, NEW vaddr \in VAddrs, VAddrs \subseteq 0 .. (UpperVaddr - 1), TLBFill(vaddr)
  PROVE  \E b \in DOMAIN os_pt : OSView!TLBFill(b)
<1>1. UNCHANGED <<implVars, unmapped, mem, obs>>
  BY DEF TLBFill
<1>2. interp' = interp
  BY <1>1, MachineStep DEF Next
<1>3. PICK b \in DOMAIN interp : tlb' = map_insert(tlb, b, interp[b])
  BY FillIsMapped
<1>4. b \in DOMAIN os_pt /\ os_pt[b] = interp[b] /\ b \notin DOMAIN unmapped
  BY OsPtFacts DEF SystemInv, UnmappedInv
<1>5. DOMAIN unmapped' \cap DOMAIN tlb' = DOMAIN unmapped \cap DOMAIN tlb
  BY <1>1, <1>3, <1>4 DEF map_insert
<1>6. os_pt' = os_pt
  BY <1>1, <1>2, <1>5 DEF os_pt
<1>7. tlb' = OSView!map_insert(tlb, b, os_pt[b])
  BY <1>3, <1>4 DEF map_insert, OSView!map_insert
<1> QED BY <1>1, <1>4, <1>6, <1>7 DEF OSView!TLBFill

\* A process accesses memory through the TLB, or faults on what neither a
\* walk nor the TLB finds.
LEMMA AccessImplements ==
  ASSUME SystemInv, NEW vaddr \in VAddrs, ReadWrite(vaddr)
  PROVE  \/ \E v \in Values : OSView!HWStore(vaddr, v)
         \/ \E is_exec \in BOOLEAN : OSView!HWLoad(vaddr, is_exec)
         \/ OSView!HWFault(vaddr)
<1>1. UNCHANGED <<implVars, unmapped>> /\ tlb' = tlb
  BY DEF ReadWrite, HWFault, HW!HWStore, HW!HWLoad, HW!HWFault
<1>2. interp' = interp
  BY <1>1, MachineStep DEF Next
<1>3. os_pt' = os_pt
  BY <1>1, <1>2 DEF os_pt
<1>4. HWFault(vaddr) => \A b \in DOMAIN os_pt : ~Covers(os_pt, b, vaddr)
  <2> SUFFICES ASSUME HWFault(vaddr), NEW b \in DOMAIN os_pt PROVE ~Covers(os_pt, b, vaddr)
    OBVIOUS
  <2>1. CASE b \in DOMAIN interp
    BY <2>1, OsPtFacts DEF HWFault, HW!HWFault, HW!Covers, Covers, HW!between, between
  <2>2. CASE b \notin DOMAIN interp
    <3>1. b \in DOMAIN unmapped \cap DOMAIN tlb /\ os_pt[b] = unmapped[b]
      BY <2>2, OsPtFacts
    <3>2. tlb[b] = unmapped[b]
      BY <2>2, <3>1 DEF SystemInv, StaleOnlyWhileUnmapping, contains_pair
    <3> QED BY <3>1, <3>2 DEF HWFault, Covers
  <2> QED BY <2>1, <2>2
<1>5. CASE \E v \in Values : HW!HWStore(vaddr, v)
  BY <1>3, <1>5, SameAccesses
<1>6. CASE \E is_exec \in BOOLEAN : HW!HWLoad(vaddr, is_exec)
  BY <1>3, <1>6, SameAccesses
<1>7. CASE HWFault(vaddr)
  BY <1>3, <1>4, <1>7, SameAccesses DEF HWFault
<1> QED BY <1>5, <1>6, <1>7 DEF ReadWrite

\* Every step of kernel, MMU and processes is a step of os.rs or leaves its
\* state alone.
LEMMA StepImplementsOS ==
  ASSUME SystemInv, SystemInv', [Next]_vars,
         Invalidates, VAddrs \subseteq 0 .. (UpperVaddr - 1)
  PROVE  [OSView!Next]_(OSView!vars)
<1>1. CASE Begin \/ Internal \/ Return \/ UNCHANGED vars
  <2>1. UNCHANGED <<mem, tlb, unmapped, obs>>
    BY <1>1 DEF Begin, Internal, Return, vars
  <2>2. interp' = interp
    BY <1>1, QuietSteps, QuietActions, MachineStep DEF vars
  <2> QED BY <2>1, <2>2, QuietIsUnseen
<1>2. CASE Decide
  BY <1>2, MapImplements, MissingImplements, ResolveImplements
     DEF SystemInv, Decide, OSView!Next
<1>3. CASE Unmap
  BY <1>3, UnmapImplements DEF SystemInv, OSView!Next
<1>4. CASE invalidate_entry
  <2>1. PICK b \in DOMAIN unmapped : DropFromTLB(b)
    BY <1>4 DEF invalidate_entry
  <2>2. UNCHANGED implVars /\ mem' = mem /\ unmapped' = EmptyMap
    BY <1>4 DEF invalidate_entry
  <2>3. interp' = interp
    BY <2>2, MachineStep
  <2> QED BY <2>1, <2>2, <2>3, DropImplements DEF OSView!Next, OSView!step_HW
<1>5. CASE \E vaddr \in VAddrs : TLBFill(vaddr)
  BY <1>5, FillImplements DEF OSView!Next, OSView!step_HW
<1>6. CASE \E vaddr \in VAddrs : ReadWrite(vaddr)
  BY <1>6, AccessImplements DEF OSView!Next, OSView!step_HW
<1>7. CASE \E b \in DOMAIN tlb : TLBEvict(b)
  <2>1. PICK b \in DOMAIN tlb : TLBEvict(b)
    BY <1>7
  <2>2. UNCHANGED <<implVars, mem, unmapped>> /\ Cached(b) /\ DropFromTLB(b)
    BY <2>1 DEF TLBEvict
  <2>3. interp' = interp
    BY <2>2, MachineStep
  <2> QED BY <2>2, <2>3, DropImplements DEF OSView!Next, OSView!step_HW
<1> QED BY <1>1, <1>2, <1>3, <1>4, <1>5, <1>6, <1>7 DEF Next

\* map_frame, unmap and resolve, running one memory access at a time on a
\* machine whose MMU and processes interfere at any point, implement the OS
\* specification, in which each call is one step: for every geometry, when the
\* caller of unmap invalidates the TLB entry.
THEOREM SystemImplementsOS ==
  ASSUME Invalidates, VAddrs \subseteq 0 .. (UpperVaddr - 1)
  PROVE  Spec => ImplementsOS
<1>1. SystemInv /\ SystemInv' /\ [Next]_vars => [OSView!Next]_(OSView!vars)
  BY StepImplementsOS
<1> QED BY <1>1, InitImplementsOS, SystemInvariant, PTL
        DEF Spec, ImplementsOS, OSView!Spec

(***************************************************************************)
(* The user's specification.                                               *)
(***************************************************************************)

\* The theorems about OS, for the instance OSView.
OSP == INSTANCE OS_proofs WITH pt <- os_pt

\* The assumptions of OS hold for the instance.
LEMMA OSAssumptions == OSP!PageTableEntry = PageTableEntry /\ OSP!Layers = Layers
BY DEF OSP!PageTableEntry, PageTableEntry, OSP!Flags, Flags, OSP!Layers, Layers

\* The view of os.rs is the same in OSView and OSP.
LEMMA SameOS ==
  /\ OSView!Init <=> OSP!Init
  /\ OSView!Next <=> OSP!Next
  /\ OSView!vars = OSP!vars
BY DEF OSView!Init, OSP!Init, OSView!Next, OSP!Next, OSView!vars, OSP!vars,
       OSView!EmptyMap, OSP!EmptyMap, OSView!PT!NoObs, OSP!PT!NoObs,
       OSView!step_HW, OSP!step_HW, OSView!step_Map, OSP!step_Map,
       OSView!step_Unmap, OSP!step_Unmap, OSView!step_Resolve,
       OSP!step_Resolve, OSView!PT!Init, OSP!PT!Init, OSView!HWStore,
       OSP!HWStore, OSView!HWLoad, OSP!HWLoad, OSView!HWFault, OSP!HWFault,
       OSView!TLBFill, OSP!TLBFill, OSView!TLBEvict, OSP!TLBEvict,
       OSView!PTMemOp, OSP!PTMemOp, OSView!PT!step_Map, OSP!PT!step_Map,
       OSView!PT!step_Unmap, OSP!PT!step_Unmap, OSView!PT!step_Resolve,
       OSP!PT!step_Resolve, OSView!PT!EmptyMap, OSP!PT!EmptyMap,
       OSView!pmem_idx, OSP!pmem_idx, OSView!Covers, OSP!Covers,
       OSView!H!StoreObs, OSP!H!StoreObs, OSView!H!Stored, OSP!H!Stored,
       OSView!H!Pagefault, OSP!H!Pagefault, OSView!H!LoadObs, OSP!H!LoadObs,
       OSView!H!Value, OSP!H!Value, OSView!map_insert, OSP!map_insert,
       OSView!map_remove, OSP!map_remove, OSView!PT!step_Map_enabled,
       OSP!PT!step_Map_enabled,
       OSView!PT!candidate_mapping_overlaps_existing_vmem,
       OSP!PT!candidate_mapping_overlaps_existing_vmem, OSView!PT!MapObs,
       OSP!PT!MapObs, OSView!PT!ErrOverlap, OSP!PT!ErrOverlap, OSView!PT!Ok,
       OSP!PT!Ok, OSView!PT!map_insert, OSP!PT!map_insert,
       OSView!PT!step_Unmap_enabled, OSP!PT!step_Unmap_enabled,
       OSView!PT!UnmapObs, OSP!PT!UnmapObs, OSView!PT!map_remove,
       OSP!PT!map_remove, OSView!PT!ErrNoSuchMapping, OSP!PT!ErrNoSuchMapping,
       OSView!PT!Covers, OSP!PT!Covers, OSView!PT!ResolveObs,
       OSP!PT!ResolveObs, OSView!PT!Resolved, OSP!PT!Resolved,
       OSView!PT!ErrUnmapped, OSP!PT!ErrUnmapped, OSView!between, OSP!between,
       OSView!H!Store, OSP!H!Store, OSView!H!Load, OSP!H!Load,
       OSView!PT!PageSizes, OSP!PT!PageSizes, OSView!PT!aligned,
       OSP!PT!aligned, OSView!PT!candidate_mapping_in_bounds,
       OSP!PT!candidate_mapping_in_bounds,
       OSView!PT!candidate_mapping_overlaps_existing_pmem,
       OSP!PT!candidate_mapping_overlaps_existing_pmem, OSView!PT!overlap,
       OSP!PT!overlap, OSView!PT!MemRegion, OSP!PT!MemRegion,
       OSView!PT!between, OSP!PT!between, OSView!PT!UpperVaddr,
       OSP!PT!UpperVaddr, OSView!H!pmem_idx, OSP!H!pmem_idx, OSView!H!Covers,
       OSP!H!Covers, OSView!H!map_insert, OSP!H!map_insert, OSView!PT!Layers,
       OSP!PT!Layers, OSView!PT!entry_base, OSP!PT!entry_base,
       OSView!H!between, OSP!H!between, OSView!Restrict, OSP!Restrict,
       OSView!PT!Restrict, OSP!PT!Restrict

\* So is the user's specification.
LEMMA SameUserSpec ==
  /\ OSView!High!Init <=> OSP!High!Init
  /\ OSView!High!Next <=> OSP!High!Next
  /\ OSView!High!vars = OSP!High!vars
BY DEF OSView!High!Init, OSP!High!Init, OSView!High!Next, OSP!High!Next,
       OSView!High!vars, OSP!High!vars, OSView!interp_vmem, OSP!interp_vmem,
       OSView!effective_mappings, OSP!effective_mappings,
       OSView!High!EmptyMap, OSP!High!EmptyMap, OSView!High!PT!NoObs,
       OSP!High!PT!NoObs, OSView!High!Store, OSP!High!Store, OSView!High!Load,
       OSP!High!Load, OSView!High!Fault, OSP!High!Fault, OSView!High!step_Map,
       OSP!High!step_Map, OSView!High!step_Unmap, OSP!High!step_Unmap,
       OSView!High!step_Resolve, OSP!High!step_Resolve, OSView!Covers,
       OSP!Covers, OSView!H!mem_domain_from_mappings,
       OSP!H!mem_domain_from_mappings, OSView!pmem_idx, OSP!pmem_idx,
       OSView!High!PT!Init, OSP!High!PT!Init, OSView!High!pmem_idx,
       OSP!High!pmem_idx, OSView!High!Covers, OSP!High!Covers,
       OSView!High!StoreObs, OSP!High!StoreObs, OSView!High!Stored,
       OSP!High!Stored, OSView!High!map_insert, OSP!High!map_insert,
       OSView!High!Pagefault, OSP!High!Pagefault, OSView!High!LoadObs,
       OSP!High!LoadObs, OSView!High!Value, OSP!High!Value,
       OSView!High!mem_domain_from_mappings_contains,
       OSP!High!mem_domain_from_mappings_contains,
       OSView!High!PT!step_Map_enabled, OSP!High!PT!step_Map_enabled,
       OSView!High!candidate_mapping_overlaps_existing_vmem,
       OSP!High!candidate_mapping_overlaps_existing_vmem,
       OSView!High!PT!MapObs, OSP!High!PT!MapObs, OSView!High!PT!ErrOverlap,
       OSP!High!PT!ErrOverlap, OSView!High!PT!Ok, OSP!High!PT!Ok,
       OSView!High!mem_domain_from_mappings,
       OSP!High!mem_domain_from_mappings, OSView!High!PT!step_Unmap_enabled,
       OSP!High!PT!step_Unmap_enabled, OSView!High!PT!UnmapObs,
       OSP!High!PT!UnmapObs, OSView!High!map_remove, OSP!High!map_remove,
       OSView!High!PT!ErrNoSuchMapping, OSP!High!PT!ErrNoSuchMapping,
       OSView!High!PT!ResolveObs, OSP!High!PT!ResolveObs,
       OSView!High!PT!Resolved, OSP!High!PT!Resolved,
       OSView!High!PT!ErrUnmapped, OSP!High!PT!ErrUnmapped, OSView!between,
       OSP!between, OSView!H!UpperVaddr, OSP!H!UpperVaddr,
       OSView!H!mem_domain_from_mappings_contains,
       OSP!H!mem_domain_from_mappings_contains, OSView!High!PT!EmptyMap,
       OSP!High!PT!EmptyMap, OSView!High!between, OSP!High!between,
       OSView!High!PT!PageSizes, OSP!High!PT!PageSizes,
       OSView!High!PT!aligned, OSP!High!PT!aligned,
       OSView!High!PT!candidate_mapping_in_bounds,
       OSP!High!PT!candidate_mapping_in_bounds,
       OSView!High!PT!candidate_mapping_overlaps_existing_pmem,
       OSP!High!PT!candidate_mapping_overlaps_existing_pmem,
       OSView!High!overlap, OSP!High!overlap, OSView!High!MemRegion,
       OSP!High!MemRegion, OSView!High!UpperVaddr, OSP!High!UpperVaddr,
       OSView!High!PT!between, OSP!High!PT!between, OSView!High!PT!UpperVaddr,
       OSP!High!PT!UpperVaddr, OSView!H!entry_base, OSP!H!entry_base,
       OSView!H!Covers, OSP!H!Covers, OSView!H!pmem_idx, OSP!H!pmem_idx,
       OSView!High!PT!Layers, OSP!High!PT!Layers, OSView!High!PT!overlap,
       OSP!High!PT!overlap, OSView!High!entry_base, OSP!High!entry_base,
       OSView!High!PT!entry_base, OSP!High!PT!entry_base, OSView!H!between,
       OSP!H!between, OSView!High!Restrict, OSP!High!Restrict

\* From directories in memory up to what a user sees: were every unmap followed
\* by TLB::invalidate_entry, which no code does yet (l2_impl.rs:2363), the
\* machine with the page table implementation would implement the user's
\* specification (hlspec.rs). The refinement of os.rs and that of
\* os_refinement.rs, one upon the other.
THEOREM SystemImplementsUserSpec ==
  ASSUME Invalidates, VAddrs \subseteq 0 .. (UpperVaddr - 1)
  PROVE  Spec => OSView!ImplementsHighSpec
<1>1. OSView!Spec <=> OSP!Spec
  <2>1. [OSView!Next]_(OSView!vars) <=> [OSP!Next]_(OSP!vars)
    BY SameOS DEF OSView!vars, OSP!vars
  <2>2. OSView!Init <=> OSP!Init
    BY SameOS
  <2> QED BY <2>1, <2>2, PTL DEF OSView!Spec, OSP!Spec
<1>2. OSP!Spec => OSP!ImplementsHighSpec
  BY OSP!OSRefinesHighSpec, OSAssumptions, ArchInv, SystemAssumption
<1>3. OSP!ImplementsHighSpec <=> OSView!ImplementsHighSpec
  <2>1. [OSView!High!Next]_(OSView!High!vars) <=> [OSP!High!Next]_(OSP!High!vars)
    <3>1. OSView!High!vars = OSP!High!vars
      BY SameUserSpec
    <3>2. (OSView!High!vars = OSP!High!vars)'
      BY <3>1, PTL
    <3> QED BY <3>1, <3>2, SameUserSpec
  <2>2. OSView!High!Init <=> OSP!High!Init
    BY SameUserSpec
  <2> QED BY <2>1, <2>2, PTL
          DEF OSView!ImplementsHighSpec, OSP!ImplementsHighSpec, OSView!High!Spec, OSP!High!Spec
<1> QED BY <1>1, <1>2, <1>3, SystemImplementsOS DEF ImplementsOS
=============================================================================
