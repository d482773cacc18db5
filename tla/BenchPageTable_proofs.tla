----------------------- MODULE BenchPageTable_proofs -----------------------
(***************************************************************************)
(* The benchmarked page table does what it answers, for every geometry,    *)
(* any number of pages and any order of calls to addresses inside the      *)
(* address space, for as long as no page of the allocator, the root        *)
(* included, has come with an entry that reads as present (clean).  The    *)
(* benchmark's own allocator does not promise that.  Nothing else is asked *)
(* of callers, and unmap_noreclaim may leave empty directories: the walks  *)
(* rest on WalkInv alone, and so do the lemmas of PageTableImpl_proofs     *)
(* that are cited here.                                                    *)
(***************************************************************************)
EXTENDS BenchPageTable, PageTableImpl_proofs

\* The addresses that are mapped, unmapped and resolved.
BenchRuns ==
  /\ VAddrs \subseteq 0 .. (UpperVaddr - 1)
  /\ ResolveVAddrs \subseteq 0 .. (UpperVaddr - 1)

\* Expanded wherever they occur, to the end of the module.
USE DEF view_at, IsDirAt, IsPageAt, is_mapping, is_dir, is_page

(***************************************************************************)
(* The tree and the walks.                                                 *)
(***************************************************************************)

\* The allocator returns pages, whatever is in them.
LEMMA FreshPagesArePages == FreshPages \subseteq [EntryIndices -> PDE]
BY FreshPagesAssumption DEF PDE

\* A root in which nothing is present, of which nothing has been reported.
LEMMA BenchInitEstablishes == BenchInit => BenchInv
<1> SUFFICES ASSUME BenchInit, clean PROVE CleanInv
  BY DEF BenchInv
<1>1. PICK page \in FreshPages : InitWith(page) /\ clean = NothingPresent(page)
  BY DEF BenchInit
<1>2. page \in [EntryIndices -> PDE]
  BY FreshPagesArePages
<1>3. \A i \in EntryIndices : ~page[i].P
  BY <1>1 DEF NothingPresent
<1>4. WalkInv
  BY <1>1, <1>2, <1>3, EmptyRootEstablishes, InvWalks
<1>5. pc = "idle" /\ ledger = EmptyMap /\ obs.op = "Init"
  BY <1>1 DEF BenchInit, InitWith, PT!NoObs
<1>6. DOMAIN ledger = {}
  BY <1>5 DEF EmptyMap
<1> QED BY <1>4, <1>5, <1>6 DEF CleanInv, LedgerIsMapped, LastAnswerStands

\* Once a page has come with a present entry, it has.
LEMMA CleanBefore ==
  ASSUME [BenchNext]_benchVars, clean'
  PROVE  clean
<1>1. CASE \/ \E vaddr \in VAddrs : \E pte \in PTEs : CallMapFrame(vaddr, pte)
           \/ \E vaddr \in VAddrs : \E op \in {"Unmap", "UnmapNoReclaim"} :
                CallUnmapPage(op, vaddr)
  BY <1>1 DEF CallMapFrame, CallUnmapPage
<1>2. CASE \E vaddr \in ResolveVAddrs : CallResolve(vaddr) /\ UNCHANGED <<ledger, clean>>
  BY <1>2
<1>3. CASE MapExisting \/ MapOccupied \/ MapNewPage \/ UnmapReclaim \/ UnmapNoReclaim
           \/ ResolveAddress
  BY <1>3 DEF MapExisting, MapOccupied, MapNewPage, UnmapReclaim, UnmapNoReclaim, ClearPage,
              ResolveAddress
<1>4. CASE MapNewDir
  BY <1>4 DEF MapNewDir, pt_allocator
<1>5. CASE Inherited \/ UNCHANGED benchVars
  BY <1>5 DEF Inherited, benchVars
<1> QED BY <1>1, <1>2, <1>3, <1>4, <1>5 DEF BenchNext

\* A new directory in which nothing is present.
LEMMA NewDirFacts ==
  ASSUME WalkInv, MapNewDir, clean'
  PROVE  /\ WalkInv'
         /\ \A x \in used_regions : region_view'[x] = region_view[x]
<1>1. PICK r \in Regions : pt_allocator(r) /\ new_dir' = r
  BY DEF MapNewDir
<1>2. PICK page \in FreshPages :
        /\ region_view' = [region_view EXCEPT ![r] = page]
        /\ clean' = (clean /\ NothingPresent(page))
  BY <1>1 DEF pt_allocator
<1>3. r \in Regions \ regions /\ regions' = regions \cup {r}
  BY <1>1 DEF pt_allocator
<1>4. page \in [EntryIndices -> PDE] /\ \A i \in EntryIndices : ~page[i].P
  BY <1>2, FreshPagesArePages DEF NothingPresent
<1>5. /\ pc = "map" /\ ~is_mapping(entry) /\ EntrySize[layer] # call.pte.frame.size
      /\ pc' = "link" /\ UNCHANGED <<ghost_pt, call, layer, path>>
  BY DEF MapNewDir
<1> QED BY <1>1, <1>2, <1>3, <1>4, <1>5, NewDirKeepsWalk

\* map_frame is called.
LEMMA CallMapFrameKeepsWalk ==
  ASSUME WalkInv, NEW vaddr \in VAddrs, NEW pte \in PTEs, CallMapFrame(vaddr, pte)
  PROVE  WalkInv'
<1> DEFINE c == [op |-> "Map", vaddr |-> vaddr, pte |-> pte]
<1>1. /\ pte.frame.size \in PageSizes
      /\ aligned(vaddr, pte.frame.size)
      /\ aligned(pte.frame.base, pte.frame.size)
      /\ vaddr + pte.frame.size <= UpperVaddr
      /\ Begin("map", c)
  BY DEF CallMapFrame
<1>2. pc' = "map" /\ call' = c /\ layer' = layer /\ layer = 0
  BY <1>1 DEF Begin, WalkInv, ArgsInv
<1>3. PICK l \in Layers \ {0} : pte.frame.size = EntrySize[l]
  BY <1>1 DEF PageSizes
<1>4. l >= 0
  BY SizeFacts
<1>5. ArgsInv'
  BY <1>1, <1>2, <1>3, <1>4 DEF ArgsInv
<1> HIDE DEF c
<1> QED BY <1>1, <1>5, BeginKeepsWalk

\* unmap or unmap_noreclaim is called.
LEMMA CallUnmapPageKeepsWalk ==
  ASSUME BenchRuns, WalkInv, NEW vaddr \in VAddrs, NEW op, CallUnmapPage(op, vaddr)
  PROVE  WalkInv'
<1> DEFINE c == [op |-> op, vaddr |-> vaddr]
<1>1. Begin("unmap", c)
  BY DEF CallUnmapPage
<1>2. pc' = "unmap" /\ call' = c
  BY <1>1 DEF Begin
<1>3. vaddr < UpperVaddr
  BY GeometryFacts DEF BenchRuns
<1>4. ArgsInv'
  BY <1>2, <1>3 DEF ArgsInv
<1> HIDE DEF c
<1> QED BY <1>1, <1>4, BeginKeepsWalk

\* resolve is called.
LEMMA CallResolveKeepsWalk ==
  ASSUME WalkInv, NEW vaddr \in ResolveVAddrs, CallResolve(vaddr)
  PROVE  WalkInv'
<1> DEFINE c == [op |-> "Resolve", vaddr |-> vaddr]
<1>1. Begin("resolve", c)
  BY DEF CallResolve
<1>2. pc' = "resolve" /\ call' = c /\ layer' = layer /\ layer = 0
  BY <1>1 DEF Begin, WalkInv, ArgsInv
<1>3. ArgsInv'
  BY <1>2 DEF ArgsInv
<1> HIDE DEF c
<1> QED BY <1>1, <1>3, BeginKeepsWalk

\* unmap clears the entry of a page and goes back up; unmap_noreclaim clears
\* it and returns, whatever it leaves of the directory.
LEMMA ClearingKeepsWalk ==
  ASSUME WalkInv, UnmapReclaim \/ UnmapNoReclaim
  PROVE  WalkInv'
<1>1. /\ pc = "unmap" /\ is_page(layer, entry)
      /\ write(ptr, idx, ZeroEntry) /\ UNCHANGED <<regions, ghost_pt>>
  BY DEF UnmapReclaim, UnmapNoReclaim, ClearPage
<1>2. CASE UnmapReclaim
  <2>1. pc' = "cleanup" /\ UNCHANGED <<call, layer, path, new_dir>>
    BY <1>2 DEF UnmapReclaim
  <2> QED BY <1>1, <2>1, ClearEntryKeepsWalk
<1>3. CASE UnmapNoReclaim
  <2>1. Return
    BY <1>3 DEF UnmapNoReclaim
  <2>2. TreeInv' /\ region_view' \in [Regions -> [EntryIndices -> PDE]]
    BY <1>1, ClearEntryKeepsTree
  <2>3. TypeOK'
    BY <1>1, <2>1, <2>2, ReturnType DEF WalkInv
  <2> QED BY <2>1, <2>2, <2>3, ReturnKeepsWalk
<1> QED BY <1>2, <1>3

\* The answers that are given without a write.
LEMMA QuietAnswer ==
  ASSUME MapExisting \/ MapOccupied \/ UnmapMissing \/ UnmapReturn
           \/ ResolveAddress \/ ResolveEmpty
  PROVE  Return /\ UNCHANGED memVars
BY DEF MapExisting, MapOccupied, MapFound, UnmapMissing, UnmapReturn, ResolveAddress,
       ResolveEmpty, memVars

\* A step of something else.
LEMMA StutterKeepsWalk ==
  ASSUME WalkInv, UNCHANGED vars
  PROVE  WalkInv'
<1>1. /\ UNCHANGED <<region_view, regions, ghost_pt>> /\ UNCHANGED memVars
      /\ UNCHANGED <<pc, call, layer, path, new_dir>>
  BY DEF vars, memVars, callVars
<1>2. TypeOK' /\ TreeInv'
  BY <1>1, ReadOnlyKeepsTree DEF WalkInv, TypeOK, used_regions
<1>3. ArgsInv' /\ LinkInv'
  BY <1>1 DEF WalkInv, ArgsInv, LinkInv, used_regions, entry, ptr, idx, is_directory_empty
<1>4. PathIsChain'
  BY <1>1 DEF WalkInv, PathIsChain
<1> QED BY <1>2, <1>3, <1>4 DEF WalkInv

\* Every step that brings no present entry keeps what the walks rest on.
LEMMA BenchStepKeepsWalk ==
  ASSUME BenchRuns, WalkInv, [BenchNext]_benchVars, clean'
  PROVE  WalkInv'
<1>1. CASE \E vaddr \in VAddrs : \E pte \in PTEs : CallMapFrame(vaddr, pte)
  BY <1>1, CallMapFrameKeepsWalk
<1>2. CASE \E vaddr \in VAddrs : \E op \in {"Unmap", "UnmapNoReclaim"} : CallUnmapPage(op, vaddr)
  BY <1>2, CallUnmapPageKeepsWalk
<1>3. CASE \E vaddr \in ResolveVAddrs : CallResolve(vaddr) /\ UNCHANGED <<ledger, clean>>
  BY <1>3, CallResolveKeepsWalk
<1>4. CASE MapExisting \/ MapOccupied \/ UnmapMissing \/ UnmapReturn
           \/ ResolveAddress \/ ResolveEmpty
  BY <1>4, QuietAnswer, QuietReturnKeepsWalk
<1>5. CASE MapNewPage \/ MapNewDir
  BY <1>5, MapPageKeepsWalk, NewDirFacts DEF MapNewPage
<1>6. CASE UnmapReclaim \/ UnmapNoReclaim
  BY <1>6, ClearingKeepsWalk
<1>7. CASE MapDescend \/ MapLinkDir \/ UnmapDescend \/ ResolveDescend
  BY <1>7, MapDescendKeepsWalk, MapLinkDirKeepsWalk, UnmapDescendKeepsWalk,
     ResolveDescendKeepsWalk
<1>8. CASE UnlinkDir \/ KeepDir
  BY <1>8, UnlinkDirKeepsWalk, KeepDirKeepsWalk
<1>9. CASE UNCHANGED benchVars
  BY <1>9, StutterKeepsWalk DEF benchVars
<1> QED BY <1>1, <1>2, <1>3, <1>4, <1>5, <1>6, <1>7, <1>8, <1>9 DEF BenchNext, Inherited

(***************************************************************************)
(* What the calls find and write.                                          *)
(***************************************************************************)

\* The operation of a running call.
LEMMA OpOfCall ==
  ASSUME CleanInv
  PROVE  /\ pc \in {"map", "link"} => call.op = "Map"
         /\ pc \in {"unmap", "cleanup"} => call.op \in {"Unmap", "UnmapNoReclaim"}
         /\ pc = "resolve" => call.op = "Resolve"
BY DEF CleanInv, WalkInv, ArgsInv

\* No call leaves the address space.
LEMMA CallStaysInRange ==
  ASSUME BenchRuns, WalkInv, pc # "idle"
  PROVE  call.vaddr \in Nat /\ call.vaddr < UpperVaddr
<1>1. CASE pc = "resolve"
  <2>1. call.vaddr \in ResolveVAddrs
    BY <1>1 DEF WalkInv, ArgsInv
  <2>2. call.vaddr \in 0 .. (UpperVaddr - 1)
    BY <2>1 DEF BenchRuns
  <2> QED BY <2>2, GeometryFacts
<1>2. CASE pc # "resolve"
  BY <1>2, CallInRange
<1> QED BY <1>1, <1>2

\* The page at the entry for the address is the mapping that covers it.
LEMMA CurrentMapping ==
  ASSUME WalkInv, pc # "idle", call.vaddr \in Nat, call.vaddr < UpperVaddr,
         is_mapping(entry), is_page(layer, entry)
  PROVE  LET b == entry_base(layer, path[layer].base, idx)
         IN /\ b \in DOMAIN interp /\ Covers(interp, b, call.vaddr)
            /\ interp[b].frame = MemRegion(entry.addr, EntrySize[layer])
            /\ aligned(call.vaddr, EntrySize[layer]) => b = call.vaddr
<1> DEFINE b == entry_base(layer, path[layer].base, idx)
<1>1. InEntry(call.vaddr, ptr, idx)
  BY CurrentFrame
<1>2. /\ <<ptr, idx>> \in Slots /\ SlotBase(<<ptr, idx>>) = b
      /\ SlotPTE(<<ptr, idx>>) = EntryPTE(layer, entry)
  BY CurrentSlot
<1>3. <<ptr, idx>>[1] = ptr /\ <<ptr, idx>>[2] = idx
  OBVIOUS
<1>4. InterpMatches
  BY InterpFacts DEF WalkInv
<1> HIDE DEF b
<1>5. b \in DOMAIN interp /\ interp[b] = EntryPTE(layer, entry)
  BY <1>2, <1>4 DEF InterpMatches
<1>6. Covers(interp, b, call.vaddr)
  <2>1. /\ SlotPTE(<<ptr, idx>>).frame.size = EntrySize[ghost_pt[ptr].layer]
        /\ between(call.vaddr, b, b + EntrySize[ghost_pt[ptr].layer])
    BY <1>1, <1>2, <1>3, SlotFacts DEF WalkInv
  <2> QED BY <1>2, <1>5, <2>1 DEF Covers
<1>7. interp[b].frame = MemRegion(entry.addr, EntrySize[layer])
  BY <1>5 DEF EntryPTE
<1>8. aligned(call.vaddr, EntrySize[layer]) => b = call.vaddr
  BY EntryIsAtAddress DEF b
<1> QED BY <1>5, <1>6, <1>7, <1>8 DEF b

\* Where the walk ends at an empty entry, nothing covers the address.
LEMMA NothingCovers ==
  ASSUME WalkInv, pc # "idle", call.vaddr \in Nat, call.vaddr < UpperVaddr,
         ~is_mapping(entry), NEW b \in DOMAIN interp
  PROVE  ~Covers(interp, b, call.vaddr)
<1> SUFFICES ASSUME Covers(interp, b, call.vaddr) PROVE FALSE
  OBVIOUS
<1>1. InterpMatches
  BY InterpFacts DEF WalkInv
<1>2. PICK s \in Slots : b = SlotBase(s)
  BY <1>1 DEF InterpMatches
<1>3. InEntry(call.vaddr, s[1], s[2])
  <2>1. interp[b].frame.size = EntrySize[ghost_pt[s[1]].layer]
    BY <1>1, <1>2, SlotFacts DEF InterpMatches, WalkInv
  <2> QED BY <1>2, <2>1, SlotFacts DEF WalkInv, Covers
<1>4. s = <<ptr, idx>>
  BY <1>3, CurrentFrame, OnlyCurrentSlot
<1> QED BY <1>4, CurrentSlot

\* A mapping that has been inserted.
LEMMA InsertFacts ==
  ASSUME NEW m, NEW b, NEW pte
  PROVE  /\ DOMAIN map_insert(m, b, pte) = DOMAIN m \cup {b}
         /\ map_insert(m, b, pte)[b] = pte
         /\ \A v \in DOMAIN m \ {b} : map_insert(m, b, pte)[v] = m[v]
BY DEF map_insert

\* The steps that decide no result leave the mappings, the last answer and the
\* ledger alone.
LEMMA UndecidedStep ==
  ASSUME BenchRuns, WalkInv, WalkInv', [BenchNext]_benchVars, clean',
         ~(MapExisting \/ MapOccupied \/ MapNewPage), ~(UnmapReclaim \/ UnmapNoReclaim),
         ~(UnmapMissing /\ UNCHANGED <<ledger, clean>>),
         ~((ResolveAddress \/ ResolveEmpty) /\ UNCHANGED <<ledger, clean>>)
  PROVE  interp' = interp /\ obs' = obs /\ ledger' = ledger
<1>1. CASE \E vaddr \in VAddrs : \E pte \in PTEs : CallMapFrame(vaddr, pte)
  <2>1. UNCHANGED <<memVars, obs, ledger>>
    BY <1>1 DEF CallMapFrame, Begin
  <2> QED BY <2>1, SameMemory
<1>2. CASE \E vaddr \in VAddrs : \E op \in {"Unmap", "UnmapNoReclaim"} : CallUnmapPage(op, vaddr)
  <2>1. UNCHANGED <<memVars, obs, ledger>>
    BY <1>2 DEF CallUnmapPage, Begin
  <2> QED BY <2>1, SameMemory
<1>3. CASE \E vaddr \in ResolveVAddrs : CallResolve(vaddr) /\ UNCHANGED <<ledger, clean>>
  <2>1. UNCHANGED <<memVars, obs, ledger>>
    BY <1>3 DEF CallResolve, Begin
  <2> QED BY <2>1, SameMemory
<1>4. CASE MapNewDir
  <2>1. UNCHANGED <<ghost_pt, obs, ledger>>
    BY <1>4 DEF MapNewDir
  <2> QED BY <1>4, <2>1, NewDirFacts, OtherPagesKeepInterp
<1>5. CASE (MapLinkDir \/ UnlinkDir) /\ UNCHANGED <<ledger, clean>>
  BY <1>5, LinkKeepsInterp, UnlinkKeepsInterp DEF MapLinkDir, UnlinkDir
<1>6. CASE /\ MapDescend \/ UnmapDescend \/ KeepDir \/ UnmapReturn \/ ResolveDescend
           /\ UNCHANGED <<ledger, clean>>
  <2>1. UNCHANGED <<memVars, obs, ledger>>
    BY <1>6 DEF MapDescend, UnmapDescend, KeepDir, UnmapReturn, ResolveDescend
  <2> QED BY <2>1, SameMemory
<1>7. CASE UNCHANGED benchVars
  <2>1. UNCHANGED <<memVars, obs, ledger>>
    BY <1>7 DEF benchVars, vars
  <2> QED BY <2>1, SameMemory
<1> QED BY <1>1, <1>2, <1>3, <1>4, <1>5, <1>6, <1>7 DEF BenchNext, Inherited, ResolveAddress

\* map_frame reports a frame that is there already.
LEMMA ExistingAnswer ==
  ASSUME WalkInv, WalkInv', MapExisting
  PROVE  /\ pc = "map" /\ interp' = interp
         /\ obs' = PT!MapObs(call.vaddr, call.pte, PT!Ok)
         /\ \E b \in DOMAIN interp :
              Covers(interp, b, call.vaddr) /\ interp[b].frame.base = call.pte.frame.base
         /\ \/ ledger' = ledger
            \/ /\ ledger' = map_insert(ledger, call.vaddr, call.pte.frame)
               /\ call.vaddr \in DOMAIN interp
               /\ interp[call.vaddr].frame = call.pte.frame
<1>1. /\ pc = "map" /\ is_mapping(entry) /\ is_page(layer, entry)
      /\ entry.addr = call.pte.frame.base
      /\ obs' = PT!MapObs(call.vaddr, call.pte, PT!Ok)
      /\ UNCHANGED memVars
      /\ ledger' = IF EntrySize[layer] = call.pte.frame.size
                   THEN map_insert(ledger, call.vaddr, call.pte.frame) ELSE ledger
  BY DEF MapExisting, MapFound
<1>2. interp' = interp
  BY <1>1, SameMemory
<1>3. /\ call.vaddr \in Nat /\ call.vaddr < UpperVaddr /\ call.pte \in PageTableEntry
      /\ aligned(call.vaddr, call.pte.frame.size)
  BY <1>1, MapFrame
<1> DEFINE b == entry_base(layer, path[layer].base, idx)
<1>4. /\ b \in DOMAIN interp /\ Covers(interp, b, call.vaddr)
      /\ interp[b].frame = MemRegion(entry.addr, EntrySize[layer])
      /\ aligned(call.vaddr, EntrySize[layer]) => b = call.vaddr
  BY <1>1, <1>3, CurrentMapping
<1> HIDE DEF b
<1>5. interp[b].frame.base = call.pte.frame.base
  BY <1>1, <1>4 DEF MemRegion
<1>6. ASSUME EntrySize[layer] = call.pte.frame.size
      PROVE  call.vaddr \in DOMAIN interp /\ interp[call.vaddr].frame = call.pte.frame
  <2>1. b = call.vaddr
    BY <1>3, <1>4, <1>6
  <2>2. call.pte.frame = MemRegion(call.pte.frame.base, call.pte.frame.size)
    BY <1>3 DEF PageTableEntry, MemRegion
  <2> QED BY <1>1, <1>4, <1>6, <2>1, <2>2
<1> QED BY <1>1, <1>2, <1>4, <1>5, <1>6

\* map_frame maps a frame where nothing was mapped.
LEMMA NewPageAnswer ==
  ASSUME WalkInv, WalkInv', MapNewPage
  PROVE  /\ pc = "map"
         /\ obs' = PT!MapObs(call.vaddr, call.pte, PT!Ok)
         /\ interp' = map_insert(interp, call.vaddr, call.pte)
         /\ ~candidate_mapping_overlaps_existing_vmem(interp, call.vaddr, call.pte)
         /\ \A b \in DOMAIN interp : ~Covers(interp, b, call.vaddr)
         /\ Covers(interp', call.vaddr, call.vaddr)
         /\ ledger' = map_insert(ledger, call.vaddr, call.pte.frame)
<1>1. /\ MapPage /\ pc = "map" /\ ~is_mapping(entry)
      /\ EntrySize[layer] = call.pte.frame.size
      /\ obs' = PT!MapObs(call.vaddr, call.pte, PT!Ok)
      /\ ledger' = map_insert(ledger, call.vaddr, call.pte.frame)
  BY DEF MapNewPage, MapPage
<1>2. /\ interp' = map_insert(interp, call.vaddr, call.pte)
      /\ ~candidate_mapping_overlaps_existing_vmem(interp, call.vaddr, call.pte)
  BY <1>1, MapPageInserts
<1>3. call.vaddr \in Nat /\ call.vaddr < UpperVaddr
  BY <1>1, MapFrame
<1>4. \A b \in DOMAIN interp : ~Covers(interp, b, call.vaddr)
  BY <1>1, <1>3, NothingCovers
<1>5. Covers(interp', call.vaddr, call.vaddr)
  <2>1. call.pte.frame.size \in Nat \ {0}
    BY <1>1, SizeFacts DEF WalkInv, TypeOK
  <2>2. interp'[call.vaddr] = call.pte
    BY <1>2 DEF map_insert
  <2> QED BY <1>3, <2>1, <2>2 DEF Covers, between
<1> QED BY <1>1, <1>2, <1>4, <1>5

\* map_frame refuses a page where something is mapped, and a large page where
\* a directory is, which holds a page or is, or leads to, an empty directory
\* that this call has not made.
LEMMA OccupiedAnswer ==
  ASSUME WalkInv, WalkInv', MapOccupied
  PROVE  /\ pc = "map" /\ interp' = interp /\ ledger' = ledger
         /\ obs' = PT!MapObs(call.vaddr, call.pte, PT!ErrOverlap)
         /\ \/ candidate_mapping_overlaps_existing_vmem(interp, call.vaddr, call.pte)
            \/ \E r \in Abandoned :
                 between(ghost_pt[r].base, call.vaddr, call.vaddr + call.pte.frame.size)
<1>1. /\ pc = "map" /\ is_mapping(entry)
      /\ is_dir(layer, entry) => EntrySize[layer] = call.pte.frame.size
      /\ obs' = PT!MapObs(call.vaddr, call.pte, PT!ErrOverlap)
      /\ UNCHANGED <<memVars, ledger, clean>>
  BY DEF MapOccupied, MapFound
<1>2. interp' = interp
  BY <1>1, SameMemory
<1>3. /\ call.vaddr \in Nat /\ call.vaddr < UpperVaddr
      /\ aligned(call.vaddr, call.pte.frame.size)
  BY <1>1, MapFrame
<1>4. CASE is_page(layer, entry)
  BY <1>1, <1>2, <1>4, PageIsInTheWay
<1>5. CASE is_dir(layer, entry)
  <2>1. EntrySize[layer] = call.pte.frame.size
    BY <1>1, <1>5
  <2>2. /\ ptr \in used_regions /\ idx \in EntryIndices /\ layer \in Layers
        /\ ghost_pt[ptr].layer = layer /\ ghost_pt[ptr].base = path[layer].base
        /\ IsDirAt(ptr, idx)
    BY <1>1, <1>3, <1>5, CurrentFrame, CurrentSlot
  <2>3. \A v : InEntry(v, ptr, idx)
                <=> between(v, call.vaddr, call.vaddr + call.pte.frame.size)
    BY <1>1, <1>3, <2>1, <2>2, EntryIsAtAddress DEF InEntry
  <2>4. call.pte.frame.size \in Nat \ {0}
    BY <2>1, <2>2, SizeFacts
  <2>5. CASE \E s \in Slots : InEntry(SlotBase(s), ptr, idx) /\ InEntry(SlotBase(s), s[1], s[2])
    <3>1. PICK s \in Slots : InEntry(SlotBase(s), ptr, idx) /\ InEntry(SlotBase(s), s[1], s[2])
      BY <2>5
    <3>2. SlotBase(s) \in Nat
      BY SlotFacts DEF WalkInv
    <3>3. candidate_mapping_overlaps_existing_vmem(interp, call.vaddr, call.pte)
      BY <1>3, <2>3, <2>4, <3>1, <3>2, OverlapMeansSlot
    <3> QED BY <1>1, <1>2, <3>3
  <2>6. CASE ~\E s \in Slots : InEntry(SlotBase(s), ptr, idx) /\ InEntry(SlotBase(s), s[1], s[2])
    <3>1. PICK q \in used_regions \ {CR3} :
            /\ ghost_pt[q].layer > layer /\ InEntry(ghost_pt[q].base, ptr, idx)
            /\ is_directory_empty(q)
      BY <2>2, <2>6, DirectoryHoldsPage DEF WalkInv
    <3>2. \A l \in 1 .. layer : path[l].ptr # q
      <4>1. layer \in Nat
        BY <2>2, SizeFacts
      <4>2. ASSUME NEW l \in 1 .. layer
            PROVE  ghost_pt[path[l].ptr].layer <= layer
        <5>1. l \in 0 .. layer /\ l <= layer
          BY <4>1
        <5>2. contains_pair(ghost_pt, path[l].ptr, [layer |-> l, base |-> path[l].base])
          BY <1>1, <5>1 DEF WalkInv, PathIsChain
        <5> QED BY <5>1, <5>2 DEF contains_pair
      <4>3. ghost_pt[q].layer \in Nat
        BY SizeFacts DEF WalkInv, TypeOK
      <4>4. ~(ghost_pt[q].layer <= layer)
        BY <3>1, <4>1, <4>3
      <4> QED BY <4>2, <4>4
    <3>3. q \in Abandoned
      BY <3>1, <3>2 DEF Abandoned
    <3> QED BY <1>1, <1>2, <2>3, <3>1, <3>3
  <2> QED BY <2>5, <2>6
<1> QED BY <1>4, <1>5

\* unmap and unmap_noreclaim remove the mapping and return its frame.
LEMMA ClearAnswer ==
  ASSUME WalkInv, WalkInv', UnmapReclaim \/ UnmapNoReclaim
  PROVE  /\ pc = "unmap"
         /\ interp' = map_remove(interp, call.vaddr)
         /\ call.vaddr \in DOMAIN interp /\ call.vaddr \notin DOMAIN interp'
         /\ obs'.op = "Unmap" /\ obs'.vaddr = call.vaddr
         /\ obs'.result.tag = "Ok" /\ obs'.result.frame = interp[call.vaddr].frame
         /\ ledger' = map_remove(ledger, call.vaddr)
<1>1. /\ pc = "unmap" /\ is_mapping(entry) /\ is_page(layer, entry)
      /\ aligned(call.vaddr, EntrySize[layer])
      /\ write(ptr, idx, ZeroEntry) /\ UNCHANGED <<regions, ghost_pt>>
      /\ obs' = PT!UnmapObs(call.vaddr, Unmapped(layer, entry))
      /\ ledger' = map_remove(ledger, call.vaddr)
  BY DEF UnmapReclaim, UnmapNoReclaim, ClearPage
<1>2. /\ interp' = map_remove(interp, call.vaddr)
      /\ call.vaddr \in DOMAIN interp /\ interp[call.vaddr] = EntryPTE(layer, entry)
  BY <1>1, ClearEntryRemoves
<1>3. call.vaddr \notin DOMAIN interp'
  <2>1. DOMAIN map_remove(interp, call.vaddr) = DOMAIN interp \ {call.vaddr}
    BY RemoveFacts
  <2> QED BY <1>2, <2>1
<1>4. /\ obs'.op = "Unmap" /\ obs'.vaddr = call.vaddr
      /\ obs'.result = Unmapped(layer, entry)
  BY <1>1 DEF PT!UnmapObs
<1>5. /\ obs'.result.tag = "Ok"
      /\ obs'.result.frame = MemRegion(entry.addr, EntrySize[layer])
  BY <1>4 DEF Unmapped
<1>6. interp[call.vaddr].frame = MemRegion(entry.addr, EntrySize[layer])
  BY <1>2 DEF EntryPTE
<1> QED BY <1>1, <1>2, <1>3, <1>4, <1>5, <1>6

\* unmap and unmap_noreclaim report that there is nothing to unmap.
LEMMA MissingAnswer ==
  ASSUME WalkInv, WalkInv', UnmapMissing
  PROVE  /\ pc = "unmap" /\ interp' = interp /\ call.vaddr \notin DOMAIN interp
         /\ obs' = PT!UnmapObs(call.vaddr, PT!ErrNoSuchMapping)
<1>1. /\ pc = "unmap" /\ UNCHANGED memVars
      /\ obs' = PT!UnmapObs(call.vaddr, PT!ErrNoSuchMapping)
  BY DEF UnmapMissing
<1> QED BY <1>1, SameMemory, MissingIsReal

\* resolve returns the address that the mapping gives, or that there is none.
LEMMA ResolvedAnswer ==
  ASSUME BenchRuns, WalkInv, WalkInv', (ResolveAddress \/ ResolveEmpty) /\ UNCHANGED <<ledger, clean>>
  PROVE  /\ pc = "resolve" /\ ResolveAnswer(call.vaddr, obs'.result)
         /\ interp' = interp /\ ledger' = ledger /\ obs'.op = "Resolve"
<1>1. pc = "resolve" /\ UNCHANGED memVars
  BY DEF ResolveAddress, ResolveEmpty
<1>2. interp' = interp
  BY <1>1, SameMemory
<1>3. call.vaddr \in Nat /\ call.vaddr < UpperVaddr
  BY <1>1, CallStaysInRange
<1>4. CASE ResolveAddress
  <2> DEFINE b == entry_base(layer, path[layer].base, idx)
  <2>1. /\ is_mapping(entry) /\ is_page(layer, entry)
        /\ obs' = PT!ResolveObs(call.vaddr,
                     [tag |-> "Ok", paddr |-> entry.addr + (call.vaddr - b),
                      flags |-> flag_bits(entry)])
    BY <1>4 DEF ResolveAddress
  <2>2. /\ b \in DOMAIN interp /\ Covers(interp, b, call.vaddr)
        /\ interp[b].frame = MemRegion(entry.addr, EntrySize[layer])
    BY <1>1, <1>3, <2>1, CurrentMapping
  <2> HIDE DEF b
  <2>3. /\ obs'.op = "Resolve" /\ obs'.result.tag = "Ok"
        /\ obs'.result.paddr = entry.addr + (call.vaddr - b)
    BY <2>1 DEF PT!ResolveObs
  <2>4. obs'.result # PT!ErrUnmapped
    BY <2>3 DEF PT!ErrUnmapped
  <2>5. interp[b].frame.base = entry.addr
    BY <2>2 DEF MemRegion
  <2>6. obs'.result.paddr = interp[b].frame.base + (call.vaddr - b)
    BY <2>3, <2>5
  <2> QED BY <1>1, <1>2, <2>2, <2>3, <2>4, <2>6 DEF ResolveAnswer
<1>5. CASE ResolveEmpty
  <2>1. idx \in EntryIndices
    BY <1>1, <1>3, CurrentFrame
  <2>2. /\ ~is_mapping(entry) /\ obs' = PT!ResolveObs(call.vaddr, PT!ErrUnmapped)
    BY <1>5, <2>1 DEF ResolveEmpty, read_entries, ReadInBounds
  <2>3. \A b \in DOMAIN interp : ~Covers(interp, b, call.vaddr)
    BY <1>1, <1>3, <2>2, NothingCovers
  <2>4. obs'.op = "Resolve" /\ obs'.result = PT!ErrUnmapped
    BY <2>2 DEF PT!ResolveObs
  <2> QED BY <1>1, <1>2, <2>3, <2>4 DEF ResolveAnswer
<1> QED BY <1>4, <1>5

(***************************************************************************)
(* The inductive invariant.                                                *)
(***************************************************************************)

\* A call keeps its operation until it returns.
LEMMA OpIsKept ==
  ASSUME CleanInv, [BenchNext]_benchVars
  PROVE  pc' \in {"unmap", "cleanup"} => call'.op \in {"Unmap", "UnmapNoReclaim"}
<1>1. CASE \E vaddr \in VAddrs : \E pte \in PTEs : CallMapFrame(vaddr, pte)
  BY <1>1 DEF CallMapFrame, Begin
<1>2. CASE \E vaddr \in VAddrs : \E op \in {"Unmap", "UnmapNoReclaim"} : CallUnmapPage(op, vaddr)
  BY <1>2 DEF CallUnmapPage, Begin
<1>3. CASE \E vaddr \in ResolveVAddrs : CallResolve(vaddr) /\ UNCHANGED <<ledger, clean>>
  BY <1>3 DEF CallResolve, Begin
<1>4. CASE MapExisting \/ MapOccupied \/ UnmapMissing \/ UnmapReturn
           \/ ResolveAddress \/ ResolveEmpty \/ MapNewPage \/ UnmapNoReclaim
  BY <1>4, QuietAnswer DEF MapNewPage, MapPage, UnmapNoReclaim, Return
<1>5. CASE MapDescend \/ MapNewDir \/ MapLinkDir \/ UnmapDescend \/ UnmapReclaim
           \/ UnlinkDir \/ KeepDir \/ ResolveDescend \/ UNCHANGED benchVars
  <2>1. /\ call' = call
        /\ pc' \in {"unmap", "cleanup"} => pc \in {"unmap", "cleanup"}
    BY <1>5 DEF MapDescend, MapNewDir, MapLinkDir, UnmapDescend, UnmapReclaim, UnlinkDir,
                KeepDir, ResolveDescend, benchVars, vars, callVars
  <2> QED BY <2>1 DEF CleanInv
<1> QED BY <1>1, <1>2, <1>3, <1>4, <1>5 DEF BenchNext, Inherited

\* The ledger and the last answer stay true: a mapping goes only when unmap
\* answers that it is gone.
LEMMA LedgerStep ==
  ASSUME BenchRuns, CleanInv, WalkInv', [BenchNext]_benchVars, clean'
  PROVE  LedgerIsMapped' /\ LastAnswerStands'
<1>1. WalkInv /\ LedgerIsMapped /\ LastAnswerStands
  BY DEF CleanInv
<1>2. /\ PT!Ok.tag = "Ok"
      /\ PT!ErrOverlap.tag = "ErrOverlap"
      /\ PT!ErrNoSuchMapping.tag = "ErrNoSuchMapping"
  BY DEF PT!Ok, PT!ErrOverlap, PT!ErrNoSuchMapping
<1>3. CASE MapExisting
  <2>1. /\ interp' = interp
        /\ obs'.op = "Map" /\ obs'.vaddr = call.vaddr
        /\ \E b \in DOMAIN interp : Covers(interp, b, call.vaddr)
    BY <1>1, <1>3, ExistingAnswer DEF PT!MapObs
  <2>2. LastAnswerStands'
    BY <2>1 DEF LastAnswerStands
  <2>3. \/ ledger' = ledger
        \/ /\ ledger' = map_insert(ledger, call.vaddr, call.pte.frame)
           /\ call.vaddr \in DOMAIN interp /\ interp[call.vaddr].frame = call.pte.frame
    BY <1>1, <1>3, ExistingAnswer
  <2>4. LedgerIsMapped'
    BY <1>1, <2>1, <2>3 DEF LedgerIsMapped, map_insert
  <2> QED BY <2>2, <2>4
<1>4. CASE MapOccupied
  <2>1. interp' = interp /\ ledger' = ledger
    BY <1>1, <1>4, OccupiedAnswer
  <2>2. obs'.op = "Map" /\ obs'.result = PT!ErrOverlap
    BY <1>1, <1>4, OccupiedAnswer DEF PT!MapObs
  <2>3. LastAnswerStands'
    BY <1>2, <2>2 DEF LastAnswerStands
  <2> QED BY <1>1, <2>1, <2>3 DEF LedgerIsMapped
<1>5. CASE MapNewPage
  <2>1. /\ interp' = map_insert(interp, call.vaddr, call.pte)
        /\ ledger' = map_insert(ledger, call.vaddr, call.pte.frame)
        /\ Covers(interp', call.vaddr, call.vaddr)
    BY <1>1, <1>5, NewPageAnswer
  <2>2. obs'.op = "Map" /\ obs'.vaddr = call.vaddr
    BY <1>1, <1>5, NewPageAnswer DEF PT!MapObs
  <2>3. call.vaddr \in DOMAIN interp'
    BY <2>1 DEF map_insert
  <2>4. LastAnswerStands'
    BY <2>1, <2>2, <2>3 DEF LastAnswerStands
  <2>5. LedgerIsMapped'
    BY <1>1, <2>1 DEF LedgerIsMapped, map_insert
  <2> QED BY <2>4, <2>5
<1>6. CASE UnmapReclaim \/ UnmapNoReclaim
  <2>1. /\ interp' = map_remove(interp, call.vaddr)
        /\ ledger' = map_remove(ledger, call.vaddr)
        /\ obs'.op = "Unmap" /\ obs'.vaddr = call.vaddr
        /\ call.vaddr \notin DOMAIN interp'
    BY <1>1, <1>6, ClearAnswer
  <2>2. LastAnswerStands'
    BY <2>1 DEF LastAnswerStands
  <2>3. /\ DOMAIN interp' = DOMAIN interp \ {call.vaddr}
        /\ DOMAIN ledger' = DOMAIN ledger \ {call.vaddr}
        /\ \A v \in DOMAIN interp \ {call.vaddr} : interp'[v] = interp[v]
        /\ \A v \in DOMAIN ledger \ {call.vaddr} : ledger'[v] = ledger[v]
    BY <2>1 DEF map_remove, Restrict
  <2>4. LedgerIsMapped'
    BY <1>1, <2>3 DEF LedgerIsMapped
  <2> QED BY <2>2, <2>4
<1>7. CASE UnmapMissing /\ UNCHANGED <<ledger, clean>>
  <2>1. interp' = interp
    BY <1>1, <1>7, MissingAnswer
  <2>2. obs'.op = "Unmap" /\ obs'.result = PT!ErrNoSuchMapping
    BY <1>1, <1>7, MissingAnswer DEF PT!UnmapObs
  <2>3. LastAnswerStands'
    BY <1>2, <2>2 DEF LastAnswerStands
  <2> QED BY <1>1, <1>7, <2>1, <2>3 DEF LedgerIsMapped
<1>8. CASE (ResolveAddress \/ ResolveEmpty) /\ UNCHANGED <<ledger, clean>>
  <2>1. interp' = interp /\ ledger' = ledger /\ obs'.op = "Resolve"
    BY <1>1, <1>8, ResolvedAnswer
  <2> QED BY <1>1, <2>1 DEF LedgerIsMapped, LastAnswerStands
<1>9. CASE ~(MapExisting \/ MapOccupied \/ MapNewPage) /\ ~(UnmapReclaim \/ UnmapNoReclaim)
           /\ ~(UnmapMissing /\ UNCHANGED <<ledger, clean>>)
           /\ ~((ResolveAddress \/ ResolveEmpty) /\ UNCHANGED <<ledger, clean>>)
  <2>1. interp' = interp /\ obs' = obs /\ ledger' = ledger
    BY <1>1, <1>9, UndecidedStep
  <2> QED BY <1>1, <2>1 DEF LedgerIsMapped, LastAnswerStands
<1> QED BY <1>3, <1>4, <1>5, <1>6, <1>7, <1>8, <1>9

\* Every step of the benchmarked page table keeps the inductive invariant.
LEMMA BenchStepKeepsInv ==
  ASSUME BenchRuns, BenchInv, [BenchNext]_benchVars
  PROVE  /\ BenchInv'
         /\ clean' => CleanInv /\ WalkInv /\ WalkInv'
<1> SUFFICES ASSUME clean' PROVE CleanInv /\ CleanInv' /\ WalkInv /\ WalkInv'
  BY DEF BenchInv
<1>1. CleanInv /\ WalkInv
  BY CleanBefore DEF BenchInv, CleanInv
<1>2. WalkInv'
  BY <1>1, BenchStepKeepsWalk
<1>3. LedgerIsMapped' /\ LastAnswerStands'
  BY <1>1, <1>2, LedgerStep
<1> QED BY <1>1, <1>2, <1>3, OpIsKept DEF CleanInv

\* Whatever calls are made, in whatever order, and as long as no page has come
\* with a present entry: between any two memory writes the directories form a
\* tree, the running call holds a chain of them, and what map_frame and unmap
\* have answered is what is mapped.
THEOREM BenchInductiveInvariant ==
  ASSUME BenchRuns
  PROVE  BenchSpec => []BenchInv
<1>1. BenchInit => BenchInv
  BY BenchInitEstablishes
<1>2. BenchInv /\ [BenchNext]_benchVars => BenchInv'
  BY BenchStepKeepsInv
<1> QED BY <1>1, <1>2, PTL DEF BenchSpec

(***************************************************************************)
(* Answers.                                                                *)
(***************************************************************************)

\* What CallsDoAsTheyAnswer says of a step.
AnswerStep ==
  IF obs' = obs THEN interp' = interp
  ELSE /\ call.op = "Map" => MapAnswer(call.vaddr, call.pte, obs'.result)
       /\ call.op \in {"Unmap", "UnmapNoReclaim"} => UnmapAnswer(call.vaddr, obs'.result)
       /\ call.op = "Resolve" => ResolveAnswer(call.vaddr, obs'.result)

\* A write that maps or unmaps always changes the last answer: the same answer
\* cannot be given twice, as it still stands.
LEMMA StepAnswers ==
  ASSUME BenchRuns, CleanInv, WalkInv', [BenchNext]_benchVars, clean'
  PROVE  AnswerStep
<1>1. WalkInv /\ LastAnswerStands
  BY DEF CleanInv
<1>2. CASE MapExisting
  <2>1. /\ pc = "map" /\ interp' = interp
        /\ obs'.result = PT!Ok
        /\ \E b \in DOMAIN interp :
             Covers(interp, b, call.vaddr) /\ interp[b].frame.base = call.pte.frame.base
    BY <1>1, <1>2, ExistingAnswer DEF PT!MapObs
  <2>2. MapAnswer(call.vaddr, call.pte, obs'.result)
    BY <2>1 DEF MapAnswer
  <2> QED BY <2>1, <2>2, OpOfCall DEF AnswerStep
<1>3. CASE MapOccupied
  <2>1. pc = "map" /\ interp' = interp /\ obs'.result = PT!ErrOverlap
    BY <1>1, <1>3, OccupiedAnswer DEF PT!MapObs
  <2>2. \/ candidate_mapping_overlaps_existing_vmem(interp, call.vaddr, call.pte)
        \/ \E r \in Abandoned :
             between(ghost_pt[r].base, call.vaddr, call.vaddr + call.pte.frame.size)
    BY <1>1, <1>3, OccupiedAnswer
  <2>3. MapAnswer(call.vaddr, call.pte, obs'.result)
    BY <2>1, <2>2 DEF MapAnswer
  <2> QED BY <2>1, <2>3, OpOfCall DEF AnswerStep
<1>4. CASE MapNewPage
  <2>1. /\ pc = "map"
        /\ obs'.op = "Map" /\ obs'.vaddr = call.vaddr /\ obs'.result = PT!Ok
    BY <1>1, <1>4, NewPageAnswer DEF PT!MapObs
  <2>2. /\ interp' = map_insert(interp, call.vaddr, call.pte)
        /\ ~candidate_mapping_overlaps_existing_vmem(interp, call.vaddr, call.pte)
        /\ \A b \in DOMAIN interp : ~Covers(interp, b, call.vaddr)
    BY <1>1, <1>4, NewPageAnswer
  <2>3. obs' # obs
    BY <1>1, <2>1, <2>2 DEF LastAnswerStands
  <2>4. MapAnswer(call.vaddr, call.pte, obs'.result)
    BY <2>1, <2>2 DEF MapAnswer
  <2> QED BY <2>1, <2>3, <2>4, OpOfCall DEF AnswerStep
<1>5. CASE UnmapReclaim \/ UnmapNoReclaim
  <2>1. /\ pc = "unmap"
        /\ interp' = map_remove(interp, call.vaddr)
        /\ call.vaddr \in DOMAIN interp
        /\ obs'.op = "Unmap" /\ obs'.vaddr = call.vaddr
        /\ obs'.result.tag = "Ok" /\ obs'.result.frame = interp[call.vaddr].frame
    BY <1>1, <1>5, ClearAnswer
  <2>2. obs' # obs
    BY <1>1, <2>1 DEF LastAnswerStands
  <2>3. UnmapAnswer(call.vaddr, obs'.result)
    BY <2>1 DEF UnmapAnswer
  <2> QED BY <2>1, <2>2, <2>3, OpOfCall DEF AnswerStep
<1>6. CASE UnmapMissing /\ UNCHANGED <<ledger, clean>>
  <2>1. pc = "unmap" /\ interp' = interp /\ call.vaddr \notin DOMAIN interp
    BY <1>1, <1>6, MissingAnswer
  <2>2. obs'.result = PT!ErrNoSuchMapping
    BY <1>1, <1>6, MissingAnswer DEF PT!UnmapObs
  <2>3. UnmapAnswer(call.vaddr, obs'.result)
    BY <2>1, <2>2 DEF UnmapAnswer
  <2> QED BY <2>1, <2>3, OpOfCall DEF AnswerStep
<1>7. CASE (ResolveAddress \/ ResolveEmpty) /\ UNCHANGED <<ledger, clean>>
  <2>1. pc = "resolve" /\ interp' = interp /\ ResolveAnswer(call.vaddr, obs'.result)
    BY <1>1, <1>7, ResolvedAnswer
  <2> QED BY <2>1, OpOfCall DEF AnswerStep
<1>8. CASE ~(MapExisting \/ MapOccupied \/ MapNewPage) /\ ~(UnmapReclaim \/ UnmapNoReclaim)
           /\ ~(UnmapMissing /\ UNCHANGED <<ledger, clean>>)
           /\ ~((ResolveAddress \/ ResolveEmpty) /\ UNCHANGED <<ledger, clean>>)
  BY <1>1, <1>8, UndecidedStep DEF AnswerStep
<1> QED BY <1>2, <1>3, <1>4, <1>5, <1>6, <1>7, <1>8

\* Every call acts on the mappings in the one write that decides its result,
\* and the result says what it did (CallsDoAsTheyAnswer), for the code of
\* verif_pt and any calls of map_frame, unmap, unmap_noreclaim and resolve, up
\* to the first page that comes with a present entry.
THEOREM BenchCallsDoAsTheyAnswer ==
  ASSUME BenchRuns
  PROVE  BenchSpec => CallsDoAsTheyAnswer
<1>1. BenchInit => BenchInv
  BY BenchInitEstablishes
<1>2. BenchInv /\ [BenchNext]_benchVars => BenchInv'
  BY BenchStepKeepsInv
<1>3. BenchInv /\ [BenchNext]_benchVars => (clean' => AnswerStep)
  BY BenchStepKeepsInv, StepAnswers
<1> QED BY <1>1, <1>2, <1>3, PTL DEF BenchSpec, CallsDoAsTheyAnswer, AnswerStep

\* What map_frame has reported as mapped is what unmap returns
\* (UnmapReturnsWhatWasMapped): the benchmark's loops see ErrNoSuchMapping only
\* after a page has come with a present entry.
THEOREM BenchUnmapReturnsWhatWasMapped ==
  ASSUME BenchRuns
  PROVE  BenchSpec => UnmapReturnsWhatWasMapped
<1> DEFINE P == (clean' /\ pc = "unmap" /\ obs' # obs /\ call.vaddr \in DOMAIN ledger)
                  => (obs'.result.tag = "Ok" /\ obs'.result.frame = ledger[call.vaddr])
<1>1. BenchInit => BenchInv
  BY BenchInitEstablishes
<1>2. BenchInv /\ [BenchNext]_benchVars => BenchInv'
  BY BenchStepKeepsInv
<1>3. ASSUME BenchInv, [BenchNext]_benchVars
      PROVE  P
  <2> SUFFICES ASSUME clean', pc = "unmap", obs' # obs, call.vaddr \in DOMAIN ledger
               PROVE  obs'.result.tag = "Ok" /\ obs'.result.frame = ledger[call.vaddr]
    OBVIOUS
  <2>1. CleanInv /\ WalkInv /\ WalkInv'
    BY <1>3, BenchStepKeepsInv
  <2>2. call.vaddr \in DOMAIN interp /\ interp[call.vaddr].frame = ledger[call.vaddr]
    BY <2>1 DEF CleanInv, LedgerIsMapped
  <2>3. ~UnmapMissing
    BY <2>1, <2>2, MissingAnswer
  <2>4. CASE UnmapReclaim \/ UnmapNoReclaim
    BY <2>1, <2>2, <2>4, ClearAnswer
  <2>5. CASE ~(UnmapReclaim \/ UnmapNoReclaim)
    <3>1. ~(MapExisting \/ MapOccupied \/ MapNewPage) /\ ~(ResolveAddress \/ ResolveEmpty)
      BY DEF MapExisting, MapOccupied, MapNewPage, MapPage, ResolveAddress, ResolveEmpty
    <3>2. obs' = obs
      BY <1>3, <2>1, <2>3, <2>5, <3>1, UndecidedStep
    <3> QED BY <3>2
  <2> QED BY <2>4, <2>5
<1> QED BY <1>1, <1>2, <1>3, PTL DEF BenchSpec, UnmapReturnsWhatWasMapped

(***************************************************************************)
(* Empty directories.                                                      *)
(***************************************************************************)

\* What OnlyNoReclaimAbandons says of a step: the directories abandoned after
\* it were abandoned before.
NoneAbandoned == Abandoned' \subseteq Abandoned

\* The directories on the path of a call that has found an entry are not empty.
LEMMA PathIsNotEmpty ==
  ASSUME WalkInv, pc # "idle", call.vaddr \in Nat, call.vaddr < UpperVaddr,
         NEW l \in 1 .. layer, is_mapping(entry) \/ l # layer
  PROVE  ~is_directory_empty(path[l].ptr)
<1>1. layer \in Nat
  BY SizeFacts DEF WalkInv, TypeOK
<1>2. CASE l # layer
  <2>1. l \in 0 .. (layer - 1)
    BY <1>1, <1>2
  <2> QED BY <2>1, UpperFrame DEF is_directory_empty
<1>3. CASE l = layer
  <2>1. idx \in EntryIndices /\ is_mapping(view_at(ptr, idx))
    BY <1>3, CurrentFrame DEF entry
  <2> QED BY <1>3, <2>1 DEF is_directory_empty, ptr
<1> QED BY <1>2, <1>3

\* Steps that leave memory alone, from where the call holds no directory that
\* could be empty.
LEMMA QuietStepAbandonsNone ==
  ASSUME UNCHANGED memVars,
         pc \in {"map", "link", "cleanup"} =>
           \A l \in 1 .. layer : ~is_directory_empty(path[l].ptr)
  PROVE  NoneAbandoned
<1> SUFFICES ASSUME NEW x \in Abandoned' PROVE x \in Abandoned
  BY DEF NoneAbandoned
<1>1. x \in used_regions \ {CR3} /\ is_directory_empty(x)
  BY DEF Abandoned, memVars, used_regions, is_directory_empty
<1> QED BY <1>1 DEF Abandoned

\* Steps to where the call still holds the directories that it held.
LEMMA LongerPathAbandonsNone ==
  ASSUME \A x \in used_regions' \ {CR3} :
           is_directory_empty(x)' =>
             \/ x \in used_regions /\ is_directory_empty(x)
             \/ \E l \in 1 .. layer' : path'[l].ptr = x,
         pc' \in {"map", "link", "cleanup"},
         \A l \in 1 .. layer : l \in 1 .. layer' /\ path'[l].ptr = path[l].ptr
  PROVE  NoneAbandoned
<1> SUFFICES ASSUME NEW x \in Abandoned' PROVE x \in Abandoned
  BY DEF NoneAbandoned
<1>1. /\ x \in used_regions' \ {CR3} /\ is_directory_empty(x)'
      /\ \A l \in 1 .. layer' : path'[l].ptr # x
  BY DEF Abandoned
<1>2. x \in used_regions \ {CR3} /\ is_directory_empty(x)
  BY <1>1
<1>3. \A l \in 1 .. layer : path[l].ptr # x
  BY <1>1
<1> QED BY <1>2, <1>3 DEF Abandoned

\* The recursive call keeps the frames it is called from.
LEMMA EnterKeepsFrames ==
  ASSUME WalkInv, NEW d, Enter(d), NEW l \in 1 .. layer
  PROVE  l \in 1 .. layer' /\ path'[l].ptr = path[l].ptr
<1>1. layer \in Layers /\ layer \in Nat /\ layer <= LastLayer /\ LastLayer \in Nat
  BY SizeFacts DEF WalkInv, TypeOK
<1>2. l \in Layers /\ l # layer + 1 /\ l \in 1 .. (layer + 1)
  BY <1>1 DEF Layers
<1>3. path \in [Layers -> [ptr : Regions, base : Nat]]
  BY DEF WalkInv, TypeOK
<1> QED BY <1>2, <1>3 DEF Enter

\* The steps of map_frame: it stands in the directories it may leave empty
\* until it has filled them.
LEMMA MapAbandonsNone ==
  ASSUME WalkInv, clean',
         MapDescend \/ MapExisting \/ MapOccupied \/ MapNewPage \/ MapNewDir \/ MapLinkDir
  PROVE  NoneAbandoned
<1>1. /\ pc \in {"map", "link"} /\ call.vaddr \in Nat /\ call.vaddr < UpperVaddr
      /\ layer \in Nat
  <2>1. pc \in {"map", "link"}
    BY DEF MapDescend, MapExisting, MapOccupied, MapNewPage, MapPage, MapNewDir, MapLinkDir
  <2> QED BY <2>1, CallInRange, SizeFacts DEF WalkInv, TypeOK
<1>2. CASE MapExisting \/ MapOccupied
  <2>1. is_mapping(entry) /\ UNCHANGED memVars
    BY <1>2 DEF MapExisting, MapOccupied, MapFound
  <2> QED BY <1>1, <2>1, PathIsNotEmpty, QuietStepAbandonsNone
<1>3. CASE MapDescend
  <2>1. /\ pc' = "map" /\ Enter(entry.addr)
        /\ UNCHANGED <<region_view, regions, ghost_pt>>
    BY <1>3, <1>1 DEF MapDescend, memVars
  <2>2. \A x \in used_regions' \ {CR3} :
          is_directory_empty(x)' => x \in used_regions /\ is_directory_empty(x)
    BY <2>1 DEF used_regions, is_directory_empty
  <2>3. \A l \in 1 .. layer : l \in 1 .. layer' /\ path'[l].ptr = path[l].ptr
    BY <2>1, EnterKeepsFrames
  <2> QED BY <2>1, <2>2, <2>3, LongerPathAbandonsNone
<1>4. CASE MapNewPage
  <2>1. MapPage
    BY <1>4 DEF MapNewPage
  <2> SUFFICES ASSUME NEW x \in Abandoned' PROVE x \in Abandoned
    BY DEF NoneAbandoned
  <2>2. x \in used_regions
    BY <2>1 DEF Abandoned, MapPage, used_regions
  <2>3. is_directory_empty(x) /\ x # ptr /\ x # CR3
    BY <2>1, <2>2, PageFillsDirectory DEF Abandoned
  <2>4. ASSUME NEW l \in 1 .. layer
        PROVE  path[l].ptr # x
    <3>1. CASE l = layer
      BY <2>3, <3>1 DEF ptr
    <3>2. CASE l # layer
      BY <1>1, <2>3, <3>2, PathIsNotEmpty
    <3> QED BY <3>1, <3>2
  <2> QED BY <2>2, <2>3, <2>4 DEF Abandoned
<1>5. CASE MapNewDir
  <2>1. /\ pc' = "link" /\ UNCHANGED <<ghost_pt, layer, path>>
    BY <1>5 DEF MapNewDir
  <2>2. \A x \in used_regions : region_view'[x] = region_view[x]
    BY <1>5, NewDirFacts
  <2>3. \A x \in used_regions' \ {CR3} :
          is_directory_empty(x)' => x \in used_regions /\ is_directory_empty(x)
    BY <2>1, <2>2 DEF used_regions, is_directory_empty
  <2> QED BY <2>1, <2>3, LongerPathAbandonsNone
<1>6. CASE MapLinkDir
  <2>1. pc' = "map" /\ Enter(new_dir)
    BY <1>6 DEF MapLinkDir
  <2>2. /\ layer' = layer + 1 /\ path'[layer + 1].ptr = new_dir
        /\ \A x \in used_regions' \ {new_dir} :
             is_directory_empty(x)' => x \in used_regions /\ is_directory_empty(x)
    BY <1>6, MapLinkDirKeepsWalk
  <2>3. layer + 1 \in 1 .. layer'
    BY <1>1, <2>2
  <2>4. \A l \in 1 .. layer : l \in 1 .. layer' /\ path'[l].ptr = path[l].ptr
    BY <2>1, EnterKeepsFrames
  <2> QED BY <2>1, <2>2, <2>3, <2>4, LongerPathAbandonsNone
<1> QED BY <1>2, <1>3, <1>4, <1>5, <1>6

\* The steps of unmap: on its way up it unlinks what it has emptied, though
\* unmap_noreclaim may have left empty directories around it.
LEMMA UnmapAbandonsNone ==
  ASSUME WalkInv,
         UnmapReclaim \/ (UnlinkDir /\ UNCHANGED <<ledger, clean>>) \/ (KeepDir /\ UNCHANGED <<ledger, clean>>)
  PROVE  NoneAbandoned
<1> SUFFICES ASSUME NEW x \in Abandoned' PROVE x \in Abandoned
  BY DEF NoneAbandoned
<1>1. pc' = "cleanup" /\ path' = path
  BY DEF UnmapReclaim, UnlinkDir, KeepDir
<1>2. /\ x \in used_regions' \ {CR3} /\ is_directory_empty(x)'
      /\ \A l \in 1 .. layer' : path[l].ptr # x
  BY <1>1 DEF Abandoned
<1>3. layer \in Nat /\ used_regions \subseteq Regions
  BY SizeFacts DEF WalkInv, TypeOK
<1>4. CASE UnmapReclaim
  <2>1. /\ pc = "unmap" /\ is_page(layer, entry) /\ layer' = layer
        /\ write(ptr, idx, ZeroEntry) /\ UNCHANGED <<regions, ghost_pt>>
    BY <1>4 DEF UnmapReclaim, ClearPage
  <2>2. /\ used_regions' = used_regions
        /\ \A r \in Regions \ {ptr} : region_view'[r] = region_view[r]
    BY <2>1, ClearEntryKeepsTree
  <2>3. x # ptr
    <3>1. CASE layer = 0
      BY <1>2, <2>1, <3>1, CurrentIsRoot
    <3>2. CASE layer # 0
      <4>1. layer \in 1 .. layer'
        BY <1>3, <2>1, <3>2
      <4> QED BY <1>2, <4>1 DEF ptr
    <3> QED BY <3>1, <3>2
  <2>4. is_directory_empty(x)
    BY <1>2, <1>3, <2>2, <2>3 DEF is_directory_empty
  <2> QED BY <1>2, <2>1, <2>2, <2>4 DEF Abandoned
<1>5. CASE UnlinkDir \/ KeepDir
  <2>1. pc = "cleanup" /\ layer > 0 /\ layer' = layer - 1
    BY <1>5 DEF UnlinkDir, KeepDir
  <2>2. x \in used_regions /\ x # ptr /\ is_directory_empty(x)
    <3>1. CASE UnlinkDir
      <4>1. /\ used_regions' = used_regions \ {ptr}
            /\ region_view'[x] = region_view[x] \/ x = path[layer - 1].ptr
        BY <1>2, <3>1, UnlinkedIsGone
      <4>2. x # path[layer - 1].ptr
        <5>1. CASE layer - 1 = 0
          BY <1>2, <2>1, <5>1 DEF WalkInv, PathIsChain, RootFrame
        <5>2. CASE layer - 1 # 0
          <6>1. layer - 1 \in 1 .. layer'
            BY <1>3, <2>1, <5>2
          <6> QED BY <1>2, <6>1
        <5> QED BY <5>1, <5>2
      <4> QED BY <1>2, <4>1, <4>2 DEF is_directory_empty
    <3>2. CASE KeepDir
      <4>1. UNCHANGED <<region_view, ghost_pt>> /\ ~is_directory_empty(ptr)
        BY <3>2 DEF KeepDir, memVars
      <4>2. x \in used_regions /\ is_directory_empty(x)
        BY <1>2, <4>1 DEF used_regions, is_directory_empty
      <4> QED BY <4>1, <4>2
    <3> QED BY <1>5, <3>1, <3>2
  <2>3. ASSUME NEW l \in 1 .. layer
        PROVE  path[l].ptr # x
    <3>1. CASE l = layer
      BY <2>2, <3>1 DEF ptr
    <3>2. CASE l # layer
      <4>1. l \in 1 .. layer'
        BY <1>3, <2>1, <3>2
      <4> QED BY <1>2, <4>1
    <3> QED BY <3>1, <3>2
  <2> QED BY <1>2, <2>2, <2>3 DEF Abandoned
<1> QED BY <1>4, <1>5

\* Only unmap_noreclaim leaves directories empty.
LEMMA StepAbandonsNone ==
  ASSUME WalkInv, [BenchNext]_benchVars, clean', call.op # "UnmapNoReclaim"
  PROVE  NoneAbandoned
<1>1. CASE \/ \E vaddr \in VAddrs : \E pte \in PTEs : CallMapFrame(vaddr, pte)
           \/ \E vaddr \in VAddrs : \E op \in {"Unmap", "UnmapNoReclaim"} :
                CallUnmapPage(op, vaddr)
           \/ \E vaddr \in ResolveVAddrs : CallResolve(vaddr) /\ UNCHANGED <<ledger, clean>>
  <2>1. pc = "idle" /\ UNCHANGED memVars
    BY <1>1 DEF CallMapFrame, CallUnmapPage, CallResolve, Begin
  <2> QED BY <2>1, QuietStepAbandonsNone
<1>2. CASE MapDescend \/ MapExisting \/ MapOccupied \/ MapNewPage \/ MapNewDir \/ MapLinkDir
  BY <1>2, MapAbandonsNone
<1>3. CASE UnmapDescend \/ UnmapMissing \/ ResolveDescend \/ ResolveAddress \/ ResolveEmpty
  <2>1. pc \in {"unmap", "resolve"} /\ UNCHANGED memVars
    BY <1>3 DEF UnmapDescend, UnmapMissing, ResolveDescend, ResolveAddress, ResolveEmpty
  <2> QED BY <2>1, QuietStepAbandonsNone
<1>4. CASE UnmapReclaim \/ (UnlinkDir /\ UNCHANGED <<ledger, clean>>) \/ (KeepDir /\ UNCHANGED <<ledger, clean>>)
  BY <1>4, UnmapAbandonsNone
<1>5. CASE UnmapReturn
  <2>1. layer = 0 /\ UNCHANGED memVars
    BY <1>5 DEF UnmapReturn
  <2>2. \A l \in 1 .. layer : FALSE
    BY <2>1
  <2> QED BY <2>1, <2>2, QuietStepAbandonsNone
<1>6. CASE UnmapNoReclaim
  BY <1>6 DEF UnmapNoReclaim
<1>7. CASE UNCHANGED benchVars
  BY <1>7 DEF NoneAbandoned, Abandoned, benchVars, vars, memVars, callVars, used_regions,
              is_directory_empty
<1> QED BY <1>1, <1>2, <1>3, <1>4, <1>5, <1>6, <1>7 DEF BenchNext, Inherited

\* Only unmap_noreclaim leaves empty directories (OnlyNoReclaimAbandons): unmap
\* reclaims even where unmap_noreclaim has been, and map_frame fills what it
\* links, up to the first page that comes with a present entry.
THEOREM BenchOnlyNoReclaimAbandons ==
  ASSUME BenchRuns
  PROVE  BenchSpec => OnlyNoReclaimAbandons
<1>1. BenchInit => BenchInv
  BY BenchInitEstablishes
<1>2. BenchInv /\ [BenchNext]_benchVars => BenchInv'
  BY BenchStepKeepsInv
<1>3. BenchInv /\ [BenchNext]_benchVars =>
        (clean' => call.op = "UnmapNoReclaim" \/ Abandoned' \subseteq Abandoned)
  BY BenchStepKeepsInv, StepAbandonsNone DEF NoneAbandoned
<1> QED BY <1>1, <1>2, <1>3, PTL DEF BenchSpec, OnlyNoReclaimAbandons
=============================================================================
