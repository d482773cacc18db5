--------------------------- MODULE BenchPageTable ---------------------------
(***************************************************************************)
(* The page table that the benchmarks measure (verif_pt of the             *)
(* single-threaded benchmarks): the code of PageTableImpl with its ghost   *)
(* state removed, and changed in four places.  map_frame answers Ok if the *)
(* frame is already there; there is an unmap_noreclaim, which leaves       *)
(* emptied directories linked; unmap and resolve return what they found;   *)
(* and directories come from the host's allocator, the root included,      *)
(* with whatever they held before.  Nothing checks that frames do not      *)
(* overlap: the benchmark maps one frame everywhere.                       *)
(*                                                                         *)
(* The walks, and the writes that did not change, are those of             *)
(* PageTableImpl; ghost_pt is kept for its interpretation.  clean is a     *)
(* history variable: it tells the behaviours in which the allocator has    *)
(* been kind from those in which leftovers have become entries.            *)
(***************************************************************************)
EXTENDS PageTableImpl

CONSTANT FreshPages   \* the contents of the pages that the allocator returns

ASSUME FreshPagesAssumption ==
  FreshPages \subseteq [EntryIndices -> PageDirectoryEntry(Nat \cup Regions)]

VARIABLES
  ledger,   \* the frames that map_frame has reported at their own size
  clean     \* no page came with an entry that reads as present

benchVars == <<vars, ledger, clean>>

NothingPresent(page) == \A i \in EntryIndices : ~is_mapping(page[i])

\* alloc::alloc leaves the page as it is.
pt_allocator(r) ==
  /\ r \notin regions
  /\ regions' = regions \cup {r}
  /\ \E page \in FreshPages :
       /\ region_view' = [region_view EXCEPT ![r] = page]
       /\ clean' = (clean /\ NothingPresent(page))

BenchInit ==
  /\ \E page \in FreshPages : InitWith(page) /\ clean = NothingPresent(page)
  /\ ledger = EmptyMap

(***************************************************************************)
(* map_frame.                                                              *)
(***************************************************************************)
\* The code demands nothing of its callers.  They pass pages of a size the
\* architecture has, aligned, inside the address space, and the run ends
\* when ReservePages are no longer free.
CallMapFrame(vaddr, pte) ==
  /\ pte.frame.size \in PageSizes
  /\ aligned(vaddr, pte.frame.size)
  /\ aligned(pte.frame.base, pte.frame.size)
  /\ vaddr + pte.frame.size <= UpperVaddr
  /\ Cardinality(Regions \ regions) >= ReservePages
  /\ Begin("map", [op |-> "Map", vaddr |-> vaddr, pte |-> pte])
  /\ UNCHANGED <<ledger, clean>>

MapFound(result) ==
  /\ obs' = PT!MapObs(call.vaddr, call.pte, result)
  /\ Return
  /\ UNCHANGED memVars

\* Seeded fault: any page that is already here will do.
MapExisting_any_frame ==
  /\ pc = "map"
  /\ is_mapping(entry)
  /\ is_page(layer, entry)
  /\ MapFound(PT!Ok)
  /\ UNCHANGED <<ledger, clean>>

\* A page with the same frame base is already here, whatever its size and its
\* rights: Ok.
MapExisting ==
  /\ pc = "map"
  /\ is_mapping(entry)
  /\ is_page(layer, entry)
  /\ entry.addr = call.pte.frame.base
  /\ MapFound(PT!Ok)
  /\ ledger' = IF EntrySize[layer] = call.pte.frame.size
               THEN map_insert(ledger, call.vaddr, call.pte.frame) ELSE ledger
  /\ UNCHANGED clean

MapOccupied ==
  /\ pc = "map"
  /\ is_mapping(entry)
  /\ IF is_dir(layer, entry) THEN EntrySize[layer] = call.pte.frame.size
                             ELSE entry.addr # call.pte.frame.base
  /\ MapFound(PT!ErrOverlap)
  /\ UNCHANGED <<ledger, clean>>

MapNewPage ==
  /\ MapPage
  /\ ledger' = map_insert(ledger, call.vaddr, call.pte.frame)
  /\ UNCHANGED clean

MapNewDir ==
  /\ pc = "map"
  /\ ~is_mapping(entry)
  /\ EntrySize[layer] # call.pte.frame.size
  /\ \E r \in Regions : pt_allocator(r) /\ new_dir' = r
  /\ pc' = "link"
  /\ UNCHANGED <<ghost_pt, call, layer, path, obs, old, ledger>>

(***************************************************************************)
(* unmap and unmap_noreclaim.                                              *)
(***************************************************************************)
CallUnmapPage(op, vaddr) ==
  /\ Begin("unmap", [op |-> op, vaddr |-> vaddr])
  /\ UNCHANGED <<ledger, clean>>

\* entry & !MASK_ADDR
flag_bits(e) == [e EXCEPT !.addr = 0]

\* The result is made of the entry as it was read.
Unmapped(l, e) ==
  [tag |-> "Ok", frame |-> MemRegion(e.addr, EntrySize[l]), flags |-> flag_bits(e)]

\* Seeded fault: the result is read back from the cleared entry.
ClearPage_reread ==
  /\ is_mapping(entry)
  /\ is_page(layer, entry)
  /\ aligned(call.vaddr, EntrySize[layer])
  /\ write(ptr, idx, ZeroEntry)
  /\ obs' = PT!UnmapObs(call.vaddr, Unmapped(layer, ZeroEntry))
  /\ ledger' = map_remove(ledger, call.vaddr)
  /\ UNCHANGED <<regions, ghost_pt, clean>>

ClearPage ==
  /\ is_mapping(entry)
  /\ is_page(layer, entry)
  /\ aligned(call.vaddr, EntrySize[layer])
  /\ write(ptr, idx, ZeroEntry)
  /\ obs' = PT!UnmapObs(call.vaddr, Unmapped(layer, entry))
  /\ ledger' = map_remove(ledger, call.vaddr)
  /\ UNCHANGED <<regions, ghost_pt, clean>>

UnmapReclaim ==
  /\ pc = "unmap" /\ call.op = "Unmap"
  /\ ClearPage
  /\ pc' = "cleanup"
  /\ UNCHANGED <<call, layer, path, new_dir, old>>

UnmapNoReclaim ==
  /\ pc = "unmap" /\ call.op = "UnmapNoReclaim"
  /\ ClearPage
  /\ Return

(***************************************************************************)
(* resolve.                                                                *)
(***************************************************************************)
ResolveAddress ==
  /\ pc = "resolve"
  /\ is_mapping(entry)
  /\ is_page(layer, entry)
  /\ LET offset == call.vaddr - entry_base(layer, path[layer].base, idx)
     IN obs' = PT!ResolveObs(call.vaddr,
                 [tag |-> "Ok", paddr |-> entry.addr + offset,
                  flags |-> flag_bits(entry)])
  /\ Return
  /\ UNCHANGED <<memVars, ledger, clean>>

(***************************************************************************)
(* The specification.                                                      *)
(***************************************************************************)
\* What the copy has left as it was.
Inherited ==
  /\ \/ MapDescend \/ MapLinkDir
     \/ UnmapDescend \/ UnmapMissing \/ UnlinkDir \/ KeepDir \/ UnmapReturn
     \/ ResolveDescend \/ ResolveEmpty
  /\ UNCHANGED <<ledger, clean>>

BenchNext ==
  \/ \E vaddr \in VAddrs : \E pte \in PTEs : CallMapFrame(vaddr, pte)
  \/ \E vaddr \in VAddrs : \E op \in {"Unmap", "UnmapNoReclaim"} : CallUnmapPage(op, vaddr)
  \/ \E vaddr \in ResolveVAddrs : CallResolve(vaddr) /\ UNCHANGED <<ledger, clean>>
  \/ MapExisting \/ MapOccupied \/ MapNewPage \/ MapNewDir
  \/ UnmapReclaim \/ UnmapNoReclaim
  \/ ResolveAddress
  \/ Inherited

BenchSpec == BenchInit /\ [][BenchNext]_benchVars

(***************************************************************************)
(* The inductive invariant.                                                *)
(***************************************************************************)
LedgerIsMapped ==
  \A v \in DOMAIN ledger : v \in DOMAIN interp /\ interp[v].frame = ledger[v]

\* The last answer of map_frame or unmap still stands when the next call
\* is decided.
LastAnswerStands ==
  /\ obs.op = "Map" /\ obs.result = PT!Ok =>
       \E b \in DOMAIN interp : Covers(interp, b, obs.vaddr)
  /\ obs.op = "Unmap" /\ obs.result.tag = "Ok" => obs.vaddr \notin DOMAIN interp

CleanInv ==
  /\ WalkInv
  /\ pc \in {"unmap", "cleanup"} => call.op \in {"Unmap", "UnmapNoReclaim"}
  /\ LedgerIsMapped
  /\ LastAnswerStands

\* The directories form a tree and the running call holds a chain of them,
\* as in PageTableImpl, although unmap_noreclaim leaves empty directories and
\* the callers promise less; and what was answered is what is mapped.  All of
\* this as long as no page has come with a present entry; main.rs:46-54 does
\* not see to that.
BenchInv == clean => CleanInv

(***************************************************************************)
(* Properties.  The first three are conditions on the allocator, too: they *)
(* speak of the steps up to the first page that comes with an entry that   *)
(* reads as present.  The last one is what main.rs asserts without it.     *)
(***************************************************************************)
\* The directories that are empty and that the running call will neither
\* fill nor unlink.
Abandoned ==
  {r \in used_regions \ {CR3} :
     /\ is_directory_empty(r)
     /\ pc \in {"map", "link", "cleanup"} => \A l \in 1 .. layer : path[l].ptr # r}

MapAnswer(vaddr, pte, result) ==
  LET taken    == candidate_mapping_overlaps_existing_vmem(interp, vaddr, pte)
      there    == \E b \in DOMAIN interp :
                    Covers(interp, b, vaddr) /\ interp[b].frame.base = pte.frame.base
      leftover == \E r \in Abandoned :
                    between(ghost_pt[r].base, vaddr, vaddr + pte.frame.size)
  IN \/ result = PT!Ok /\ ~taken /\ interp' = map_insert(interp, vaddr, pte)
     \/ result = PT!Ok /\ there /\ interp' = interp
     \/ result = PT!ErrOverlap /\ (taken \/ leftover) /\ interp' = interp

UnmapAnswer(vaddr, result) ==
  IF vaddr \in DOMAIN interp
  THEN result.frame = interp[vaddr].frame /\ interp' = map_remove(interp, vaddr)
  ELSE result = PT!ErrNoSuchMapping /\ interp' = interp

ResolveAnswer(vaddr, result) ==
  /\ interp' = interp
  /\ IF result = PT!ErrUnmapped
     THEN \A b \in DOMAIN interp : ~Covers(interp, b, vaddr)
     ELSE \E b \in DOMAIN interp :
            Covers(interp, b, vaddr) /\ result.paddr = interp[b].frame.base + (vaddr - b)

\* Every call acts on the mappings in the one write that decides its result,
\* and the result says what it did.  map_frame fails only where something is
\* mapped or where unmap_noreclaim has left an empty directory.  This is what
\* the benchmark loops (main.rs:84-99 and 135-164) rest on.
CallsDoAsTheyAnswer ==
  [][clean' =>
       IF obs' = obs THEN interp' = interp
       ELSE /\ call.op = "Map" => MapAnswer(call.vaddr, call.pte, obs'.result)
            /\ call.op \in {"Unmap", "UnmapNoReclaim"} => UnmapAnswer(call.vaddr, obs'.result)
            /\ call.op = "Resolve" => ResolveAnswer(call.vaddr, obs'.result)]_benchVars

\* What map_frame has reported as mapped stays until it is unmapped, whatever
\* is mapped, refused and unmapped around it, and unmap then returns the frame
\* that was passed.  A report that stems from a larger page is none.
UnmapReturnsWhatWasMapped ==
  [][(clean' /\ pc = "unmap" /\ obs' # obs /\ call.vaddr \in DOMAIN ledger)
       => (obs'.result.tag = "Ok" /\ obs'.result.frame = ledger[call.vaddr])]_benchVars

\* Only unmap_noreclaim leaves empty directories: unmap unlinks what it has
\* emptied even where unmap_noreclaim has been, and map_frame fills what it
\* links.
OnlyNoReclaimAbandons ==
  [][clean' => call.op = "UnmapNoReclaim" \/ Abandoned' \subseteq Abandoned]_benchVars

\* main.rs:159-162: "match pt.unmap(i * 4096) { ErrNoSuchMapping => panic!()".
\* An unmap that follows a map_frame at its address finds something to unmap.
\* It depends on the caller, who maps pages of one size, and on the pages of
\* the allocator.
MappedPageCanBeUnmapped ==
  [][(pc = "unmap" /\ obs' # obs /\ obs.op = "Map" /\ obs.vaddr = call.vaddr)
       => obs'.result # PT!ErrNoSuchMapping]_benchVars
=============================================================================
