---------------------------- MODULE PageTableImpl ----------------------------
(***************************************************************************)
(* The page table implementation (impl_u/l2_impl.rs): map_frame, unmap and *)
(* resolve as they run over directories in memory, one allocation or one   *)
(* memory write at a time, because the MMU may walk the same memory        *)
(* between any two writes.                                                 *)
(*                                                                         *)
(* The recursion of the *_aux functions is a walk down the variable layer; *)
(* path[l] holds the arguments ptr and base of the frame at layer l, which *)
(* unmap_aux needs again on its way back up.  A directory is named by the  *)
(* region it occupies.                                                     *)
(***************************************************************************)
EXTENDS PagingDefs, FiniteSets

CONSTANTS
  VAddrs,         \* the virtual addresses callers map and unmap
  ResolveVAddrs,  \* the virtual addresses callers resolve
  PTEs,           \* the page table entries callers pass
  Regions,        \* the pages that can hold a directory
  CR3,            \* the page of the root directory
  ReservePages    \* pages the caller keeps ready before it maps a frame

ASSUME ImplAssumption ==
  /\ VAddrs \subseteq Nat
  /\ ResolveVAddrs \subseteq Nat
  /\ PTEs \subseteq PageTableEntry
  /\ IsFiniteSet(Regions)
  /\ CR3 \in Regions
  /\ ReservePages \in Nat

\* l2_impl.rs is written for x86_arch alone, whose directories have more than
\* one entry, so that the sizes of the layers differ (assumed at 1384); and
\* the buffer of pages has one for each layer below the root: "3+ pages".
ASSUME BuffersAssumption ==
  /\ NumEntries > 1
  /\ ReservePages >= LastLayer

VARIABLES
  region_view,    \* PageTableMemory.region_view: the entries of each page
  regions,        \* PageTableMemory.regions: the pages allocated so far
  ghost_pt,       \* PageTable.ghost_pt: layer and base of each linked page
  pc,             \* where the running call is
  call,           \* the running call and its arguments
  layer,          \* the layer the running call is at
  path,           \* ptr and base of each frame of the recursion
  new_dir,        \* the page allocated but not yet linked
  obs,            \* the last call decided, and its result
  old             \* old(self): the memory when the running call began

memVars  == <<region_view, regions, ghost_pt>>
callVars == <<pc, call, layer, path, new_dir, old>>
vars     == <<memVars, callVars, obs>>

INSTANCE PageDirectoryEntries

(***************************************************************************)
(* Memory.  A page that was never allocated holds anything: here, entries  *)
(* that look present.  alloc_page hands out zeroed pages.                  *)
(***************************************************************************)
\* The value 0u64.
ZeroEntry == zero_entry(0)

ZeroPage == [i \in EntryIndices |-> ZeroEntry]

JunkEntry == [ZeroEntry EXCEPT !.P = TRUE, !.PS = TRUE]

JunkPage == [i \in EntryIndices |-> JunkEntry]

\* Seeded fault: a page that was handed out before is handed out again.
alloc_page_again(r) ==
  /\ regions' = regions \cup {r}
  /\ region_view' = [region_view EXCEPT ![r] = ZeroPage]

alloc_page(r) ==
  /\ r \notin regions
  /\ regions' = regions \cup {r}
  /\ region_view' = [region_view EXCEPT ![r] = ZeroPage]

write(ptr, i, e) == region_view' = [region_view EXCEPT ![ptr][i] = e]

(***************************************************************************)
(* Interpretation: the mappings held in the linked directories.            *)
(***************************************************************************)
view_at(r, i) == region_view[r][i]

IsPageAt(r, i) ==
  is_mapping(view_at(r, i)) /\ is_page(ghost_pt[r].layer, view_at(r, i))

IsDirAt(r, i) ==
  is_mapping(view_at(r, i)) /\ is_dir(ghost_pt[r].layer, view_at(r, i))

Slots == {s \in (DOMAIN ghost_pt) \X EntryIndices : IsPageAt(s[1], s[2])}

SlotBase(s) == entry_base(ghost_pt[s[1]].layer, ghost_pt[s[1]].base, s[2])

\* PageTableEntry of a page entry e of a directory at layer l.
EntryPTE(l, e) ==
  [frame |-> MemRegion(e.addr, EntrySize[l]), flags |-> flags(e)]

SlotPTE(s) == EntryPTE(ghost_pt[s[1]].layer, view_at(s[1], s[2]))

interp ==
  [b \in {SlotBase(s) : s \in Slots} |->
     SlotPTE(CHOOSE s \in Slots : SlotBase(s) = b)]

PT == INSTANCE PageTableSpec WITH
        map <- interp, VAddrs <- VAddrs \cup ResolveVAddrs

(***************************************************************************)
(* Calls and the frames of their recursion.                                *)
(***************************************************************************)
NoCall == [op |-> "None"]

RootFrame == [ptr |-> CR3, base |-> 0]

NoOld == [region_view |-> <<>>, regions |-> {}]

InitWith(root) ==
  /\ region_view = [r \in Regions |-> IF r = CR3 THEN root ELSE JunkPage]
  /\ regions = {CR3}
  /\ ghost_pt = [r \in {CR3} |-> [layer |-> 0, base |-> 0]]
  /\ pc = "idle"
  /\ call = NoCall
  /\ layer = 0
  /\ path = [l \in Layers |-> RootFrame]
  /\ new_dir = CR3
  /\ obs = PT!NoObs
  /\ old = NoOld

Init == InitWith(ZeroPage)

Begin(label, c) ==
  /\ pc = "idle"
  /\ pc' = label
  /\ call' = c
  /\ old' = [region_view |-> region_view, regions |-> regions]
  /\ UNCHANGED <<memVars, layer, path, new_dir, obs>>

Return ==
  /\ pc' = "idle"
  /\ call' = NoCall
  /\ layer' = 0
  /\ path' = [l \in Layers |-> RootFrame]
  /\ old' = NoOld
  /\ UNCHANGED new_dir

ptr == path[layer].ptr

idx == index_for_vaddr(layer, path[layer].base, call.vaddr)

entry == view_at(ptr, idx)

\* Seeded fault: the recursive call gets the base of the caller.
Enter_same_base(dir) ==
  /\ layer' = layer + 1
  /\ path' = [path EXCEPT ![layer + 1] = [ptr |-> dir, base |-> path[layer].base]]

\* The recursive call on the directory dir that the current entry refers to.
Enter(dir) ==
  /\ layer' = layer + 1
  /\ path' = [path EXCEPT ![layer + 1] =
                [ptr |-> dir, base |-> entry_base(layer, path[layer].base, idx)]]

(***************************************************************************)
(* map_frame.                                                              *)
(***************************************************************************)

\* Seeded fault: the buffer is one page short.
CallMap_short_buffer(vaddr, pte) ==
  /\ PT!step_Map_enabled(interp, vaddr, pte)
  /\ Cardinality(Regions \ regions) >= ReservePages - 1
  /\ Begin("map", [op |-> "Map", vaddr |-> vaddr, pte |-> pte])

\* mem.rs:88 assumes that alloc_page never fails because the caller keeps a
\* buffer of pages: ReservePages.
CallMap(vaddr, pte) ==
  /\ PT!step_Map_enabled(interp, vaddr, pte)
  /\ Cardinality(Regions \ regions) >= ReservePages
  /\ Begin("map", [op |-> "Map", vaddr |-> vaddr, pte |-> pte])

MapDescend ==
  /\ pc = "map"
  /\ is_mapping(entry)
  /\ is_dir(layer, entry)
  /\ EntrySize[layer] # call.pte.frame.size
  /\ Enter(entry.addr)
  /\ UNCHANGED <<memVars, pc, call, new_dir, obs, old>>

\* Seeded fault: the entry is written before the test.
MapOverlap_after_write ==
  /\ pc = "map"
  /\ is_mapping(entry)
  /\ is_dir(layer, entry) => EntrySize[layer] = call.pte.frame.size
  /\ write(ptr, idx, new_page_entry(layer, call.pte))
  /\ obs' = PT!MapObs(call.vaddr, call.pte, PT!ErrOverlap)
  /\ Return
  /\ UNCHANGED <<regions, ghost_pt>>

MapOverlap ==
  /\ pc = "map"
  /\ is_mapping(entry)
  /\ is_dir(layer, entry) => EntrySize[layer] = call.pte.frame.size
  /\ obs' = PT!MapObs(call.vaddr, call.pte, PT!ErrOverlap)
  /\ Return
  /\ UNCHANGED memVars

MapPage ==
  /\ pc = "map"
  /\ ~is_mapping(entry)
  /\ EntrySize[layer] = call.pte.frame.size
  /\ write(ptr, idx, new_page_entry(layer, call.pte))
  /\ obs' = PT!MapObs(call.vaddr, call.pte, PT!Ok)
  /\ Return
  /\ UNCHANGED <<regions, ghost_pt>>

MapAllocDir ==
  /\ pc = "map"
  /\ ~is_mapping(entry)
  /\ EntrySize[layer] # call.pte.frame.size
  /\ \E r \in Regions : alloc_page(r) /\ new_dir' = r
  /\ pc' = "link"
  /\ UNCHANGED <<ghost_pt, call, layer, path, obs, old>>

MapLinkDir ==
  /\ pc = "link"
  /\ write(ptr, idx, new_dir_entry(layer, new_dir))
  /\ ghost_pt' = map_insert(ghost_pt, new_dir,
                   [layer |-> layer + 1,
                    base |-> entry_base(layer, path[layer].base, idx)])
  /\ Enter(new_dir)
  /\ pc' = "map"
  /\ new_dir' = CR3
  /\ UNCHANGED <<regions, call, obs, old>>

(***************************************************************************)
(* unmap.  The result is decided when the page entry is cleared; on the    *)
(* way back up each directory that has become empty is unlinked from its   *)
(* parent.  Nothing gives the page of the directory back.                  *)
(***************************************************************************)
CallUnmap(vaddr) ==
  /\ PT!step_Unmap_enabled(vaddr)
  /\ Begin("unmap", [op |-> "Unmap", vaddr |-> vaddr])

UnmapDescend ==
  /\ pc = "unmap"
  /\ is_mapping(entry)
  /\ is_dir(layer, entry)
  /\ Enter(entry.addr)
  /\ UNCHANGED <<memVars, pc, call, new_dir, obs, old>>

UnmapMissing ==
  /\ pc = "unmap"
  /\ is_mapping(entry) =>
       is_page(layer, entry) /\ ~aligned(call.vaddr, EntrySize[layer])
  /\ obs' = PT!UnmapObs(call.vaddr, PT!ErrNoSuchMapping)
  /\ Return
  /\ UNCHANGED memVars

\* Seeded fault: any address within a page unmaps it.
UnmapPage_unaligned ==
  /\ pc = "unmap"
  /\ is_mapping(entry)
  /\ is_page(layer, entry)
  /\ write(ptr, idx, ZeroEntry)
  /\ obs' = PT!UnmapObs(call.vaddr, PT!Ok)
  /\ pc' = "cleanup"
  /\ UNCHANGED <<regions, ghost_pt, call, layer, path, new_dir, old>>

UnmapPage ==
  /\ pc = "unmap"
  /\ is_mapping(entry)
  /\ is_page(layer, entry)
  /\ aligned(call.vaddr, EntrySize[layer])
  /\ write(ptr, idx, ZeroEntry)
  /\ obs' = PT!UnmapObs(call.vaddr, PT!Ok)
  /\ pc' = "cleanup"
  /\ UNCHANGED <<regions, ghost_pt, call, layer, path, new_dir, old>>

is_directory_empty(dir) == \A i \in EntryIndices : ~is_mapping(view_at(dir, i))

\* Seeded fault: the emptied directory's own entry is cleared once more,
\* and its parent's is left.
UnlinkDir_wrong_entry ==
  /\ pc = "cleanup"
  /\ layer > 0
  /\ is_directory_empty(ptr)
  /\ write(ptr, idx, ZeroEntry)
  /\ ghost_pt' = map_remove(ghost_pt, ptr)
  /\ layer' = layer - 1
  /\ UNCHANGED <<regions, pc, call, path, new_dir, obs, old>>

UnlinkDir ==
  /\ pc = "cleanup"
  /\ layer > 0
  /\ is_directory_empty(ptr)
  /\ LET parent == path[layer - 1]
     IN write(parent.ptr,
              index_for_vaddr(layer - 1, parent.base, call.vaddr), ZeroEntry)
  /\ ghost_pt' = map_remove(ghost_pt, ptr)
  /\ layer' = layer - 1
  /\ UNCHANGED <<regions, pc, call, path, new_dir, obs, old>>

\* Seeded fault: emptied directories may be kept.
KeepDir_noreclaim ==
  /\ pc = "cleanup"
  /\ layer > 0
  /\ layer' = layer - 1
  /\ UNCHANGED <<memVars, pc, call, path, new_dir, obs, old>>

KeepDir ==
  /\ pc = "cleanup"
  /\ layer > 0
  /\ ~is_directory_empty(ptr)
  /\ layer' = layer - 1
  /\ UNCHANGED <<memVars, pc, call, path, new_dir, obs, old>>

UnmapReturn ==
  /\ pc = "cleanup"
  /\ layer = 0
  /\ Return
  /\ UNCHANGED <<memVars, obs>>

(***************************************************************************)
(* resolve.                                                                *)
(***************************************************************************)
CallResolve(vaddr) ==
  Begin("resolve", [op |-> "Resolve", vaddr |-> vaddr])

\* resolve is not told that vaddr lies in the address space.  An index past
\* the end of the root directory reads whatever the next page holds.
ReadInBounds == idx \in EntryIndices

read_entries == IF ReadInBounds THEN {entry} ELSE {ZeroEntry, JunkEntry}

ResolveDescend ==
  /\ pc = "resolve"
  /\ \E e \in read_entries :
       /\ is_mapping(e)
       /\ is_dir(layer, e)
       /\ Enter(e.addr)
  /\ UNCHANGED <<memVars, pc, call, new_dir, obs, old>>

ResolvePage ==
  /\ pc = "resolve"
  /\ \E e \in read_entries :
       /\ is_mapping(e)
       /\ is_page(layer, e)
       /\ obs' = PT!ResolveObs(call.vaddr,
                   PT!Resolved(entry_base(layer, path[layer].base, idx),
                               EntryPTE(layer, e)))
  /\ Return
  /\ UNCHANGED memVars

ResolveEmpty ==
  /\ pc = "resolve"
  /\ \E e \in read_entries : ~is_mapping(e)
  /\ obs' = PT!ResolveObs(call.vaddr, PT!ErrUnmapped)
  /\ Return
  /\ UNCHANGED memVars

(***************************************************************************)
(* The specification.                                                      *)
(***************************************************************************)
Call ==
  \/ \E vaddr \in VAddrs : \E pte \in PTEs : CallMap(vaddr, pte)
  \/ \E vaddr \in VAddrs : CallUnmap(vaddr)
  \/ \E vaddr \in ResolveVAddrs : CallResolve(vaddr)

Step ==
  \/ MapDescend \/ MapOverlap \/ MapPage \/ MapAllocDir \/ MapLinkDir
  \/ UnmapDescend \/ UnmapMissing \/ UnmapPage
  \/ UnlinkDir \/ KeepDir \/ UnmapReturn
  \/ ResolveDescend \/ ResolvePage \/ ResolveEmpty

Next == Call \/ Step

Spec == Init /\ [][Next]_vars

(***************************************************************************)
(* Invariants (PageTable::inv_at, l1::Directory::inv).                     *)
(***************************************************************************)
used_regions == DOMAIN ghost_pt

\* Types, and: the directories in use are pages that have been allocated.
TypeOK ==
  /\ region_view \in [Regions -> [EntryIndices -> PageDirectoryEntry(Nat \cup Regions)]]
  /\ regions \in SUBSET Regions
  /\ used_regions \in SUBSET regions
  /\ ghost_pt \in [used_regions -> [layer : Layers, base : Nat]]
  /\ pc \in {"idle", "map", "link", "unmap", "cleanup", "resolve"}
  /\ layer \in Layers
  /\ path \in [Layers -> [ptr : Regions, base : Nat]]
  /\ new_dir \in Regions

\* The directories form a tree rooted at CR3 and each one knows its place: a
\* directory entry refers to an allocated page one layer down whose base is
\* the address the entry stands for, and no page is referred to twice.
DirectoriesFormTree ==
  /\ contains_pair(ghost_pt, CR3, [layer |-> 0, base |-> 0])
  /\ \A r \in used_regions : \A i \in EntryIndices :
       IsDirAt(r, i) =>
         contains_pair(ghost_pt, view_at(r, i).addr,
                       [layer |-> ghost_pt[r].layer + 1, base |-> SlotBase(<<r, i>>)])
  /\ \A r \in used_regions \ {CR3} :
       \E s \in used_regions \X EntryIndices :
         /\ IsDirAt(s[1], s[2]) /\ view_at(s[1], s[2]).addr = r
         /\ \A t \in used_regions \X EntryIndices :
              IsDirAt(t[1], t[2]) /\ view_at(t[1], t[2]).addr = r => t = s

\* Page entries sit at layers that support pages and are aligned to them.
PagesAreWellPlaced ==
  \A s \in Slots :
    /\ ghost_pt[s[1]].layer > 0
    /\ aligned(view_at(s[1], s[2]).addr, EntrySize[ghost_pt[s[1]].layer])

\* A directory is never left empty, except the root and, while a call runs,
\* the directories on its path: map_frame fills what it has linked, and unmap
\* unlinks what it has emptied.  An empty directory left behind would make a
\* later map_frame of a large page fail although nothing is mapped there.
NoEmptyDirectories ==
  \A r \in used_regions \ {CR3} :
    is_directory_empty(r) =>
      /\ pc \in {"map", "link", "cleanup"}
      /\ \E l \in 1 .. layer : path[l].ptr = r

\* The frames of the running call are the directories that lead to the
\* address it is about: no step of the call itself has unlinked one of them.
PathIsLinked ==
  pc # "idle" =>
    \A l \in 0 .. layer :
      /\ contains_pair(ghost_pt, path[l].ptr, [layer |-> l, base |-> path[l].base])
      /\ ReadInBounds =>
           between(call.vaddr, path[l].base,
                   path[l].base + NumEntries * EntrySize[l])

\* The pages kept ready are enough: alloc_page is never called without one.
AllocNeverFails ==
  pc = "map" /\ ~is_mapping(entry) /\ EntrySize[layer] # call.pte.frame.size
    => Regions \ regions # {}

(***************************************************************************)
(* The inductive invariant: the tree, as it is between any two writes, and *)
(* what the running call knows of it.                                      *)
(***************************************************************************)
\* Every directory spans an aligned part of the address space.
DirectoriesSpan ==
  \A r \in used_regions :
    /\ aligned(ghost_pt[r].base, NumEntries * EntrySize[ghost_pt[r].layer])
    /\ ghost_pt[r].base + NumEntries * EntrySize[ghost_pt[r].layer] <= UpperVaddr

\* Entries of directories grant all access; those of pages hold a frame.
EntriesAreFilled ==
  \A r \in used_regions : \A i \in EntryIndices :
    /\ IsDirAt(r, i) => view_at(r, i).RW /\ view_at(r, i).US /\ ~view_at(r, i).XD
    /\ IsPageAt(r, i) => view_at(r, i).addr \in Nat

\* The part of the address space that entry i of directory r stands for.
InEntry(v, r, i) ==
  LET l == ghost_pt[r].layer
  IN between(v, entry_base(l, ghost_pt[r].base, i),
                entry_base(l, ghost_pt[r].base, i) + EntrySize[l])

\* A walk for an address can end at one entry only: none of those that do not
\* refer to a directory begins within another.
LeavesAreDisjoint ==
  \A r \in used_regions : \A i \in EntryIndices :
    ~IsDirAt(r, i) =>
      \A q \in used_regions : \A j \in EntryIndices :
        ~IsDirAt(q, j) /\ InEntry(SlotBase(<<q, j>>), r, i) => r = q /\ i = j

\* The arguments of the running call, as far as its walk depends on them;
\* map_frame has not gone past the layer of its page.
ArgsInv ==
  /\ pc = "idle" => layer = 0 /\ path[0] = RootFrame
  /\ pc \in {"map", "link"} =>
       /\ call.op = "Map" /\ call.vaddr \in VAddrs /\ call.pte \in PTEs
       /\ aligned(call.vaddr, call.pte.frame.size)
       /\ aligned(call.pte.frame.base, call.pte.frame.size)
       /\ call.vaddr + call.pte.frame.size <= UpperVaddr
       /\ \E l \in Layers \ {0} :
            /\ call.pte.frame.size = EntrySize[l]
            /\ IF pc = "map" THEN l >= layer ELSE l > layer
  /\ pc \in {"unmap", "cleanup"} => call.vaddr \in VAddrs /\ call.vaddr < UpperVaddr
  /\ pc = "resolve" =>
       /\ call.op = "Resolve" /\ call.vaddr \in ResolveVAddrs
       /\ layer > 0 => call.vaddr < UpperVaddr

\* The arguments are those that the guard of the call has let through.
CallInv ==
  /\ ArgsInv
  /\ pc \in {"map", "link"} => candidate_mapping_in_bounds(call.vaddr, call.pte)
  /\ pc \in {"unmap", "cleanup"} => call.op = "Unmap"

\* Each frame of the recursion was entered through the entry for the address.
PathIsChain ==
  pc # "idle" =>
    /\ path[0] = RootFrame
    /\ \A l \in 0 .. layer :
         /\ contains_pair(ghost_pt, path[l].ptr, [layer |-> l, base |-> path[l].base])
         /\ call.vaddr < UpperVaddr =>
              between(call.vaddr, path[l].base,
                      path[l].base + NumEntries * EntrySize[l])
    /\ \A l \in 0 .. (layer - 1) :
         LET i == index_for_vaddr(l, path[l].base, call.vaddr)
         IN IsDirAt(path[l].ptr, i) /\ view_at(path[l].ptr, i).addr = path[l + 1].ptr

\* A page that is about to be linked is fresh and empty, and its place is free.
LinkInv ==
  pc = "link" =>
    /\ new_dir \in regions \ used_regions
    /\ is_directory_empty(new_dir)
    /\ ~is_mapping(entry)

\* There is a page left for every layer map_frame may still go down.
BufferInv ==
  /\ pc = "map"  => Cardinality(Regions \ regions) + layer >= LastLayer
  /\ pc = "link" => Cardinality(Regions \ regions) + layer + 1 >= LastLayer

\* Until map_frame stands in a directory of its own making, and until unmap
\* clears the page's entry, nothing is written.
NothingWritten ==
  pc \in {"map", "unmap"} =>
    \/ region_view = old.region_view /\ regions = old.regions
    \/ pc = "map" /\ is_directory_empty(ptr)

\* What the caller has promised still holds when the result of its call is
\* decided: no other write of the call changes what is mapped.
EnabledInv ==
  /\ pc \in {"map", "link"} => PT!step_Map_enabled(interp, call.vaddr, call.pte)
  /\ pc = "unmap" => PT!step_Unmap_enabled(call.vaddr)

TreeInv ==
  /\ DirectoriesFormTree
  /\ DirectoriesSpan
  /\ EntriesAreFilled
  /\ PagesAreWellPlaced
  /\ LeavesAreDisjoint

\* What the walks and writes of a call rest on.  It leaves out what callers
\* promise, and what other calls leave behind.
WalkInv == TypeOK /\ TreeInv /\ ArgsInv /\ PathIsChain /\ LinkInv

RunInv ==
  /\ CallInv
  /\ PathIsChain
  /\ NoEmptyDirectories
  /\ LinkInv
  /\ BufferInv
  /\ NothingWritten

IInv == TypeOK /\ TreeInv /\ RunInv

(***************************************************************************)
(* The MMU.  A walk takes fixed bit fields of the address as indices and   *)
(* lets each entry on the way narrow the access rights.                    *)
(***************************************************************************)
mmu_index(l, vaddr) == (vaddr \div EntrySize[l]) % NumEntries

\* The entries a walk for vaddr reads, down to layer l.
mmu_read(vaddr) ==
  LET read[l \in Layers] ==
        IF l = 0 THEN view_at(CR3, mmu_index(0, vaddr))
        ELSE LET up == read[l - 1]
             IN IF is_mapping(up) /\ is_dir(l - 1, up)
                THEN view_at(up.addr, mmu_index(l, vaddr))
                ELSE up
  IN read

\* A walk ends at the first layer whose entry is not a directory.
mmu_last(vaddr) ==
  CHOOSE l \in Layers :
    LET Dir(k) == is_mapping(mmu_read(vaddr)[k]) /\ is_dir(k, mmu_read(vaddr)[k])
    IN ~Dir(l) /\ \A k \in 0 .. (l - 1) : Dir(k)

mmu_walk(vaddr) ==
  LET read == mmu_read(vaddr)
      last == mmu_last(vaddr)
      size == EntrySize[last]
  IN IF is_mapping(read[last])
     THEN {[base  |-> vaddr - (vaddr % size),
            frame |-> MemRegion(read[last].addr, size),
            flags |->
              [is_writable     |-> \A l \in 0 .. last : read[l].RW,
               is_supervisor   |-> \E l \in 0 .. last : ~read[l].US,
               disable_execute |-> \E l \in 0 .. last : read[l].XD]]}
     ELSE {}

\* hardware.rs:36 takes as an axiom that a walk finds what interp says.  Here
\* it is checked, for a walk at every word and between any two memory writes
\* of map_frame and unmap, half-built and half-removed directories included.
MMUWalkFindsInterp ==
  \A vaddr \in 0 .. (UpperVaddr - 1) :
    mmu_walk(vaddr) =
      {[base |-> b, frame |-> interp[b].frame, flags |-> interp[b].flags] :
         b \in {x \in DOMAIN interp : Covers(interp, x, vaddr)}}

(***************************************************************************)
(* Action properties and refinement.                                       *)
(***************************************************************************)

\* map_frame_aux and unmap_aux on Err: "unchanged", self === old(self).
FailedCallLeavesMemory ==
  [][(pc \in {"map", "unmap"} /\ obs' # obs /\ obs'.result # PT!Ok)
       => (region_view' = old.region_view /\ regions' = old.regions)]_vars

\* Every call behaves as the page table specification says: its effect on
\* the interpreted map takes place in one of its writes, together with the
\* decision of its result, and its other writes leave the map alone.
ImplementsPageTableSpec == PT!Spec

\* unmap_aux, l2_impl.rs:2203-2208: the regions that leave used_regions are
\* exactly the regions that leave the memory.
UnmapReturnsRemovedRegions ==
  [][pc = "cleanup" =>
       \E removed \in SUBSET regions :
         /\ regions = regions' \cup removed
         /\ used_regions = used_regions' \cup removed
         /\ removed \cap regions' = {}
         /\ removed \cap used_regions' = {}]_vars

\* resolve reads only within a directory page, as the precondition of
\* PageTableMemory::read demands (mem.rs:130).
ReadsStayInPage == pc # "idle" => ReadInBounds
=============================================================================
