# Verified paging for x86-64: TLA+ models and proofs

This directory holds TLA+ specifications of the page table in
`src/verified-page-table`, TLC configurations that check them on small
instances, and TLAPS proofs of the properties that matter most for every
instance.  The repository proves much of the same code with Verus.  The models
look at it from the side that Verus proofs of sequential functions do not
cover: what an MMU or a user process sees *between* two memory writes, what the
`assume`d steps of the Rust proof rest on, and whether the layers of
specification really fit together when they run.

`PROJECT.json` is the machine-readable index: components, runs, the source
lines behind every definition, hazards, findings and theorems.

## The system

| Component | State | Operations | What makes it correct |
|---|---|---|---|
| Shared definitions (`definitions_t.rs`) | none | geometry of layers, regions, overlap tests | entries of a layer tile an entry of the layer above |
| Flat page table contents, L0 (`impl_u/l0.rs`) | map: base → entry | map_frame, unmap, resolve | aligned, of a page size, in bounds, no overlap |
| Page table specification (`impl_u/spec_pt.rs`) | map | Map, Unmap, Resolve with results | the same, and one translation per address |
| User-level specification (`spec_t/hlspec.rs`) | virtual memory, mappings | load, store, fault, Map, Unmap, Resolve | (it is the promise) |
| Hardware (`spec_t/hardware.rs`) | physical memory, page table memory, TLB | load/store through the TLB, fault, TLB fill and evict, page table operation | a process reaches memory only through the TLB |
| Operating system (`spec_t/os.rs`) | the hardware's | Map, Unmap (with TLB invalidation), Resolve, hardware steps | TLB ⊆ page table; no shared frames; implements the user-level specification |
| Page table memory (`spec_t/mem.rs`) | pages, allocated regions, cr3 | alloc_page, read, write, TLB::invalidate_entry | accesses stay within an allocated page |
| Implementation, L2 (`impl_u/l2_impl.rs`) | directories in memory, ghost structure | map_frame, unmap, resolve, recursive over layers | directories form a tree, none is left empty, a walk finds what the tree says |
| Directory tree, L1 (`impl_u/l1.rs`) | a tree value | the same over trees | refines L0 |
| Interface and refinement proofs (`impl_spec.rs`, `l2_refinement.rs`, `os_refinement.rs`) | none | call L2 from the specification's point of view | preconditions of L2 follow from the specification's |
| NrOS baseline (`nros_vmem.rs` of the benchmarks) | four layers of tables | map_generic, unmap, resolve_addr | a map of a region adds that region and nothing else, also when it fails half-way |
| Entries of directories (`PageDirectoryEntry`, in L2) | one 64-bit word each | encode, decode, set accessed and dirty | writer, readers and MMU agree on every bit |
| Benchmarked copy (`verif_pt` of the benchmarks) | as L2, pages from malloc | map_frame (idempotent), unmap, unmap_noreclaim, resolve | answers say what was done; what was reported mapped can be unmapped |
| Erased copy (`erased-verified-page-table`) | as L2 | as L2 | as L2; see *Modules* and *Not modelled* |
| Verus examples, libraries, data | | | see *Not modelled* |

Interaction: a system call reaches L2 through `impl_spec.rs`.  L2 reads and
writes directory pages through `mem.rs`.  The MMU reads the same pages on its
own, fills the TLB from them, and processes read and write physical memory
through the TLB.  There is no locking and there are no callbacks; the
concurrency is between one kernel call and the MMU.

What is hard here, and so what the properties are aimed at (`hazards` in
`PROJECT.json` lists each at its line):

* **Interleaving** of the several writes of one map_frame or unmap with MMU
  walks: half-built and half-removed directories must not be visible.
* **Stale TLB entries** after an unmap, and page faults taken on a TLB miss.
* **Histories**: a directory left behind by some earlier unmap changes what a
  later map_frame of a large page answers; pages of different sizes compete
  for the same words.
* **Limits**: the page buffer of alloc_page, the last page of the address
  space, addresses past it, frames past the end of physical memory.
* **Bits**: one address mask for all layers, bits that change their meaning with
  the layer, bits that the MMU sets on its own, frames wider than the mask.
* **Steps that are assumed rather than shown** (`assume` in l2_impl.rs): the
  regions given back, the bits of a new entry, the width of a frame.

## Modules

    PagingDefs ─ PageTableContents ─ PageTableInputs ─┬─ DirectoryTree
                                                      └─ PageTableSpec
    PageTableSpec ──┬── HighSpec ── Hardware ── OS
                    ├── PageTableImpl ── BenchPageTable
                    └── System = PageTableImpl + Hardware, refines OS
    PageDirectoryEntries ──┬── PageTableImpl     (entries as records)
                           └── EntryBits         (entries as 64-bit words, against the records)
    PagingDefs ─ VSpace (the NrOS baseline)
    proofs:  PageTableContents_proofs ─┬─ DirectoryTree_proofs (and of PageTableSpec)
                                       ├─ OS_proofs ────────────┐
                                       └─ PageTableImpl_proofs ─┼─ System_proofs
                                                                └─ BenchPageTable_proofs
             EntryBits_proofs ;  VSpace_proofs
    TLC:     one module MC... for each run's specification

* **PagingDefs** - the vocabulary of `definitions_t.rs`.  Its parameters are
  the index of the leaf layer, the number of entries of a directory, and the
  words mapped by one entry of each layer; `ArchInv` is `Arch::inv` with the
  number of entries the same at every layer.  Addresses count machine words,
  so `aligned(a, 8)` is always true; the x86 instance is `LastLayer = 3`,
  `NumEntries = 512`.
* **PageTableContents** - the invariants and operations of l0.rs, as operators
  of a map, with the physical invariant from os.rs:33.
* **PageTableInputs** - the addresses and entries that callers pass, to the
  specification and to the tree of directories alike.
* **PageTableSpec** - spec_pt.rs.  The source labels each step with its result;
  here the variable `obs` keeps the last operation, its arguments and its
  result, so that refinements have to agree on results as well as on the map.
* **HighSpec** - hlspec.rs.  `step_ReadWrite` is split into `Store`, `Load` and
  `Fault`.  `mem` is a function whose domain is `mem_domain_from_mappings`.
* **Hardware** - hardware.rs.  `pt` is `interp_pt_mem(pt_mem)`: the source
  itself only ever speaks of the page table memory through that function.
* **OS** - os.rs: each system call is a `PTMemOp` of the machine together with
  the step of PageTableSpec; `High` is the refinement mapping (`interp`).
* **PageTableImpl** - l2_impl.rs over mem.rs as a step machine.  Each
  allocation and each memory write is a step; so is each descent of the
  recursion, because that is where a read takes place.  `path[l]` holds `ptr`
  and `base` of the recursion's frame at layer `l`; `ghost_pt` is the ghost
  structure, reduced to the layer and the base of each linked page;
  `used_regions` is its domain.  A directory is named by its page.  An entry is
  a record (PageDirectoryEntries).  Pages never allocated contain
  junk that looks present, so that a missing zeroing, or a link to the wrong
  page, shows.

* **PageDirectoryEntries** - the entries of a directory as records of an address
  and the flags that the code sets or branches on.
* **EntryBits** - one entry as the word in memory.  A word is the set of the
  positions of its 1-bits, so that `&` is intersection and `|` is union.  The
  module has the masks and the functions of `PageDirectoryEntry`, the view that
  its Verus specification gives to the word, and the fields as the MMU decodes
  them (external).  The entry is written as map_frame writes it, cleared as
  unmap clears it, and in between the MMU sets the accessed and dirty bits,
  which mem.rs:58 leaves open.  `record` is kept beside the word: what
  PageTableImpl has in its place.  `new_entry_erased` is the function of the
  erased copy.
* **BenchPageTable** - the benchmarked copy, as PageTableImpl with the actions
  that differ replaced: `MapExisting` (l2_impl.rs:222 of the copy), `MapNewDir`
  over the host's allocator, `UnmapNoReclaim`, and results that carry the frame
  and the flag bits.  `ledger` records the frames that map_frame has reported.
  Pages, the root's included, come with any of the contents `FreshPages`, as
  malloc leaves them.  `clean` is a history variable: no page so far has come
  with an entry that reads as present.  The invariant and the first three
  properties are claims about the behaviours, and the parts of behaviours, in
  which it is true; the code does not see to that (finding 5).
* **DirectoryTree** - l1.rs, the tree of directories as a value, with
  `map_frame`, `unmap`, `resolve`, `interp` and `inv`.  `Dirs[l]` is the set of
  directories of layer `l`.  What the source defines by recursion on
  directories is a recursive function of the layer whose value is a function of
  those directories (`Interp`, `map_frames`, ...); what happens in one directory
  is an operator (`map_frame_in`, ...) that takes the function of the next layer
  as its parameter `below`.  The state machine applies the operations to one
  root directory.
* **System** - PageTableImpl with the machine around it (see below).
* **VSpace** - nros_vmem.rs, the page table that the benchmarks compare with,
  in which one map takes a region of any length.  Tables are never unlinked,
  so an entry is named by its layer and the first address it maps.  `args` are
  the arguments of the current recursive call of `map_generic`, `call` those of
  the outermost one, `before` what was mapped when that began.  Each new table,
  each descent and each page is a step.  A failing assertion ends the program
  (`pc = "panic"`).

| Code | Actions of PageTableImpl |
|---|---|
| `map_frame`, head of `map_frame_aux` | `CallMap`; `ptr`, `idx`, `entry` |
| mapped, directory, other size | `MapDescend` |
| mapped otherwise | `MapOverlap` |
| free, page size of this layer | `MapPage` |
| free, other size | `MapAllocDir`, then `MapLinkDir` (which is also the recursive call) |
| `unmap`, descent | `CallUnmap`, `UnmapDescend` |
| page, aligned / misaligned or nothing there | `UnmapPage` / `UnmapMissing` |
| back in the caller's frame: child empty / not | `UnlinkDir` / `KeepDir`, at the root `UnmapReturn` |
| `resolve` | `CallResolve`, `ResolveDescend`, `ResolvePage`, `ResolveEmpty` |

`CallMap` and `CallUnmap` carry the enabling conditions of spec_pt.rs, which
impl_spec.rs makes the preconditions of the calls, and the buffer of free pages
that mem.rs:86 asks of callers.  `CallResolve` carries none, because
`step_Resolve_enabled` demands alignment only.

External to the source, and marked so in the map: the page walk of the MMU
(`mmu_*`).  It takes the index of each layer from fixed bits of the address,
stops at the first entry that is not a directory, and combines the access
rights of all entries it passes.

### System

spec_t/os.rs takes a system call to be *one* step of the machine; l2_impl.rs
takes many memory accesses.  System runs the steps of PageTableImpl together
with an MMU that walks the directories in memory as they are (`mmu_walk`, not
`interp`), fills and evicts the TLB, and carries out loads, stores and faults
of processes.  `ImplementsOS` says that every such behaviour is one of os.rs:

* the page table os.rs sees (`os_pt`) is `interp`, and in addition the mapping
  an unmap has removed for as long as the TLB still holds it (`unmapped`);
* Map and Resolve take effect when the code decides their result; Unmap takes
  effect when its translation is in no TLB any more: at its last write if it
  was not cached, otherwise when it is evicted or invalidated.  `obs` is
  delayed accordingly.

The constant `Invalidates` says whether the kernel calls
`TLB::invalidate_entry` (mem.rs:49) after `unmap` and before its next call.
The code does not (finding 3); with FALSE the run `system_stale` shows what
follows, with TRUE the run `system` shows that this one call, after the last
write, is enough.  `invalidate_entry` may drop more entries than the one named;
those drops are `TLBEvict` steps.  `HWFault` of System needs a walk that finds
nothing and a TLB that holds nothing for the address; hardware.rs:83 states the
first only, which comes to the same in os.rs, where the TLB is a part of the
page table.  The paging-structure caches of x86 are not modelled; hardware.rs
has none either.

## Runs

| Run | Configuration | Properties | States | What it shows |
|---|---|---|---|---|
| `os` | MCOS.cfg | OSInv, NoPhysicalAliasing, ImplementsHighSpec | 12,520 | OS and hardware implement hlspec.rs |
| `impl` | MCPageTableImpl.cfg | IInv, DirectoriesFormTree, PagesAreWellPlaced, NoEmptyDirectories, PathIsLinked, AllocNeverFails, ReadsStayInPage, MMUWalkFindsInterp, FailedCallLeavesMemory, ImplementsPageTableSpec | 25,781 | the inductive invariant and the structure of the directories at every step; a walk at any moment; L2 implements spec_pt.rs |
| `entry_bits` | MCEntryBits.cfg | EncodesRecord, ViewAgrees, MMUReadsRecord | 2,740 | the words are what the records stand for, for code, specification and MMU |
| `bench` | MCBenchPageTable.cfg | BenchInv, CallsDoAsTheyAnswer, UnmapReturnsWhatWasMapped, OnlyNoReclaimAbandons | 199,346 | the benchmarked copy, at depth four, on pages without present entries |
| `bench_malloc` | MCBenchPageTableMalloc.cfg | MappedPageCanBeUnmapped | violated | finding 5 |
| `tree` | MCDirectoryTree.cfg | DirectoryInv, MapFrameRefinesContents, UnmapRefinesContents, ResolveRefinesContents, TreeHoldsNoHistory | 1,369 | L1 implements L0, on every reachable tree |
| `system` | MCSystem.cfg | SystemInv, StaleOnlyWhileUnmapping, ImplementsOS | 30,728 | L2, interrupted by MMU and processes, implements os.rs *if* unmap is followed by an invalidation of the TLB, which no code does |
| `system_stale` | MCSystemStale.cfg | TLBIsSubmapBetweenCalls | violated | finding 3 |
| `vspace` | MCVSpace.cfg | VSpaceInv, MapOnlyAdds, OkMapsRegion, ErrMapsPrefix, UnmapTakesOnePage, EveryMapEnds | 36,036 | maps of whole regions: success, failure half-way, panic, termination |
| `impl_regions` | MCPageTableImplRegions.cfg | UnmapReturnsRemovedRegions | violated | finding 1 |
| `impl_beyond` | MCPageTableImplBeyond.cfg | ReadsStayInPage | violated | finding 2 |
| `entry_frame` | MCEntryBitsBeyond.cfg | AddressIsKept | violated | finding 4 |

Bounds and why they are enough:

* *Two entries per directory.*  One entry to change and one sibling that keeps
  the directory alive or not; the code treats all other siblings alike.
* *Three layers* (root, large pages, small pages): every layer is either the
  root, in the middle, or a leaf, and page sizes nest.  `bench`, whose walks
  are those of PageTableImpl, repeats the cascades - three directories built by
  one map_frame, three reclaimed by one unmap - at the depth of x86-64 with a
  page of each size.
* *Frames*: large and small ones that contain each other, one that is not
  aligned, one that reaches past physical memory (`os`), and several
  combinations of access rights.
* *Addresses*: every word of the address space where the run allows it, and the
  first one past it in `tree`.  `impl` takes addresses in both halves of the
  root, in both large pages of the first half, and two neighbouring words;
  `bench` two neighbouring words, which share all directories, and one in the
  other half.
* *Regions*: the root's page and four more in `impl`, three in `system`, six in
  `bench`.  Unlinked pages are never freed, so a run uses them up: `CallMap`
  then stays disabled for want of its buffer (2 pages for three layers, 3 for
  four), which bounds every history.  There is room to build, empty and rebuild
  directories.  Unmap and resolve go on, so no run deadlocks.
* *Order of pages*: `LowestPageFirst`, an action constraint, hands out free pages
  in ascending order.  Pages are interchangeable and none is handed out twice, so
  every behaviour is one of these up to a renaming of pages; unlike symmetry, the
  constraint never blocks a call that could go on.
* *Pages of the allocator* (`bench`, `bench_malloc`): one whose entries hold
  bits that do not read as present, one whose first entry reads as a page of
  frame 0.  `bench` is bounded by `NoLeftovers`, that is, by `clean`: it goes up
  to the first page of the second kind, where its properties end.
  `bench_malloc` has no such bound.  There the calls are the benchmark's own -
  pages of one size, on frame 0 - for which the property holds as long as the
  pages are of the first kind.
* *Trees* (`tree`): three layers of two entries, one small page, two of the
  middle size, one as large as an entry of the root (l1.rs accepts it, l2 does
  not) and a misaligned one, mapped and unmapped at every word: all 1,369 trees,
  with every operation evaluated on each.
* *NrOS* (`vspace`): four layers of two entries, sixteen base pages.  Six calls:
  two huge pages, large pages in two tables and across two PML4 slots, a frame
  that is not aligned, small pages followed by a large one, an empty region.
  Unmaps at four addresses, some of them in the middle of a page.  All regions
  lie within the address space.  Deadlock is not checked in this run, because a
  failing assertion really stops the program.
* *Words* (`entry_bits`): all four layers, all rights, and every frame made of the
  bits at the ends of the masks (12, 20, 21, 29, 30, 51); the proofs cover the
  other bits.
* *Machine* (`system`): two words of memory and of values, a small page and a
  large one on the same frame, three addresses.
* *View*: the runs of System leave `result` out of the states, which no action
  and no property reads.

Fairness: only `WF_vars(Step)` of VSpace - a call of map_generic that has begun
runs on, which is what sequential code does - for `EveryMapEnds`.  Nothing
forces a call to begin, and nothing is demanded of MMU and processes.  That the
recursions of PageTableImpl end needs no run: each goes one layer down, and the
way back up only counts down.

Every property is paired in `PROJECT.json` with a mutant of the code (the
definitions commented *Seeded fault*) that breaks it.

## Findings

1. **unmap forgets the pages it removes** (`impl_regions`).  l2_impl.rs:2276
   takes the emptied directory's page out of `used_regions`, but 2279 returns
   the recursive call's `removed_regions` without it and nothing frees the
   page.  The postcondition at 2203-2206 ("We return the regions that we
   removed") does not hold; the code `assume`s it (2283-2284).  The page leaks.
2. **resolve has no bound** (`impl_beyond`).  spec_pt.rs:79-81 enables Resolve
   at every aligned address; l2_refinement.rs:177 covers the gap with
   `assume(false)` and calls `resolve`, which indexes past the end of the root
   directory against the precondition at mem.rs:130.

3. **unmap leaves the TLB alone** (`system_stale`).  os.rs:124-126 demands of
   the step for unmap that the TLB has lost the entry, and os.rs:39 that the
   TLB holds nothing but the page table's mappings.  l2_impl.rs:2364-2430 never
   calls `TLB::invalidate_entry`; the comment at 2363 says "FIXME: need to do
   tlb invalidate".  The stale translation outlives the call.

4. **Frames have no upper bound** (`entry_frame`).  l2_impl.rs:1391 assumes
  `frame_base & MASK_ADDR == frame_base` ("FIXME: need additional
  precondition?"); neither spec_pt.rs:36-46 nor impl_spec.rs:39-45 demands it.
  A frame with bit 53 set is read back without it, one with bit 63 turns off
  execution.  `FramesInMemory` is the missing precondition; the theorems show
  that it is enough.

5. **The benchmark's pages are not zeroed** (`bench_malloc`).  alloc_page in
  main.rs:46-54 returns what alloc::alloc gives it, and the root directories
  come the same way (57-62, 105-110); map_frame links them as empty
  directories.  The verified code has the zeros in a postcondition
  (mem.rs:101), the NrOS baseline writes them in a loop (nros_vmem.rs:427-431).
  An old word that reads as a present page makes map_frame answer without
  having mapped anything, and the unmap of that address then runs into the
  panic at main.rs:160.  One that reads as a directory would be followed to
  wherever it leads.  On pages that malloc has fresh from the system none of
  this shows.  The theorems of BenchPageTable_proofs say what is enough: no
  entry that reads as present; other bits may be left over.

Smaller disagreements met while modelling, not turned into runs: the erased
copy, whose functions its README calls "mostly unchanged", has the U/S bit
inverted (erased l2_impl.rs:105): a user's page is the kernel's, and conversely
(for directories the argument at line 84 makes up for it);
`EncodesRecord` fails for it.  The benchmarked copy answers Ok to a second map
by the frame's base alone (222), whatever size and rights are there, where
spec_pt.rs answers ErrOverlap.  `view` reads the PAT flag at bit 12 in layer 3
and at bit 7 elsewhere (l2_impl.rs:222), the other way round than the comment at
77 says.  MASK_ADDR takes in bit 52, the comment below it (75) does not.
l2_impl.rs:1384 assumes that the root's entries are *smaller* than all others,
which is false, where it needs that they differ. `ispec_unmap`
is a stub (l2_refinement.rs:135-138); `lemma_map_frame_empty_is_ok` (l1.rs:1040)
has no proof in the source (`tree` checks what it states, MapFrameIsContents proves it);
`candidate_mapping_in_bounds` is strict in definitions_t.rs:28 and not in
l0.rs:103-105, so that the last page of the address space cannot be mapped
through spec_pt.rs; l2_impl.rs:2342 assumes that *every* region outside
`removed_regions` is in memory where the postcondition says only the converse.
In nros_vmem.rs, unmap leaves empty tables behind ("we lose topology
information here", 205), and a later map_generic of larger pages takes them for
mappings: it returns an error (329), or stops at the assertion at 258, although
nothing is mapped there; the comments at 307 and 380 speak of "an existing
mapping".  `vspace` goes through these states and shows that no translation is
damaged by them.

## What is proved

All theorems hold for every value of the constants that satisfies the named
assumptions of the modules, which TLC evaluates in each run: `ArchInv` (the
architecture: sizes of layers nest, any number of layers and entries),
`InputsAssumption` (addresses are naturals, entries are entries),
`FreshPagesAssumption` (what the host's allocator returns are pages, of any
contents),
`OSAssumption` (the same, and a size of physical memory), `BuffersAssumption`
(at least one page kept ready per layer below the root, and more than one entry
per directory) and `SystemAssumption` (the assumptions of PageTableImpl, for
System).  The pages are what mem.rs:86-88 asks of callers; with one entry per
directory two layers would have pages of one size, and x86_arch, for which the
code is written, has 512.  Some theorems, and those of System_proofs and
BenchPageTable_proofs, have hypotheses of their own, stated with them:

* *addresses in range*, `ResolveVAddrs \subseteq 0 .. (UpperVaddr - 1)`, where
  resolve is concerned (in System `VAddrs`): without it the code reads past the root directory
  (finding 2), so nothing can be shown;
* `Invalidates`, in all of System_proofs: unmap is followed by
  `TLB::invalidate_entry`.  No code does that yet - mem.rs:49-50 is a stub
  without callers - and without it the claims are false (finding 3).  They are
  theorems about the code with the line its FIXME asks for.

* `NumEntries > 1` once more, for the tree to be determined by its mappings.

* `BenchRuns`, for the benchmarked copy: addresses in range for all its calls.
  main.rs maps and unmaps page after page from address 0 on.  Nothing is assumed
  of the allocator's pages; instead every statement has `clean` (or `clean'`) as
  a premise, the state of affairs main.rs does not secure (finding 5).

The runs `impl`, `system`, `tree` and `bench` satisfy what the theorems about
their modules ask.

* **PageTableInvariant**, **TranslationUniqueness** (at the end of
  DirectoryTree_proofs).  PageTableSpec has no run of its own: the runs `os` and
  `impl` take its steps, and `OSInv` says of the page table of `os` what
  `PageTableInv` says here.
  `PageTableInv` is inductive as it stands: alignment, page sizes, bounds and
  both kinds of non-overlap are conjuncts.  The physical overlap is kept away
  by the guard of Map, the virtual one by its result.  The work is in
  PageTableContents_proofs: inserting a mapping that overlaps nothing, and
  removing one, preserve `ContentsInv`.  Uniqueness follows because two
  mappings that cover the same word overlap.
* **OSInvariant** (OS_proofs).  Type correctness, well-formed contents and
  `tlb_is_submap_of_pt` are inductive together: a step may only fill the TLB
  from the page table, Map changes no mapping that is there, and Unmap takes
  the one it removes out of the TLB.
* **NoAliasing** (OS_proofs).  With `OSInv`, the effective mappings are the
  page table's; physical non-overlap gives the rest.
* **WordEncodesRecord**, **OneAddressMask**, **MMUReadsWord** (EntryBits_proofs).
  Under `FramesInMemory`, for all frames, rights and layers.  The inductive
  invariant `EntryInv` says bit by bit what a present word is made of: the
  address within bits 12 to 51, padded below the page size, the flags of the
  record, the accessed and dirty bits free, every other bit 0.  None of the three
  properties is inductive by itself: what they leave open (reserved bits for the
  readers, the padding for the MMU) is what the next step needs.  The first is
  what l2_impl.rs assumes by `assume(false)` at 337 and its neighbours for RW,
  US and XD, the third covers PWT and PCD (356-363), the second is the padding
  it assumes at 1389.
* **OSRefinesHighSpec** (OS_proofs).  `Spec => High!Spec`.  With
  `OSInv` and `OSInv'` at hand each step is matched: the hardware's store is
  the user's store because the frame behind the address is behind no other
  address (`StoreShowsOnce`); a load reads the word its covering mapping leads
  to (`VmemValue`); a fault on an unmapped address lies outside the user's
  memory; Map and Unmap change the domain by exactly the words of their
  mapping; TLB fills and evictions stutter.

### The implementation

* **InductiveInvariant** (PageTableImpl_proofs): `Spec => []IInv`. What the runs
  check of the directories is not inductive by itself, and `IInv` adds what is
  missing. `TreeInv` speaks of the memory: the directory entries are the tree
  `ghost_pt` records; each directory spans an aligned part of the address space
  (`DirectoriesSpan`); entries of directories grant all rights
  (`EntriesAreFilled`); and no address can end a walk in two entries
  (`LeavesAreDisjoint`) - the fact that makes the interpretation a map, and that
  says that a page written into a free entry overlaps nothing. `RunInv` speaks
  of the running call: its arguments are still what its guard let through
  (`CallInv`; the part of it that the walk depends on is `ArgsInv`: map_frame has
  not gone past the layer of its page), its recursion
  is a chain of linked directories around the address (`PathIsChain`), the page
  about to be linked is empty and linked nowhere (`LinkInv`), a free page is left
  for every layer still to go (`BufferInv`), and nothing has been written unless
  map_frame stands in a directory of its own (`NothingWritten`). The conjuncts
  that a walk rests on are `WalkInv`; it asks neither for directories that are not
  empty nor for a caller that keeps its promises, so the lemmas about walks and
  writes serve the benchmarked copy as well. The proof has a
  lemma per action and conjunct. Writes that add or take a directory are handled
  by `LinkKeepsTree` and `UnlinkKeepsTree`; writes that touch one entry, by
  lemmas about a write to an entry that is no directory.
* **TreeCorrect, PagesCorrect, EmptyAreUnlinked, PathStaysLinked**
  are its conjuncts or follow at once. **BufferSuffices** needs that map_frame's
  page belongs to a layer still below, and that one page per layer is left.
  **ReadsAreInBounds** needs that the address lies in the span of the current
  directory. **FailuresLeaveMemory** is an action property: map_frame fails only
  over an entry in use, which a directory of its own has none of, so that
  `NothingWritten` applies.
* **ImplementsSpecification** (PageTableImpl_proofs): `Spec =>
  ImplementsPageTableSpec`. `InterpMatches` characterises `interp` by the page
  entries in memory. Linking a new directory and unlinking an empty one leave it
  alone (`LinkKeepsInterp`, `UnlinkKeepsInterp`); writing a page inserts one
  mapping, clearing one removes it. `EnabledInv`, inductive beside `IInv`, keeps
  the specification's precondition true until the result is decided. Answers:
  map_frame answers ErrOverlap exactly when the new page overlaps one that is
  mapped - a page entry in its way covers its address, a directory in its way
  holds, being not empty, a page below (`DirectoryHoldsPage`), which takes an
  induction over the layers; unmap and resolve find a page exactly when the
  mapping that starts at, or covers, the address is there (`OneLeaf`).
* **WalksFindInterp**: a walk reads, layer by layer, entries of directories
  around the address, and ends at the one entry that no other walk could end at;
  the rights it combines are those of the page, since all directories grant
  everything. It holds in every reachable state, so between any two writes:
  hardware.rs:36, an axiom there, is a theorem here.

### The implementation on the machine

* **SystemInvariant** (System_proofs): `SystemInv` is `IInv` and `EnabledInv` of
  the implementation, `StaleOnlyWhileUnmapping`, and `UnmappedInv` (what unmap
  has removed is one mapping, gone from `interp`, and only until the
  invalidation). A TLB fill takes a translation that a walk finds, which is in
  `interp` by `WalksFindInterp`; the write of an unmap is the only one that
  takes a mapping from `interp`, and puts it in `unmapped`.
* **NothingStale**: with the invalidation, `TLBIsSubmapBetweenCalls` - which
  fails without (finding 3) - holds.
* **SystemImplementsOS**: `Spec => ImplementsOS`. Each of the code's writes, the
  MMU's fills and evictions and the accesses of processes is a step of os.rs or
  a stutter; the step at which unmap takes effect is its write, an eviction or
  the invalidation, whichever takes the translation out of the last place.
* **SystemImplementsUserSpec** puts **OSRefinesHighSpec** on top: from
  directories in memory up to hlspec.rs, again only with the invalidation. System and OS_proofs hold two instances
  of the same definitions; the lemmas `Same...` identify them.

Recursions over layers are proved by taking the least layer that is a
counterexample (`LeastElement` of PageTableContents_proofs), because the
library's induction theorems have an operator as a parameter, which no installed
prover instantiates.

### The benchmarked copy

The copy differs from the verified code where it hurts: callers promise less (a
page may end at the last address, one frame is mapped everywhere),
unmap_noreclaim leaves empty directories, and map_frame may answer Ok without
having written.

* **BenchInductiveInvariant** (BenchPageTable_proofs): `BenchInv` is, as long as
  `clean` holds, `WalkInv`, the operations that may be running, `LedgerIsMapped`
  (what was reported mapped is there, with its frame) and `LastAnswerStands`.
  The last is needed because
  the properties tell that a call has been decided by its answer changing: an
  answer equal to the one before could hide a write.  It cannot, since the answer
  before still stands - the address is mapped, or gone - and the same write is
  not possible twice.
* **BenchCallsDoAsTheyAnswer**: each answer from the entry the call stands at.  A
  large page that is refused over a directory meets either a mapping below that
  directory or one that unmap_noreclaim left: were none of the directories below
  empty, `DirectoryHoldsPage` would find a page.
* **BenchUnmapReturnsWhatWasMapped** follows: the panic at main.rs:160 is out of
  reach up to the first page that comes with a present entry.
* **BenchOnlyNoReclaimAbandons**: a directory empty after a step that was not
  empty before is on the path of the running call, which fills it next (map_frame)
  or unlinks it on the way back (unmap); where unmap stops going back, the
  directory it stands in holds an entry.

### The tree of directories

DirectoryTree_proofs proves by hand what l1.rs proves with Verus, and the step
l1.rs leaves out (`lemma_map_frame_empty_is_ok`, 1040).  The functions of a tree
are recursive in the layer, from a directory to those one layer below, so
everything is shown from the last layer up to the root (`LayerInduction`, again
by a last counterexample).  First the recursive functions exist: a table of all
of them for the layers from `l` on is extended by one layer (`Recursion`), and
the equations that follow (`MapFrameStep`, `UnmapStep`, ...) are all that the
rest uses.

* **DirectoriesCorrect**: `Spec => []DirectoryInv`, for any number of layers and
  entries.  `inv` alone is not inductive: that a directory the operation has
  gone into is not empty afterwards follows from what the operation does to the
  *interpretation*, since an entry that is not empty maps something
  (`EmptyHoldsNothing`).  So one statement by layer carries both (`MapResult`,
  `UnmapResult`): the result has its place and its invariant, and its
  interpretation is that of the contents' operation.
* **MapFrameIsContents, UnmapIsContents, ResolveIsContents**: the three
  refinements of l0.rs.  What an entry maps lies in the entry's part of the
  address space, so that an update of one entry changes the union of all in that
  part alone, and a lookup finds nothing in any other; a page that does not fit a
  directory's layer meets a directory's pages exactly when it overlaps one.  A
  new directory maps nothing, so the descent into it cannot fail.
* **TreeIsCanonical**: the tree is the one `canonicals` builds from its mappings
  alone (`CanonicalDirectory`).  Its hypothesis is `NumEntries > 1`: with one
  entry per directory all layers have pages of one size, and a mapping does not
  say at which layer it stands.

### The NrOS baseline

* **VSpaceInvariant** (VSpace_proofs). `VSpaceAssumption` says what calls are
  made: regions of base pages within the address space, in four layers of any
  number of entries. `MapOnlyAdds` is not inductive without knowing where the
  loops stand: `ArgsInStep` (the recursion's address, frame and length are the
  rest of the call's), `LoopInv` (the tables on the way are linked, and the next
  page starts at an entry of the same table - `SameTable`, from the loops'
  condition on the index), `WalksEnd` and `PrefixIsMapped`. There are two kinds
  of writes: a new table maps what it replaces, nothing (`NewTableKeeps`); a
  page entry changes its own slot's part of the address space only
  (`WriteSlot`), because rounding to a fine grid and then to a coarse one is
  rounding to the coarse one (`RoundTwice`).
* **MapsDisturbNothing, SuccessMapsAll, FailureMapsPrefix** follow.
  **UnmapTakesAPage** is an action property, from `WriteSlot` again. All hold
  for tables that earlier unmaps have left empty, too.

### Only model-checked

Liveness: `EveryMapEnds`.  TLAPS does not handle fairness.  Every other property
of the passing runs is a theorem; those of the runs that expect a violation do
not hold.

## Not modelled, and why

* *Machine arithmetic*: addresses are naturals; the code's overflow conditions
  (MAX_BASE and others) are preconditions that its Verus proof discharges.
* *Erased copy*: but for `new_entry`, whose U/S bit is inverted
  (`new_entry_erased`), `new_dir_entry`, which makes up for that, and the result
  of resolve, its functions are those of l2_impl.rs with the ghost arguments
  removed, and so those of PageTableImpl.
* *Verus examples* (search trees): stand-alone; the page table does not use them.
* *NrOS baseline*: Modify::UpdateRights, which nothing calls; Drop, which frees
  all tables at once; addresses past the address space.
* *lib.rs, indexing.rs, pervasive.rs, data, plots, thesis*: no state.

## Plan

Done: all modules named above, and the proofs of every property of the passing
runs but liveness.  Should they come to matter, the search trees of
`verus_examples` against a reference map are next, and then the erased copy, if
it changes in more than its entries.
