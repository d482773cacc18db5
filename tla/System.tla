------------------------------- MODULE System -------------------------------
(***************************************************************************)
(* The page table implementation on a machine: while the kernel runs       *)
(* map_frame, unmap or resolve, one memory access at a time, the MMU walks *)
(* the directories as they are, fills and evicts the TLB, and processes    *)
(* load and store through it.                                              *)
(*                                                                         *)
(* spec_t/os.rs takes each call to be one step of the machine, and demands *)
(* of the one for unmap that the TLB has lost the entry at its end.  What  *)
(* l2_impl.rs does takes several steps, and unmap leaves the TLB alone     *)
(* ("FIXME: need to do tlb invalidate").                                   *)
(***************************************************************************)
EXTENDS PagingDefs, FiniteSets

CONSTANTS
  VAddrs,         \* the virtual addresses used and passed
  PTEs,           \* the page table entries callers pass
  Values,         \* the contents of a memory word
  PhysMemSize,    \* words of physical memory
  Regions,        \* the pages that can hold a directory
  CR3,            \* the page of the root directory
  ReservePages,   \* pages the caller keeps ready before it maps a frame
  Invalidates     \* whether the caller of unmap invalidates the TLB entry

\* Those of PageTableImpl, and the TLB's.
ASSUME SystemAssumption ==
  /\ VAddrs \subseteq Nat
  /\ PTEs \subseteq PageTableEntry
  /\ IsFiniteSet(Regions)
  /\ CR3 \in Regions
  /\ ReservePages \in Nat
  /\ NumEntries > 1
  /\ ReservePages >= LastLayer
  /\ PhysMemSize \in Nat
  /\ Invalidates \in BOOLEAN

VARIABLES
  region_view, regions, ghost_pt, pc, call, layer, path, new_dir, old,
  result,         \* the last call decided, and its result
  mem, tlb,       \* physical memory and TLB of the machine
  unmapped,       \* the mapping unmap has removed but not yet invalidated
  obs             \* the last operation that has taken effect, and its result

implVars == <<region_view, regions, ghost_pt, pc, call, layer, path, new_dir,
              old, result>>
vars == <<implVars, mem, tlb, unmapped, obs>>

Impl == INSTANCE PageTableImpl WITH obs <- result, ResolveVAddrs <- VAddrs

interp == Impl!interp

HW == INSTANCE Hardware WITH pt <- interp

Init ==
  /\ Impl!Init
  /\ mem \in [0 .. (PhysMemSize - 1) -> Values]
  /\ tlb = EmptyMap
  /\ unmapped = EmptyMap
  /\ obs = result

(***************************************************************************)
(* The kernel.  The effect of a call shows when its code decides the       *)
(* result, but that of unmap not before the translation is in no TLB.      *)
(***************************************************************************)
\* Seeded fault: the next call may begin before the TLB is invalidated.
Begin_before_invalidate ==
  /\ Impl!Call
  /\ UNCHANGED <<mem, tlb, unmapped, obs>>

Begin ==
  /\ unmapped = EmptyMap
  /\ Impl!Call
  /\ UNCHANGED <<mem, tlb, unmapped, obs>>

Decide ==
  /\ \/ Impl!MapOverlap \/ Impl!MapPage \/ Impl!UnmapMissing
     \/ Impl!ResolvePage \/ Impl!ResolveEmpty
  /\ obs' = result'
  /\ UNCHANGED <<mem, tlb, unmapped>>

Cached(b) == b \in DOMAIN tlb

Unmap ==
  /\ Impl!UnmapPage
  /\ unmapped' = map_insert(EmptyMap, call.vaddr, interp[call.vaddr])
  /\ obs' = IF Cached(call.vaddr) THEN obs ELSE result'
  /\ UNCHANGED <<mem, tlb>>

Internal ==
  /\ \/ Impl!MapDescend \/ Impl!MapAllocDir \/ Impl!MapLinkDir
     \/ Impl!UnmapDescend \/ Impl!UnlinkDir \/ Impl!KeepDir
     \/ Impl!ResolveDescend
  /\ UNCHANGED <<mem, tlb, unmapped, obs>>

Return ==
  /\ Impl!UnmapReturn
  /\ unmapped' = IF Invalidates THEN unmapped ELSE EmptyMap
  /\ UNCHANGED <<mem, tlb, obs>>

\* What is left in the TLB when b leaves it, and what that shows.
DropFromTLB(b) ==
  /\ tlb' = map_remove(tlb, b)
  /\ obs' = IF Cached(b) /\ b \in DOMAIN unmapped
            THEN Impl!PT!UnmapObs(b, Impl!PT!Ok) ELSE obs

\* Seeded fault: another entry is invalidated.
invalidate_entry_next ==
  /\ Invalidates
  /\ pc = "idle"
  /\ \E b \in DOMAIN unmapped : DropFromTLB(b + 1)
  /\ unmapped' = EmptyMap
  /\ UNCHANGED <<implVars, mem>>

\* TLB::invalidate_entry after unmap, which mem.rs:49 declares and no code calls
\* yet.  It may drop further entries; those are evictions of their own.
invalidate_entry ==
  /\ Invalidates
  /\ pc = "idle"
  /\ \E b \in DOMAIN unmapped : DropFromTLB(b)
  /\ unmapped' = EmptyMap
  /\ UNCHANGED <<implVars, mem>>

(***************************************************************************)
(* The machine.                                                            *)
(***************************************************************************)

\* The MMU caches what a walk finds in the memory as it is now.
TLBFill(vaddr) ==
  /\ \E w \in Impl!mmu_walk(vaddr) :
       tlb' = map_insert(tlb, w.base, [frame |-> w.frame, flags |-> w.flags])
  /\ UNCHANGED <<implVars, mem, unmapped, obs>>

TLBEvict(b) ==
  /\ Cached(b)
  /\ DropFromTLB(b)
  /\ UNCHANGED <<implVars, mem, unmapped>>

\* A walk finds nothing, and takes place only if the TLB holds nothing.
HWFault(vaddr) ==
  /\ Impl!mmu_walk(vaddr) = {}
  /\ \A b \in DOMAIN tlb : ~Covers(tlb, b, vaddr)
  /\ HW!HWFault(vaddr)

ReadWrite(vaddr) ==
  /\ UNCHANGED <<implVars, unmapped>>
  /\ \/ \E v \in Values : HW!HWStore(vaddr, v)
     \/ \E is_exec \in BOOLEAN : HW!HWLoad(vaddr, is_exec)
     \/ HWFault(vaddr)

Next ==
  \/ Begin \/ Decide \/ Unmap \/ Internal \/ Return \/ invalidate_entry
  \/ \E vaddr \in VAddrs : TLBFill(vaddr) \/ ReadWrite(vaddr)
  \/ \E b \in DOMAIN tlb : TLBEvict(b)

Spec == Init /\ [][Next]_vars

(***************************************************************************)
(* Properties.                                                             *)
(***************************************************************************)

\* A translation that has lost its mapping is in the TLB only while the
\* unmap that removed the mapping is still under way: the MMU cannot bring
\* it back from directories that are being taken apart.
StaleOnlyWhileUnmapping ==
  \A b \in DOMAIN tlb :
    \/ contains_pair(interp, b, tlb[b])
    \/ contains_pair(unmapped, b, tlb[b])

\* What unmap has removed but not invalidated is one mapping, which the page
\* table does not hold: the next call waits for the invalidation.
UnmappedInv ==
  /\ unmapped # EmptyMap => pc \in {"idle", "cleanup"}
  /\ \A b \in DOMAIN unmapped :
       /\ b \in VAddrs
       /\ b \notin DOMAIN interp
       /\ Impl!PT!step_Unmap_enabled(b)
       /\ DOMAIN unmapped = {b}

\* The inductive invariant: the TLB holds mappings, and what they are worth.
SystemInv ==
  /\ Impl!IInv
  /\ Impl!EnabledInv
  /\ tlb = [b \in DOMAIN tlb |-> tlb[b]]
  /\ UnmappedInv
  /\ StaleOnlyWhileUnmapping

\* os.rs:123-129: once unmap has returned, the TLB has lost the entry, so
\* that (os.rs:39) between calls the TLB holds what the page table holds.
TLBIsSubmapBetweenCalls ==
  (pc = "idle" /\ unmapped = EmptyMap) =>
    \A b \in DOMAIN tlb : contains_pair(interp, b, tlb[b])

\* The page table as os.rs sees it: a mapping is there as long as a process
\* can reach memory through it.
os_pt ==
  [b \in DOMAIN interp \cup (DOMAIN unmapped \cap DOMAIN tlb) |->
     IF b \in DOMAIN interp THEN interp[b] ELSE unmapped[b]]

OSView == INSTANCE OS WITH pt <- os_pt

\* The kernel's calls, interrupted by the MMU and by processes at any point,
\* are steps of os.rs: each takes place at one moment, and unmap when the
\* last cached copy of its mapping goes.
ImplementsOS == OSView!Spec
=============================================================================
