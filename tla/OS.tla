--------------------------------- MODULE OS ---------------------------------
(***************************************************************************)
(* The operating system's view (spec_t/os.rs): the hardware plus the three *)
(* page table operations, each a PTMemOp of the machine that behaves as    *)
(* the page table specification says.  Unmap also has to take the entry    *)
(* out of the TLB.                                                         *)
(*                                                                         *)
(* Interpreting the TLB and the page table together as the user's mappings *)
(* makes this an implementation of HighSpec.                               *)
(***************************************************************************)
EXTENDS Hardware, PageTableContents

CONSTANT PTEs     \* the page table entries callers pass

ASSUME OSAssumption ==
  /\ VAddrs \subseteq Nat
  /\ PTEs \subseteq PageTableEntry
  /\ PhysMemSize \in Nat

vars == <<mem, pt, tlb, obs>>

PT == INSTANCE PageTableSpec WITH map <- pt

\* The hardware comes up with an empty TLB and page table, any memory.
Init ==
  /\ mem \in [0 .. (PhysMemSize - 1) -> Values]
  /\ pt = EmptyMap
  /\ tlb = EmptyMap
  /\ obs = PT!NoObs

step_Map(vaddr, pte) ==
  /\ PTMemOp
  /\ PT!step_Map(vaddr, pte)

\* Seeded fault: the TLB is not invalidated.
step_Unmap_keeps_tlb(vaddr) ==
  /\ PTMemOp
  /\ PT!step_Unmap(vaddr)

step_Unmap(vaddr) ==
  /\ PTMemOp
  /\ PT!step_Unmap(vaddr)
  /\ vaddr \notin DOMAIN tlb'

step_Resolve(vaddr) ==
  /\ PTMemOp
  /\ PT!step_Resolve(vaddr)

step_HW ==
  \/ \E vaddr \in VAddrs :
       \/ \E v \in Values : HWStore(vaddr, v)
       \/ \E is_exec \in BOOLEAN : HWLoad(vaddr, is_exec)
       \/ HWFault(vaddr)
  \/ \E b \in DOMAIN pt : TLBFill(b)
  \/ \E b \in DOMAIN tlb : TLBEvict(b)

Next ==
  \/ step_HW
  \/ \E vaddr \in VAddrs :
       \/ \E pte \in PTEs : step_Map(vaddr, pte)
       \/ step_Unmap(vaddr)
       \/ step_Resolve(vaddr)

Spec == Init /\ [][Next]_vars

(***************************************************************************)
(* Interpretation as the user's state.                                     *)
(***************************************************************************)

\* A cached translation takes precedence over the page table.
effective_mappings ==
  [b \in DOMAIN tlb \cup DOMAIN pt |->
     IF b \in DOMAIN tlb THEN tlb[b] ELSE pt[b]]

\* The value a user finds at each word of its virtual memory.
interp_vmem ==
  LET m == effective_mappings
      base(vaddr) == CHOOSE b \in DOMAIN m : Covers(m, b, vaddr)
  IN [vaddr \in H!mem_domain_from_mappings(m) |->
        mem[pmem_idx(base(vaddr), m[base(vaddr)], vaddr)]]

High == INSTANCE HighSpec WITH
          mem <- interp_vmem, mappings <- effective_mappings

\* Every step of the OS and its hardware is a step of the user's
\* specification with the same result, or leaves the user's state alone:
\* whatever the TLB holds, a process reads what was last stored at that
\* virtual word, and a system call touches the words it names and no other.
ImplementsHighSpec == High!Spec

(***************************************************************************)
(* Invariants (OSVariables::inv).                                          *)
(***************************************************************************)

\* Types: the physical memory holds values, page table and TLB mappings.
TypeOK ==
  /\ mem \in [0 .. (PhysMemSize - 1) -> Values]
  /\ IsMapping(pt)
  /\ IsMapping(tlb)

\* The TLB holds nothing that the page table does not hold, in the same
\* form: no translation outlives its mapping.
tlb_is_submap_of_pt ==
  \A b \in DOMAIN tlb : contains_pair(pt, b, tlb[b])

\* The page table's contents are well formed and the TLB agrees with them.
OSInv ==
  /\ TypeOK
  /\ ContentsInv(pt)
  /\ tlb_is_submap_of_pt

\* A process reaches each physical word under one virtual address only, even
\* when some of its translations are cached and others are not.
NoPhysicalAliasing ==
  LET m == effective_mappings
  IN \A v1, v2 \in VAddrs : \A b1, b2 \in DOMAIN m :
       /\ Covers(m, b1, v1) /\ Covers(m, b2, v2)
       /\ pmem_idx(b1, m[b1], v1) = pmem_idx(b2, m[b2], v2)
       => v1 = v2
=============================================================================
