------------------------------ MODULE Hardware ------------------------------
(***************************************************************************)
(* The machine below the OS (spec_t/hardware.rs): physical memory, the     *)
(* memory holding the page table, and a TLB that the MMU fills from the    *)
(* page table and evicts at any time.  A process reaches physical memory   *)
(* only through a TLB entry; a page fault is taken only when the page      *)
(* table itself maps nothing at the address.                               *)
(***************************************************************************)
EXTENDS PagingDefs

CONSTANTS
  VAddrs,         \* the virtual addresses processes access
  Values,         \* the contents of a memory word
  PhysMemSize     \* words of physical memory: HWVariables.mem.len()

VARIABLES
  mem,            \* HWVariables.mem: the physical memory
  pt,             \* interp_pt_mem(HWVariables.pt_mem): what a walk can find
  tlb,            \* HWVariables.tlb: cached translations
  obs             \* the last observable operation and its result

H == INSTANCE HighSpec WITH
       PTEs <- {}, mappings <- pt

pmem_idx(base, pte, vaddr) == pte.frame.base + (vaddr - base)

(***************************************************************************)
(* step_ReadWrite: accesses through a TLB entry, and page faults.          *)
(***************************************************************************)
HWStore(vaddr, v) ==
  /\ \E b \in DOMAIN tlb :
       LET pte == tlb[b]
           paddr == pmem_idx(b, pte, vaddr)
           allowed == /\ paddr < PhysMemSize
                      /\ ~pte.flags.is_supervisor
                      /\ pte.flags.is_writable
       IN /\ Covers(tlb, b, vaddr)
          /\ \/ /\ allowed
                /\ obs' = H!StoreObs(vaddr, v, H!Stored)
                /\ mem' = [mem EXCEPT ![paddr] = v]
             \/ /\ ~allowed
                /\ obs' = H!StoreObs(vaddr, v, H!Pagefault)
                /\ UNCHANGED mem
  /\ UNCHANGED <<pt, tlb>>

HWLoad(vaddr, is_exec) ==
  /\ \E b \in DOMAIN tlb :
       LET pte == tlb[b]
           paddr == pmem_idx(b, pte, vaddr)
           allowed == /\ paddr < PhysMemSize
                      /\ ~pte.flags.is_supervisor
                      /\ is_exec => ~pte.flags.disable_execute
       IN /\ Covers(tlb, b, vaddr)
          /\ \/ /\ allowed
                /\ obs' = H!LoadObs(vaddr, is_exec, H!Value(mem[paddr]))
             \/ /\ ~allowed
                /\ obs' = H!LoadObs(vaddr, is_exec, H!Pagefault)
  /\ UNCHANGED <<mem, pt, tlb>>

\* Seeded fault: a TLB miss is taken for a page fault.
HWFault_on_tlb_miss(vaddr) ==
  /\ \A b \in DOMAIN tlb : ~Covers(tlb, b, vaddr)
  /\ \E is_exec \in BOOLEAN : obs' = H!LoadObs(vaddr, is_exec, H!Pagefault)
  /\ UNCHANGED <<mem, pt, tlb>>

HWFault(vaddr) ==
  /\ \A b \in DOMAIN pt : ~Covers(pt, b, vaddr)
  /\ \/ \E v \in Values : obs' = H!StoreObs(vaddr, v, H!Pagefault)
     \/ \E is_exec \in BOOLEAN : obs' = H!LoadObs(vaddr, is_exec, H!Pagefault)
  /\ UNCHANGED <<mem, pt, tlb>>

(***************************************************************************)
(* A page table operation: the TLB may lose entries and gains none.  What  *)
(* happens to the page table is up to the operation.                       *)
(***************************************************************************)
PTMemOp ==
  /\ UNCHANGED mem
  /\ \E kept \in SUBSET DOMAIN tlb : tlb' = Restrict(tlb, kept)

(***************************************************************************)
(* The MMU, on its own.                                                    *)
(***************************************************************************)
TLBFill(b) ==
  /\ b \in DOMAIN pt
  /\ tlb' = map_insert(tlb, b, pt[b])
  /\ UNCHANGED <<mem, pt, obs>>

TLBEvict(b) ==
  /\ b \in DOMAIN tlb
  /\ tlb' = map_remove(tlb, b)
  /\ UNCHANGED <<mem, pt, obs>>
=============================================================================
