------------------------------ MODULE HighSpec ------------------------------
(***************************************************************************)
(* The system as a user process sees it (spec_t/hlspec.rs): a word-indexed *)
(* virtual memory whose domain is given by the mappings, read and written  *)
(* by the process and changed by the Map and Unmap system calls.           *)
(***************************************************************************)
EXTENDS PagingDefs

CONSTANTS
  VAddrs,         \* the virtual addresses processes access and callers pass
  PTEs,           \* the page table entries callers pass
  Values,         \* the contents of a memory word
  PhysMemSize     \* AbstractConstants.phys_mem_size, in words

VARIABLES
  mem,            \* AbstractVariables.mem: virtual word -> value
  mappings,       \* AbstractVariables.mappings
  obs             \* the last operation, its arguments and its result

vars == <<mem, mappings, obs>>

\* The steps' results, and the enabling conditions this file shares with
\* spec_pt.rs (the two copies of step_Map_enabled are the same text).
PT == INSTANCE PageTableSpec WITH map <- mappings

Pagefault == [tag |-> "Pagefault"]
Stored    == [tag |-> "Ok"]
Value(v)  == [tag |-> "Value", value |-> v]

StoreObs(vaddr, v, result) ==
  [op |-> "Store", vaddr |-> vaddr, new_value |-> v, result |-> result]

LoadObs(vaddr, is_exec, result) ==
  [op |-> "Load", vaddr |-> vaddr, is_exec |-> is_exec, result |-> result]

\* Physical word behind the virtual word vaddr of the mapping (base, pte).
pmem_idx(base, pte, vaddr) == pte.frame.base + (vaddr - base)

mem_domain_from_mappings_contains(vaddr, m) ==
  \E b \in DOMAIN m :
    Covers(m, b, vaddr) /\ pmem_idx(b, m[b], vaddr) < PhysMemSize

mem_domain_from_mappings(m) ==
  {vaddr \in 0 .. (UpperVaddr - 1) : mem_domain_from_mappings_contains(vaddr, m)}

Init ==
  /\ mem = EmptyMap
  /\ mappings = EmptyMap
  /\ obs = PT!NoObs

(***************************************************************************)
(* Loads and stores.  step_ReadWrite with pte = Some(base, pte) is a Store *)
(* or a Load; with pte = None it is a Fault.                               *)
(***************************************************************************)
Store(vaddr, v) ==
  /\ \E b \in DOMAIN mappings :
       LET pte == mappings[b]
           allowed == /\ pmem_idx(b, pte, vaddr) < PhysMemSize
                      /\ ~pte.flags.is_supervisor
                      /\ pte.flags.is_writable
       IN /\ Covers(mappings, b, vaddr)
          /\ \/ /\ allowed
                /\ obs' = StoreObs(vaddr, v, Stored)
                /\ mem' = map_insert(mem, vaddr, v)
             \/ /\ ~allowed
                /\ obs' = StoreObs(vaddr, v, Pagefault)
                /\ UNCHANGED mem
  /\ UNCHANGED mappings

Load(vaddr, is_exec) ==
  /\ \E b \in DOMAIN mappings :
       LET pte == mappings[b]
           allowed == /\ pmem_idx(b, pte, vaddr) < PhysMemSize
                      /\ ~pte.flags.is_supervisor
                      /\ is_exec => ~pte.flags.disable_execute
       IN /\ Covers(mappings, b, vaddr)
          /\ \/ /\ allowed
                /\ obs' = LoadObs(vaddr, is_exec, Value(mem[vaddr]))
             \/ /\ ~allowed
                /\ obs' = LoadObs(vaddr, is_exec, Pagefault)
  /\ UNCHANGED <<mem, mappings>>

Fault(vaddr) ==
  /\ ~mem_domain_from_mappings_contains(vaddr, mappings)
  /\ \/ \E v \in Values : obs' = StoreObs(vaddr, v, Pagefault)
     \/ \E is_exec \in BOOLEAN : obs' = LoadObs(vaddr, is_exec, Pagefault)
  /\ UNCHANGED <<mem, mappings>>

(***************************************************************************)
(* System calls.                                                           *)
(***************************************************************************)

\* A new mapping gives its words any contents and leaves the others alone.
step_Map(vaddr, pte) ==
  /\ PT!step_Map_enabled(mappings, vaddr, pte)
  /\ \/ /\ candidate_mapping_overlaps_existing_vmem(mappings, vaddr, pte)
        /\ obs' = PT!MapObs(vaddr, pte, PT!ErrOverlap)
        /\ UNCHANGED <<mem, mappings>>
     \/ /\ ~candidate_mapping_overlaps_existing_vmem(mappings, vaddr, pte)
        /\ obs' = PT!MapObs(vaddr, pte, PT!Ok)
        /\ mappings' = map_insert(mappings, vaddr, pte)
        /\ mem' \in {m \in [mem_domain_from_mappings(mappings') -> Values] :
                       \A idx \in DOMAIN mem : m[idx] = mem[idx]}

step_Unmap(vaddr) ==
  /\ PT!step_Unmap_enabled(vaddr)
  /\ \/ /\ vaddr \in DOMAIN mappings
        /\ obs' = PT!UnmapObs(vaddr, PT!Ok)
        /\ mappings' = map_remove(mappings, vaddr)
        /\ mem' = Restrict(mem, mem_domain_from_mappings(mappings'))
     \/ /\ vaddr \notin DOMAIN mappings
        /\ obs' = PT!UnmapObs(vaddr, PT!ErrNoSuchMapping)
        /\ UNCHANGED <<mem, mappings>>

\* ErrUnmapped only says that no mapping backs the word with physical memory:
\* the guard is mem_domain_from_mappings, not the mappings themselves.
step_Resolve(vaddr) ==
  /\ \/ \E b \in DOMAIN mappings :
          /\ Covers(mappings, b, vaddr)
          /\ obs' = PT!ResolveObs(vaddr, PT!Resolved(b, mappings[b]))
     \/ /\ ~mem_domain_from_mappings_contains(vaddr, mappings)
        /\ obs' = PT!ResolveObs(vaddr, PT!ErrUnmapped)
  /\ UNCHANGED <<mem, mappings>>

Next ==
  \E vaddr \in VAddrs :
    \/ \E v \in Values : Store(vaddr, v)
    \/ \E is_exec \in BOOLEAN : Load(vaddr, is_exec)
    \/ Fault(vaddr)
    \/ \E pte \in PTEs : step_Map(vaddr, pte)
    \/ step_Unmap(vaddr)
    \/ step_Resolve(vaddr)

Spec == Init /\ [][Next]_vars
=============================================================================
