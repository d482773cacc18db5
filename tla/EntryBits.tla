------------------------------ MODULE EntryBits ------------------------------
(***************************************************************************)
(* One entry of a page directory as the 64-bit word that is in memory      *)
(* (PageDirectoryEntry, impl_u/l2_impl.rs): how map_frame and unmap write  *)
(* it, how they read it back, and how the MMU reads it, which also sets    *)
(* the accessed and dirty bits whenever it likes ("We need to allow the    *)
(* dirty and accessed bits to change in the memory", spec_t/mem.rs:58).    *)
(*                                                                         *)
(* A word is the set of the positions of its bits that are 1: w & m is     *)
(* w \cap m, and w | m is w \cup m.  Beside the word the module keeps the  *)
(* record that PageTableImpl has in its place.                             *)
(***************************************************************************)
EXTENDS Naturals

CONSTANTS
  LastLayer,   \* index of the leaf layer
  Frames,      \* the base addresses of the frames that callers map
  DirPages     \* the base addresses of the pages that hold directories

Bits == 0 .. 63

Word == SUBSET Bits

VARIABLES
  layer,       \* the layer of the directory the entry is in
  entry,       \* the word in memory
  record       \* what PageTableImpl has in memory

vars == <<layer, entry, record>>

Record == INSTANCE PageDirectoryEntries

(***************************************************************************)
(* Masks.  MASK_ADDR and MAXPHYADDR_BITS disagree by one: the mask also    *)
(* takes in bit 52, which no physical address has.                         *)
(***************************************************************************)
bit(v) == {v}

bitmask_inc(low, high) == low .. high

MAXPHYADDR_BITS == 52

MASK_FLAG_P        == bit(0)
MASK_FLAG_RW       == bit(1)
MASK_FLAG_US       == bit(2)
MASK_FLAG_PWT      == bit(3)
MASK_FLAG_PCD      == bit(4)
MASK_FLAG_A        == bit(5)
MASK_PG_FLAG_D     == bit(6)
MASK_L1_PG_FLAG_PS == bit(7)
MASK_FLAG_XD       == bit(63)

MASK_ADDR       == bitmask_inc(12, MAXPHYADDR_BITS)
MASK_L1_PG_ADDR == bitmask_inc(30, MAXPHYADDR_BITS)
MASK_L2_PG_ADDR == bitmask_inc(21, MAXPHYADDR_BITS)
MASK_L3_PG_ADDR == bitmask_inc(12, MAXPHYADDR_BITS)

\* entry_size(l) = 2^entry_bits(l) bytes.
entry_bits(l) == 12 + 9 * (3 - l)

\* addr % entry_size(l) = 0
word_aligned(addr, l) == addr \cap (0 .. (entry_bits(l) - 1)) = {}

\* Bits that no physical address has.
BeyondMAXPHYADDR == MAXPHYADDR_BITS .. 63

ASSUME EntryBitsAssumption ==
  /\ LastLayer = 3
  /\ Frames \subseteq Word
  /\ \A a \in DirPages : a \subseteq Bits \ BeyondMAXPHYADDR /\ word_aligned(a, 3)

(***************************************************************************)
(* Writing an entry.                                                       *)
(***************************************************************************)
When(condition, mask) == IF condition THEN mask ELSE {}

\* The copy without proofs (erased-verified-page-table) has the U/S bit the
\* other way round.
new_entry_erased(l, address, is_page, is_writable, is_supervisor, is_writethrough, disable_cache, disable_execute) ==
  address \cup MASK_FLAG_P
    \cup When(is_page /\ l # 3, MASK_L1_PG_FLAG_PS)
    \cup When(is_writable, MASK_FLAG_RW)
    \cup When(is_supervisor, MASK_FLAG_US)
    \cup When(is_writethrough, MASK_FLAG_PWT)
    \cup When(disable_cache, MASK_FLAG_PCD)
    \cup When(disable_execute, MASK_FLAG_XD)

\* Seeded fault: the page size bit at the leaf layer, where it selects the
\* memory type.
new_entry_ps_everywhere(l, address, is_page, is_writable, is_supervisor, is_writethrough, disable_cache, disable_execute) ==
  address \cup MASK_FLAG_P
    \cup When(is_page, MASK_L1_PG_FLAG_PS)
    \cup When(is_writable, MASK_FLAG_RW)
    \cup When(~is_supervisor, MASK_FLAG_US)
    \cup When(is_writethrough, MASK_FLAG_PWT)
    \cup When(disable_cache, MASK_FLAG_PCD)
    \cup When(disable_execute, MASK_FLAG_XD)

new_entry(l, address, is_page, is_writable, is_supervisor, is_writethrough, disable_cache, disable_execute) ==
  address \cup MASK_FLAG_P
    \cup When(is_page /\ l # 3, MASK_L1_PG_FLAG_PS)
    \cup When(is_writable, MASK_FLAG_RW)
    \cup When(~is_supervisor, MASK_FLAG_US)
    \cup When(is_writethrough, MASK_FLAG_PWT)
    \cup When(disable_cache, MASK_FLAG_PCD)
    \cup When(disable_execute, MASK_FLAG_XD)

new_page_entry(l, pte) ==
  new_entry(l, pte.frame.base, TRUE, pte.flags.is_writable,
            pte.flags.is_supervisor, FALSE, FALSE, pte.flags.disable_execute)

new_dir_entry(l, address) ==
  new_entry(l, address, FALSE, TRUE, FALSE, FALSE, FALSE, FALSE)

(***************************************************************************)
(* Reading an entry: the functions of the implementation.                  *)
(***************************************************************************)
all_set(w, mask) == w \cap mask = mask

address(w) == w \cap MASK_ADDR

flags(w) ==
  [is_writable     |-> all_set(w, MASK_FLAG_RW),
   is_supervisor   |-> ~all_set(w, MASK_FLAG_US),
   disable_execute |-> all_set(w, MASK_FLAG_XD)]

is_mapping(w) == all_set(w, MASK_FLAG_P)

\* Seeded fault: the page size bit alone decides.
is_page_by_bit(l, w) == all_set(w, MASK_L1_PG_FLAG_PS)

is_page(l, w) == l = 3 \/ all_set(w, MASK_L1_PG_FLAG_PS)

is_dir(l, w) == ~is_page(l, w)

(***************************************************************************)
(* Reading an entry: the view its specification gives it, with an address  *)
(* mask for each layer, and the invariant that lets address use one mask.  *)
(***************************************************************************)
PageAddrMask(l) ==
  IF l = 3 THEN MASK_L3_PG_ADDR ELSE IF l = 2 THEN MASK_L2_PG_ADDR ELSE MASK_L1_PG_ADDR

view(l, w) ==
  IF ~all_set(w, MASK_FLAG_P) THEN [kind |-> "Empty"]
  ELSE IF l = 3 \/ all_set(w, MASK_L1_PG_FLAG_PS)
       THEN [kind |-> "Page", addr |-> w \cap PageAddrMask(l)]
       ELSE [kind |-> "Directory", addr |-> w \cap MASK_ADDR]

addr_is_zero_padded(l, addr, page) ==
  page /\ l > 0 => addr \cap PageAddrMask(l) = addr \cap MASK_ADDR

(***************************************************************************)
(* Reading an entry: the MMU.  A set bit among mmu_reserved makes the walk *)
(* fault; bits 3, 4 and the PAT bit choose a memory type other than the    *)
(* default; bit 8 keeps the translation across address spaces.             *)
(***************************************************************************)
mmu_is_page(l, w) == l = 3 \/ 7 \in w

mmu_addr(l, w) ==
  w \cap ((IF mmu_is_page(l, w) THEN entry_bits(l) ELSE 12) .. (MAXPHYADDR_BITS - 1))

mmu_reserved(l, w) ==
  IF l = 0 THEN {7}
  ELSE IF l < 3 /\ mmu_is_page(l, w) THEN 13 .. (entry_bits(l) - 1) ELSE {}

mmu_special(l, w) ==
  {3, 4} \cup (IF mmu_is_page(l, w) THEN {8, IF l = 3 THEN 7 ELSE 12} ELSE {})

(***************************************************************************)
(* The entry in memory: empty at first; map_frame writes it when it is not *)
(* present, unmap clears it.                                               *)
(***************************************************************************)
Init ==
  /\ layer \in 0 .. 3
  /\ entry = {}
  /\ record = Record!zero_entry({})

\* map_frame accepts any frame that is aligned to the page's size.
WritePage(pte) ==
  /\ layer > 0
  /\ ~is_mapping(entry)
  /\ word_aligned(pte.frame.base, layer)
  /\ entry' = new_page_entry(layer, pte)
  /\ record' = Record!new_page_entry(layer, pte)
  /\ UNCHANGED layer

WriteDir(addr) ==
  /\ layer < 3
  /\ ~is_mapping(entry)
  /\ entry' = new_dir_entry(layer, addr)
  /\ record' = Record!new_dir_entry(layer, addr)
  /\ UNCHANGED layer

Clear ==
  /\ is_mapping(entry)
  /\ entry' = {}
  /\ record' = Record!zero_entry({})
  /\ UNCHANGED layer

\* The MMU has used the entry in a translation.
SetAccessed ==
  /\ is_mapping(entry)
  /\ entry' = entry \cup MASK_FLAG_A
  /\ UNCHANGED <<layer, record>>

\* A process has stored through the page.
SetDirty ==
  /\ is_mapping(entry)
  /\ mmu_is_page(layer, entry)
  /\ entry' = entry \cup MASK_PG_FLAG_D
  /\ UNCHANGED <<layer, record>>

Rights ==
  [is_writable : BOOLEAN, is_supervisor : BOOLEAN, disable_execute : BOOLEAN]

PTEs == [frame : [base : Frames], flags : Rights]

\* The precondition of map_frame that l2_impl.rs:1390 asks about ("need
\* additional precondition?") and no caller is held to.
FramesInMemory == \A a \in Frames : a \cap BeyondMAXPHYADDR = {}

Next ==
  \/ \E pte \in PTEs : WritePage(pte)
  \/ \E addr \in DirPages : WriteDir(addr)
  \/ Clear \/ SetAccessed \/ SetDirty

Spec == Init /\ [][Next]_vars

(***************************************************************************)
(* Properties.                                                             *)
(***************************************************************************)
TypeOK ==
  /\ layer \in 0 .. 3
  /\ entry \in Word
  /\ record \in Record!PageDirectoryEntry(Word)

\* What the implementation reads back is what it has written, and what
\* PageTableImpl has in its place, whatever the MMU has done to the accessed
\* and dirty bits in between (the postconditions of new_entry, l2_impl.rs:428).
\* Of those that are assumed (337-370), these are the ones about RW, US and XD;
\* PWT and PCD are in MMUReadsRecord, the padding is in ViewAgrees.
EncodesRecord ==
  /\ TypeOK
  /\ is_mapping(entry) <=> Record!is_mapping(record)
  /\ is_mapping(entry) =>
       /\ address(entry) = record.addr
       /\ is_page(layer, entry) <=> Record!is_page(layer, record)
       /\ flags(entry) = Record!flags(record)

\* address, is_mapping and is_page return what the view says (their
\* postconditions, l2_impl.rs:496, 525 and 536): one address mask does for
\* all layers because the entry is padded with zeros.
ViewAgrees ==
  LET v == view(layer, entry)
  IN /\ addr_is_zero_padded(layer, entry, v.kind = "Page")
     /\ is_mapping(entry) <=> v.kind # "Empty"
     /\ is_mapping(entry) =>
          /\ address(entry) = v.addr
          /\ is_page(layer, entry) <=> v.kind = "Page"
          /\ is_dir(layer, entry) <=> v.kind = "Directory"

\* The MMU takes the word for what the record says, the premise of the page
\* walk in PageTableImpl: the same kind of entry, address and rights, no bit
\* that makes it fault, no memory type and no scope but the default ones.
MMUReadsRecord ==
  is_mapping(entry) =>
    /\ mmu_is_page(layer, entry) <=> Record!is_page(layer, record)
    /\ mmu_addr(layer, entry) = record.addr
    /\ 1 \in entry <=> record.RW
    /\ 2 \in entry <=> record.US
    /\ 63 \in entry <=> record.XD
    /\ entry \cap (mmu_reserved(layer, entry) \cup mmu_special(layer, entry)) = {}

\* new_page_entry, l2_impl.rs:384: "r.entry & MASK_ADDR == pte.frame.base".
AddressIsKept == is_mapping(entry) => address(entry) = record.addr
=============================================================================
