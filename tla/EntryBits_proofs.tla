-------------------------- MODULE EntryBits_proofs --------------------------
(***************************************************************************)
(* The word in memory encodes the record for every address: what           *)
(* l2_impl.rs leaves to "assume(false)" (lines 337 to 370) and to the      *)
(* assumptions on the frame (lines 1389 and 1391), from the alignment of   *)
(* the frame and the bound FramesInMemory on it.                           *)
(***************************************************************************)
EXTENDS EntryBits, TLAPS

(***************************************************************************)
(* The inductive invariant: bit by bit, a present word is determined by    *)
(* its record, but for the accessed and dirty bits.                        *)
(***************************************************************************)
AddrBits == 12 .. 51

ReservedBits == {3, 4} \cup (8 .. 11) \cup (52 .. 62)

Encodes(l, w, r) ==
  /\ 0 \in w /\ r.P
  /\ 1 \in w <=> r.RW
  /\ 2 \in w <=> r.US
  /\ 7 \in w <=> r.PS
  /\ 63 \in w <=> r.XD
  /\ w \cap AddrBits = r.addr
  /\ w \cap ReservedBits = {}

\* Where page entries and directory entries can be, and that pages are
\* aligned.
WellPlaced(l, r) ==
  /\ l = 0 \/ l = 3 => ~r.PS
  /\ (l = 3 \/ r.PS) => word_aligned(r.addr, l)

EntryInv ==
  /\ TypeOK
  /\ 0 \in entry <=> record.P
  /\ record.P => Encodes(layer, entry, record) /\ WellPlaced(layer, record)

(***************************************************************************)
(* The encoding.                                                           *)
(***************************************************************************)

\* A word has a bit if and only if the mask of that bit is set in it.
LEMMA MaskOfBit ==
  ASSUME NEW w, NEW b
  PROVE  all_set(w, bit(b)) = (b \in w)
<1> QED BY DEF all_set, bit

FlagBits == {1, 2, 7, 63}

\* An address and some flags go into bits that do not meet.
LEMMA AddressAndFlags ==
  ASSUME NEW a, a \subseteq AddrBits, NEW word,
         0 \in word,
         \A b : b \in word => b \in a \/ b = 0 \/ b \in FlagBits,
         \A b \in a : b \in word
  PROVE  /\ word \in Word
         /\ word \cap AddrBits = a
         /\ word \cap ReservedBits = {}
<1>1. \A b \in a : b \in Nat /\ 12 <= b /\ b <= 51
  BY DEF AddrBits
<1>2. word \in Word
  BY <1>1 DEF Word, Bits, FlagBits
<1>3. word \cap AddrBits = a
  <2>1. \A b \in AddrBits : b \in word => b \in a
    BY DEF AddrBits, FlagBits
  <2> QED BY <2>1
<1>4. word \cap ReservedBits = {}
  BY <1>1 DEF ReservedBits, FlagBits
<1> QED BY <1>2, <1>3, <1>4

(***************************************************************************)
(* The invariant is inductive.                                             *)
(***************************************************************************)
\* No bit at all is a word, and the record of no flag and no bit a record.
LEMMA EmptyIsTyped ==
  /\ {} \in Word
  /\ [P |-> FALSE, PS |-> FALSE, RW |-> FALSE, US |-> FALSE, XD |-> FALSE,
      addr |-> {}] \in Record!PageDirectoryEntry(Word)
<1>1. {} \in Word
  BY DEF Word
<1> QED BY <1>1 DEF Record!PageDirectoryEntry

LEMMA InitEstablishes == Init => EntryInv
<1> SUFFICES ASSUME Init PROVE EntryInv
  OBVIOUS
<1>1. record = [P |-> FALSE, PS |-> FALSE, RW |-> FALSE, US |-> FALSE,
                XD |-> FALSE, addr |-> {}]
  BY DEF Init, Record!zero_entry
<1>2. TypeOK
  BY <1>1, EmptyIsTyped DEF Init, TypeOK
<1>3. ~record.P /\ 0 \notin entry
  BY <1>1 DEF Init
<1> QED BY <1>2, <1>3 DEF EntryInv

\* A frame that is aligned to a page size and lies in memory has address
\* bits only.
LEMMA FrameIsAddress ==
  ASSUME FramesInMemory, NEW a \in Frames, NEW l \in 1 .. 3, word_aligned(a, l)
  PROVE  a \subseteq AddrBits
<1>1. a \subseteq Bits /\ a \cap BeyondMAXPHYADDR = {}
  BY EntryBitsAssumption DEF FramesInMemory, Word
<1>2. entry_bits(l) >= 12
  BY DEF entry_bits
<1>3. \A b \in a : b \in 12 .. 51
  BY <1>1, <1>2 DEF word_aligned, BeyondMAXPHYADDR, MAXPHYADDR_BITS, Bits, entry_bits
<1> QED BY <1>3 DEF AddrBits

LEMMA DirPageIsAddress ==
  ASSUME NEW a \in DirPages
  PROVE  a \subseteq AddrBits
<1>1. a \subseteq Bits \ BeyondMAXPHYADDR /\ word_aligned(a, 3)
  BY EntryBitsAssumption
<1>2. \A b \in a : b \in 12 .. 51
  BY <1>1 DEF word_aligned, BeyondMAXPHYADDR, MAXPHYADDR_BITS, Bits, entry_bits
<1> QED BY <1>2 DEF AddrBits

\* The MMU's own writes touch no bit that the record is about.
LEMMA MMUBitKeepsEncoding ==
  ASSUME NEW l, NEW w \in Word, NEW r, Encodes(l, w, r),
         NEW b \in {5, 6}
  PROVE  w \cup bit(b) \in Word /\ Encodes(l, w \cup bit(b), r)
<1>1. w \cup bit(b) \in Word
  BY DEF Word, Bits, bit
<1>2. (w \cup bit(b)) \cap AddrBits = w \cap AddrBits
  BY DEF bit, AddrBits
<1>3. (w \cup bit(b)) \cap ReservedBits = w \cap ReservedBits
  BY DEF bit, ReservedBits
<1>4. \A c \in {0, 1, 2, 7, 63} : (c \in w \cup bit(b)) = (c \in w)
  BY DEF bit
<1> QED BY <1>1, <1>2, <1>3, <1>4 DEF Encodes

LEMMA NextPreserves ==
  ASSUME FramesInMemory, EntryInv, [Next]_vars
  PROVE  EntryInv'
<1> USE DEF EntryInv
<1>1. ASSUME NEW pte \in PTEs, WritePage(pte) PROVE EntryInv'
  <2> DEFINE a == pte.frame.base
  <2>1. /\ a \in Frames
        /\ pte.flags.is_writable \in BOOLEAN
        /\ pte.flags.is_supervisor \in BOOLEAN
        /\ pte.flags.disable_execute \in BOOLEAN
    BY DEF PTEs, Rights
  <2>2. layer \in 1 .. 3 /\ layer' = layer /\ word_aligned(a, layer)
    BY <1>1 DEF WritePage, TypeOK
  <2>3. a \subseteq AddrBits
    BY <2>1, <2>2, FrameIsAddress
  <2>4. record' = [P |-> TRUE, PS |-> TRUE /\ layer # 3,
                   RW |-> pte.flags.is_writable, US |-> ~pte.flags.is_supervisor,
                   XD |-> pte.flags.disable_execute, addr |-> a]
    BY <1>1, EntryBitsAssumption DEF WritePage, Record!new_page_entry, Record!new_entry
  <2>5. entry' = new_entry(layer, a, TRUE, pte.flags.is_writable,
                   pte.flags.is_supervisor, FALSE, FALSE, pte.flags.disable_execute)
    BY <1>1 DEF WritePage, new_page_entry
  <2>6. entry' \in Word /\ Encodes(layer, entry', record')
    <3>1. /\ entry' \in Word
          /\ entry' \cap AddrBits = a
          /\ entry' \cap ReservedBits = {}
          /\ 0 \in entry'
          /\ 1 \in entry' <=> pte.flags.is_writable
          /\ 2 \in entry' <=> ~pte.flags.is_supervisor
          /\ 7 \in entry' <=> layer # 3
          /\ 63 \in entry' <=> pte.flags.disable_execute
      <4> USE DEF new_entry, When, bit, MASK_FLAG_P, MASK_L1_PG_FLAG_PS,
                  MASK_FLAG_RW, MASK_FLAG_US, MASK_FLAG_PWT, MASK_FLAG_PCD,
                  MASK_FLAG_XD
      <4>1. /\ 0 \in entry'
            /\ \A b \in a : b \in entry'
            /\ \A b : b \in entry' => b \in a \/ b = 0 \/ b \in FlagBits
        BY <2>5 DEF FlagBits
      <4>2. \A b \in FlagBits : b \notin a
        BY <2>3 DEF AddrBits, FlagBits
      <4>3. /\ 1 \in entry' <=> pte.flags.is_writable
            /\ 2 \in entry' <=> ~pte.flags.is_supervisor
            /\ 7 \in entry' <=> layer # 3
            /\ 63 \in entry' <=> pte.flags.disable_execute
        BY <2>1, <2>5, <4>2 DEF FlagBits
      <4> QED BY <2>3, <4>1, <4>3, AddressAndFlags
    <3>2. /\ record'.P
          /\ record'.RW <=> pte.flags.is_writable
          /\ record'.US <=> ~pte.flags.is_supervisor
          /\ record'.PS <=> layer # 3
          /\ record'.XD <=> pte.flags.disable_execute
          /\ record'.addr = a
      BY <2>4
    <3> QED BY <3>1, <3>2 DEF Encodes
  <2>7. record' \in Record!PageDirectoryEntry(Word)
    BY <2>1, <2>3, <2>4 DEF Record!PageDirectoryEntry, Word, AddrBits, Bits
  <2>8. WellPlaced(layer, record')
    <3>1. (record'.PS <=> layer # 3) /\ record'.addr = a
      BY <2>4
    <3> QED BY <2>2, <3>1 DEF WellPlaced
  <2>9. 0 \in entry' /\ record'.P
    BY <2>6 DEF Encodes
  <2> QED BY <2>2, <2>6, <2>7, <2>8, <2>9 DEF TypeOK
<1>2. ASSUME NEW addr \in DirPages, WriteDir(addr) PROVE EntryInv'
  <2>1. addr \subseteq AddrBits
    BY DirPageIsAddress
  <2>2. layer \in 0 .. 2 /\ layer' = layer
    BY <1>2 DEF WriteDir, TypeOK
  <2>3. record' = [P |-> TRUE, PS |-> FALSE /\ layer # 3, RW |-> TRUE,
                   US |-> ~FALSE, XD |-> FALSE, addr |-> addr]
    BY <1>2, EntryBitsAssumption DEF WriteDir, Record!new_dir_entry, Record!new_entry
  <2>4. entry' = new_entry(layer, addr, FALSE, TRUE, FALSE, FALSE, FALSE, FALSE)
    BY <1>2 DEF WriteDir, new_dir_entry
  <2>5. entry' \in Word /\ Encodes(layer, entry', record')
    <3>1. /\ entry' \in Word
          /\ entry' \cap AddrBits = addr
          /\ entry' \cap ReservedBits = {}
          /\ 0 \in entry' /\ 1 \in entry' /\ 2 \in entry'
          /\ 7 \notin entry' /\ 63 \notin entry'
      <4> USE DEF new_entry, When, bit, MASK_FLAG_P, MASK_L1_PG_FLAG_PS,
                  MASK_FLAG_RW, MASK_FLAG_US, MASK_FLAG_PWT, MASK_FLAG_PCD,
                  MASK_FLAG_XD
      <4>1. /\ 0 \in entry' /\ 1 \in entry' /\ 2 \in entry'
            /\ \A b \in addr : b \in entry'
            /\ \A b : b \in entry' => b \in addr \/ b = 0 \/ b = 1 \/ b = 2
        BY <2>4
      <4>2. \A b \in FlagBits : b \notin addr
        BY <2>1 DEF AddrBits, FlagBits
      <4>3. 7 \notin entry' /\ 63 \notin entry'
        BY <4>1, <4>2 DEF FlagBits
      <4>4. \A b : b \in entry' => b \in addr \/ b = 0 \/ b \in FlagBits
        BY <4>1 DEF FlagBits
      <4> QED BY <2>1, <4>1, <4>3, <4>4, AddressAndFlags
    <3>2. /\ record'.P /\ record'.RW /\ record'.US
          /\ ~record'.PS /\ ~record'.XD
          /\ record'.addr = addr
      BY <2>2, <2>3
    <3> QED BY <3>1, <3>2 DEF Encodes
  <2>6. record' \in Record!PageDirectoryEntry(Word)
    BY <2>1, <2>3 DEF Record!PageDirectoryEntry, Word, AddrBits, Bits
  <2>7. WellPlaced(layer, record')
    <3>1. ~record'.PS
      BY <2>3
    <3> QED BY <2>2, <3>1 DEF WellPlaced
  <2>8. 0 \in entry' /\ record'.P
    BY <2>5 DEF Encodes
  <2> QED BY <2>2, <2>5, <2>6, <2>7, <2>8 DEF TypeOK
<1>3. ASSUME Clear PROVE EntryInv'
  <2>1. record' = [P |-> FALSE, PS |-> FALSE, RW |-> FALSE, US |-> FALSE,
                   XD |-> FALSE, addr |-> {}]
    BY <1>3 DEF Clear, Record!zero_entry
  <2>2. TypeOK'
    BY <1>3, <2>1, EmptyIsTyped DEF Clear, TypeOK
  <2>3. ~record'.P /\ 0 \notin entry'
    BY <1>3, <2>1 DEF Clear
  <2> QED BY <2>2, <2>3
<1>4. ASSUME SetAccessed \/ SetDirty PROVE EntryInv'
  <2>1. PICK b \in {5, 6} : entry' = entry \cup bit(b)
    BY <1>4 DEF SetAccessed, SetDirty, MASK_FLAG_A, MASK_PG_FLAG_D
  <2>2. is_mapping(entry) /\ UNCHANGED <<layer, record>>
    BY <1>4 DEF SetAccessed, SetDirty
  <2>3. record.P
    BY <2>2, MaskOfBit DEF is_mapping, MASK_FLAG_P
  <2>4. entry' \in Word /\ Encodes(layer, entry', record)
    BY <2>1, <2>3, MMUBitKeepsEncoding DEF TypeOK
  <2>5. 0 \in entry'
    BY <2>4 DEF Encodes
  <2> QED BY <2>2, <2>3, <2>4, <2>5 DEF TypeOK
<1>5. ASSUME UNCHANGED vars PROVE EntryInv'
  BY <1>5 DEF vars, TypeOK
<1> QED BY <1>1, <1>2, <1>3, <1>4, <1>5 DEF Next

\* The word stays determined by the record.
THEOREM EntryInvariant ==
  ASSUME FramesInMemory
  PROVE  Spec => []EntryInv
<1>1. EntryInv /\ [Next]_vars => EntryInv'
  BY NextPreserves
<1> QED BY <1>1, InitEstablishes, PTL DEF Spec

(***************************************************************************)
(* What the readers of the word see.                                       *)
(***************************************************************************)

\* A present word, unfolded: no address bit is outside AddrBits.
LEMMA PresentWord ==
  ASSUME EntryInv, 0 \in entry
  PROVE  /\ record.P
         /\ Encodes(layer, entry, record)
         /\ WellPlaced(layer, record)
         /\ entry \cap MASK_ADDR = record.addr
         /\ record.addr \subseteq AddrBits
<1>1. record.P /\ Encodes(layer, entry, record) /\ WellPlaced(layer, record)
  BY DEF EntryInv
<1>2. entry \cap AddrBits = record.addr /\ 52 \notin entry
  BY <1>1 DEF Encodes, ReservedBits
<1>3. entry \cap MASK_ADDR = entry \cap AddrBits
  BY <1>2 DEF MASK_ADDR, bitmask_inc, MAXPHYADDR_BITS, AddrBits
<1> QED BY <1>1, <1>2, <1>3

LEMMA PageOfRecord ==
  ASSUME EntryInv, 0 \in entry
  PROVE  is_page(layer, entry) <=> Record!is_page(layer, record)
<1>1. 7 \in entry <=> record.PS
  BY PresentWord DEF Encodes
<1>2. all_set(entry, MASK_L1_PG_FLAG_PS) <=> 7 \in entry
  BY DEF all_set, MASK_L1_PG_FLAG_PS, bit
<1> QED BY <1>1, <1>2, EntryBitsAssumption DEF is_page, Record!is_page

\* The implementation reads back what it has written, in every entry, for
\* every frame in memory and every right, whatever the MMU has set, the rights
\* that l2_impl.rs assumes it reads included.
THEOREM WordEncodesRecord ==
  ASSUME FramesInMemory
  PROVE  Spec => []EncodesRecord
<1>1. EntryInv => EncodesRecord
  <2> SUFFICES ASSUME EntryInv PROVE EncodesRecord
    OBVIOUS
  <2>1. is_mapping(entry) <=> 0 \in entry
    BY DEF is_mapping, all_set, MASK_FLAG_P, bit
  <2>2. is_mapping(entry) <=> Record!is_mapping(record)
    BY <2>1 DEF EntryInv, Record!is_mapping
  <2>3. ASSUME 0 \in entry PROVE flags(entry) = Record!flags(record)
    <3>1. /\ 1 \in entry <=> record.RW
          /\ 2 \in entry <=> record.US
          /\ 63 \in entry <=> record.XD
      BY <2>3, PresentWord DEF Encodes
    <3>2. record.RW \in BOOLEAN /\ record.US \in BOOLEAN /\ record.XD \in BOOLEAN
      BY DEF EntryInv, TypeOK, Record!PageDirectoryEntry
    <3>3. /\ (MASK_FLAG_RW \subseteq entry) = record.RW
          /\ (~(MASK_FLAG_US \subseteq entry)) = ~record.US
          /\ (MASK_FLAG_XD \subseteq entry) = record.XD
      BY <3>1, <3>2 DEF bit, MASK_FLAG_RW, MASK_FLAG_US, MASK_FLAG_XD
    <3> QED BY <3>3 DEF flags, Record!flags, all_set
  <2>4. TypeOK
    BY DEF EntryInv
  <2>5. 0 \in entry => address(entry) = record.addr
    BY PresentWord DEF address
  <2> QED BY <2>1, <2>2, <2>3, <2>4, <2>5, PageOfRecord
          DEF EncodesRecord, Record!is_mapping
<1> QED BY <1>1, EntryInvariant, PTL

\* One address mask serves for all layers: the implementation's functions
\* agree with the view that the specification gives to the word.
THEOREM OneAddressMask ==
  ASSUME FramesInMemory
  PROVE  Spec => []ViewAgrees
<1>1. EntryInv => ViewAgrees
  <2> SUFFICES ASSUME EntryInv PROVE ViewAgrees
    OBVIOUS
  <2>1. is_mapping(entry) <=> 0 \in entry
    BY DEF is_mapping, all_set, MASK_FLAG_P, bit
  <2>2. CASE 0 \notin entry
    <3>1. ~all_set(entry, MASK_FLAG_P)
      BY <2>1, <2>2 DEF is_mapping
    <3>2. view(layer, entry).kind = "Empty"
      BY <3>1 DEF view
    <3> QED BY <2>1, <2>2, <3>2 DEF ViewAgrees, addr_is_zero_padded
  <2>3. CASE 0 \in entry
    <3>1. is_page(layer, entry) => entry \cap PageAddrMask(layer) = entry \cap MASK_ADDR
      <4> SUFFICES ASSUME is_page(layer, entry)
                   PROVE  entry \cap PageAddrMask(layer) = entry \cap MASK_ADDR
        OBVIOUS
      <4>1. layer \in 1 .. 3 /\ word_aligned(record.addr, layer)
        <5>1. layer = 3 \/ record.PS
          BY <2>3, PageOfRecord, EntryBitsAssumption DEF Record!is_page
        <5> QED BY <2>3, <5>1, PresentWord DEF WellPlaced, EntryInv, TypeOK
      <4>2. PageAddrMask(layer) = entry_bits(layer) .. 52
        <5> USE DEF PageAddrMask, entry_bits, bitmask_inc, MAXPHYADDR_BITS,
                    MASK_L1_PG_ADDR, MASK_L2_PG_ADDR, MASK_L3_PG_ADDR
        <5>1. CASE layer = 1
          BY <5>1
        <5>2. CASE layer = 2
          BY <5>2
        <5>3. CASE layer = 3
          BY <5>3
        <5> QED BY <4>1, <5>1, <5>2, <5>3
      <4>3. entry_bits(layer) \in 12 .. 30
        BY <4>1 DEF entry_bits
      <4>4. \A b \in entry : b \in MASK_ADDR => b \in entry_bits(layer) .. 52
        <5> TAKE b \in entry
        <5> HAVE b \in MASK_ADDR
        <5>1. b \in 12 .. 52 /\ b \in record.addr
          BY <2>3, PresentWord DEF MASK_ADDR, bitmask_inc, MAXPHYADDR_BITS
        <5>2. b \notin 0 .. (entry_bits(layer) - 1)
          BY <4>1, <5>1 DEF word_aligned
        <5> QED BY <4>3, <5>1, <5>2
      <4>5. entry_bits(layer) .. 52 \subseteq MASK_ADDR
        BY <4>3 DEF MASK_ADDR, bitmask_inc, MAXPHYADDR_BITS
      <4> QED BY <4>2, <4>4, <4>5
    <3>2. CASE is_page(layer, entry)
      <4>1. view(layer, entry) = [kind |-> "Page", addr |-> entry \cap PageAddrMask(layer)]
        BY <2>1, <2>3, <3>2 DEF view, is_page, is_mapping
      <4>2. /\ view(layer, entry).kind = "Page"
            /\ view(layer, entry).addr = entry \cap MASK_ADDR
        BY <3>1, <3>2, <4>1
      <4> QED BY <2>1, <2>3, <3>1, <3>2, <4>2
              DEF ViewAgrees, addr_is_zero_padded, address, is_dir
    <3>3. CASE ~is_page(layer, entry)
      <4>1. view(layer, entry) = [kind |-> "Directory", addr |-> entry \cap MASK_ADDR]
        BY <2>1, <2>3, <3>3 DEF view, is_page, is_mapping
      <4>2. /\ view(layer, entry).kind = "Directory"
            /\ view(layer, entry).addr = entry \cap MASK_ADDR
        BY <4>1
      <4> QED BY <2>1, <2>3, <3>3, <4>2
              DEF ViewAgrees, addr_is_zero_padded, address, is_dir
    <3> QED BY <3>2, <3>3
  <2> QED BY <2>2, <2>3
<1> QED BY <1>1, EntryInvariant, PTL

\* The MMU takes the word for what the implementation means by it and never
\* faults on a reserved bit.
THEOREM MMUReadsWord ==
  ASSUME FramesInMemory
  PROVE  Spec => []MMUReadsRecord
<1>1. EntryInv => MMUReadsRecord
  <2> SUFFICES ASSUME EntryInv, 0 \in entry PROVE MMUReadsRecord
    BY DEF MMUReadsRecord, is_mapping, all_set, MASK_FLAG_P, bit
  <2>1. /\ 1 \in entry <=> record.RW
        /\ 2 \in entry <=> record.US
        /\ 7 \in entry <=> record.PS
        /\ 63 \in entry <=> record.XD
        /\ entry \cap AddrBits = record.addr
        /\ entry \cap ReservedBits = {}
    BY PresentWord DEF Encodes
  <2>2. /\ record.RW \in BOOLEAN /\ record.US \in BOOLEAN /\ record.XD \in BOOLEAN
        /\ record.PS \in BOOLEAN /\ layer \in 0 .. 3
    BY DEF EntryInv, TypeOK, Record!PageDirectoryEntry
  <2>3. mmu_is_page(layer, entry) <=> layer = 3 \/ record.PS
    BY <2>1 DEF mmu_is_page
  <2>4. /\ layer = 0 \/ layer = 3 => 7 \notin entry
        /\ mmu_is_page(layer, entry) =>
             \A b \in record.addr : b \notin 0 .. (entry_bits(layer) - 1)
    BY <2>1, <2>3, PresentWord DEF WellPlaced, word_aligned
  <2>5. mmu_addr(layer, entry) = record.addr
    <3>1. entry_bits(layer) \in Nat /\ entry_bits(layer) >= 12
      BY <2>2 DEF entry_bits
    <3>2. \A b \in record.addr : b \in entry /\ b \in 12 .. 51
      BY <2>1 DEF AddrBits
    <3>3. CASE mmu_is_page(layer, entry)
      <4>1. \A b \in record.addr : b \in entry_bits(layer) .. 51
        BY <2>4, <3>1, <3>2, <3>3
      <4>2. \A b \in entry : b \in entry_bits(layer) .. 51 => b \in record.addr
        BY <2>1, <3>1 DEF AddrBits
      <4> QED BY <3>2, <3>3, <4>1, <4>2 DEF mmu_addr, MAXPHYADDR_BITS
    <3>4. CASE ~mmu_is_page(layer, entry)
      BY <2>1, <3>4 DEF mmu_addr, MAXPHYADDR_BITS, AddrBits
    <3> QED BY <3>3, <3>4
  <2>6. entry \cap (mmu_reserved(layer, entry) \cup mmu_special(layer, entry)) = {}
    <3>1. \A b \in mmu_special(layer, entry) : b \notin entry
      <4>1. 3 \notin entry /\ 4 \notin entry /\ 8 \notin entry
        BY <2>1 DEF ReservedBits
      <4>2. CASE mmu_is_page(layer, entry) /\ layer # 3
        <5>1. entry_bits(layer) \in Nat /\ entry_bits(layer) > 12
          BY <2>2, <4>2 DEF entry_bits
        <5>2. 12 \notin record.addr
          BY <2>4, <4>2, <5>1
        <5>3. 12 \notin entry
          BY <2>1, <5>2 DEF AddrBits
        <5> QED BY <4>1, <4>2, <5>3 DEF mmu_special
      <4>3. CASE layer = 3
        BY <2>4, <4>1, <4>3 DEF mmu_special
      <4>4. CASE ~mmu_is_page(layer, entry)
        BY <4>1, <4>4 DEF mmu_special
      <4> QED BY <4>2, <4>3, <4>4
    <3>2. \A b \in mmu_reserved(layer, entry) : b \notin entry
      <4>1. CASE layer = 0
        BY <2>4, <4>1 DEF mmu_reserved
      <4>2. CASE layer \in 1 .. 2 /\ mmu_is_page(layer, entry)
        <5>1. entry_bits(layer) \in 12 .. 30
          BY <4>2 DEF entry_bits
        <5>2. \A b \in 13 .. (entry_bits(layer) - 1) : b \notin record.addr
          BY <2>4, <4>2, <5>1
        <5>3. \A b \in 13 .. (entry_bits(layer) - 1) : b \notin entry
          BY <2>1, <5>1, <5>2 DEF AddrBits
        <5> QED BY <4>2, <5>3 DEF mmu_reserved
      <4>3. CASE layer = 3 \/ (layer # 0 /\ ~mmu_is_page(layer, entry))
        BY <4>3 DEF mmu_reserved
      <4> QED BY <2>2, <4>1, <4>2, <4>3
    <3> QED BY <3>1, <3>2
  <2>7. mmu_is_page(layer, entry) <=> Record!is_page(layer, record)
    BY <2>3, EntryBitsAssumption DEF Record!is_page, mmu_is_page
  <2> QED BY <2>1, <2>2, <2>5, <2>6, <2>7 DEF MMUReadsRecord
<1> QED BY <1>1, EntryInvariant, PTL
=============================================================================
