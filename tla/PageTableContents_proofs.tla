----------------------- MODULE PageTableContents_proofs -----------------------
(***************************************************************************)
(* Adding and removing a mapping keeps the contents of a page table well   *)
(* formed, for every geometry.  The lemmas speak of a map m, so that what  *)
(* holds the map does not matter to them.                                  *)
(***************************************************************************)
EXTENDS PageTableContents, WellFoundedInduction, TLAPS

(***************************************************************************)
(* Mappings as functions.                                                  *)
(***************************************************************************)

\* map_remove takes out one pair and keeps the others, like Map::remove.
LEMMA RemoveFacts ==
  ASSUME NEW m, NEW b
  PROVE  /\ DOMAIN map_remove(m, b) = DOMAIN m \ {b}
         /\ \A x \in DOMAIN m \ {b} : map_remove(m, b)[x] = m[x]
BY DEF map_remove, Restrict

\* The result of map_insert is again a mapping.
LEMMA InsertIsMapping ==
  ASSUME NEW m, NEW b \in Nat, NEW pte \in PageTableEntry, IsMapping(m)
  PROVE  IsMapping(map_insert(m, b, pte))
<1> DEFINE n == map_insert(m, b, pte)
<1>1. n = [x \in DOMAIN n |-> n[x]]
  BY DEF map_insert
<1>2. \A x \in DOMAIN m : x \in Nat /\ m[x] \in PageTableEntry
  BY DEF IsMapping
<1>3. /\ DOMAIN n = DOMAIN m \cup {b}
      /\ n[b] = pte
      /\ \A x \in DOMAIN m : x # b => n[x] = m[x]
  BY DEF map_insert
<1> HIDE DEF n
<1>4. \A x \in DOMAIN n : x \in Nat /\ n[x] \in PageTableEntry
  BY <1>2, <1>3
<1>5. IsMapping(n)
  BY <1>1, <1>4 DEF IsMapping
<1> QED BY <1>5 DEF n

\* The result of map_remove is again a mapping.
LEMMA RemoveIsMapping ==
  ASSUME NEW m, NEW b, IsMapping(m)
  PROVE  IsMapping(map_remove(m, b))
<1> DEFINE n == map_remove(m, b)
<1>1. n = [x \in DOMAIN n |-> n[x]]
  BY DEF map_remove, Restrict
<1>2. \A x \in DOMAIN m : x \in Nat /\ m[x] \in PageTableEntry
  BY DEF IsMapping
<1>3. DOMAIN n = DOMAIN m \ {b} /\ \A x \in DOMAIN m \ {b} : n[x] = m[x]
  BY RemoveFacts
<1> HIDE DEF n
<1>4. \A x \in DOMAIN n : x \in Nat /\ n[x] \in PageTableEntry
  BY <1>2, <1>3
<1>5. IsMapping(n)
  BY <1>1, <1>4 DEF IsMapping
<1> QED BY <1>5 DEF n

(***************************************************************************)
(* Regions.                                                                *)
(***************************************************************************)

\* The bounds of the address space and the page sizes are numbers.
LEMMA GeometryFacts ==
  /\ UpperVaddr \in Nat
  /\ PageSizes \subseteq Nat \ {0}
<1>1. NumEntries \in Nat /\ 0 \in Layers /\ EntrySize[0] \in Nat
  BY ArchInv DEF Layers
<1>2. UpperVaddr \in Nat
  BY <1>1, SMT DEF UpperVaddr, entry_base
<1>3. PageSizes \subseteq Nat \ {0}
  BY ArchInv DEF PageSizes, Layers
<1> QED BY <1>2, <1>3

\* overlap does not depend on the order of its regions, if neither is empty.
LEMMA OverlapSymmetric ==
  ASSUME NEW b1 \in Nat, NEW s1 \in Nat \ {0}, NEW b2 \in Nat, NEW s2 \in Nat \ {0}
  PROVE  overlap(MemRegion(b1, s1), MemRegion(b2, s2)) <=>
           overlap(MemRegion(b2, s2), MemRegion(b1, s1))
BY DEF overlap, MemRegion

\* Regions that share a word overlap.
LEMMA SharedWordOverlaps ==
  ASSUME NEW b1 \in Nat, NEW s1 \in Nat, NEW b2 \in Nat, NEW s2 \in Nat,
         NEW x \in Nat, between(x, b1, b1 + s1), between(x, b2, b2 + s2)
  PROVE  overlap(MemRegion(b1, s1), MemRegion(b2, s2))
BY DEF overlap, MemRegion, between

\* The fields of a page table entry.
LEMMA EntryFacts ==
  ASSUME NEW pte \in PageTableEntry
  PROVE  /\ pte.frame.base \in Nat /\ pte.frame.size \in Nat
         /\ pte.frame = MemRegion(pte.frame.base, pte.frame.size)
BY DEF PageTableEntry, MemRegion

(***************************************************************************)
(* The operations preserve the invariants of the contents.                 *)
(***************************************************************************)

\* A successful Map of a page that is not of the root's size, from l0.rs
\* map_frame_preserves_inv.
LEMMA MapFramePreservesContents ==
  ASSUME NEW m, ContentsInv(m), NEW vaddr \in Nat, NEW pte \in PageTableEntry,
         accepted_mapping(vaddr, pte), pte.frame.size \in PageSizes,
         valid_mapping(m, vaddr, pte),
         ~candidate_mapping_overlaps_existing_pmem(m, vaddr, pte)
  PROVE  ContentsInv(map_insert(m, vaddr, pte))
<1> DEFINE n == map_insert(m, vaddr, pte)
<1>1. /\ DOMAIN n = DOMAIN m \cup {vaddr}
      /\ n[vaddr] = pte
      /\ \A x \in DOMAIN m : x # vaddr => n[x] = m[x]
  BY DEF map_insert
<1>2. IsMapping(n)
  BY InsertIsMapping DEF ContentsInv
<1>3. \A x \in DOMAIN m : x \in Nat /\ m[x] \in PageTableEntry
  BY DEF ContentsInv, IsMapping
<1> HIDE DEF n
<1>4. mappings_are_of_valid_size(n)
  BY <1>1 DEF ContentsInv, mappings_are_of_valid_size
<1>5. mappings_are_aligned(n)
  BY <1>1 DEF ContentsInv, mappings_are_aligned, accepted_mapping
<1>6. mappings_in_bounds(n)
  BY <1>1 DEF ContentsInv, mappings_in_bounds, accepted_mapping
<1>7. \A x \in DOMAIN m :
         /\ m[x].frame.size \in Nat \ {0}
         /\ m[x].frame.base \in Nat
         /\ m[x].frame = MemRegion(m[x].frame.base, m[x].frame.size)
  BY <1>3, GeometryFacts, EntryFacts DEF ContentsInv, mappings_are_of_valid_size
<1>8. /\ pte.frame.size \in Nat \ {0}
      /\ pte.frame.base \in Nat
      /\ pte.frame = MemRegion(pte.frame.base, pte.frame.size)
  BY GeometryFacts, EntryFacts
<1>9. mappings_dont_overlap(n)
  <2>1. \A x \in DOMAIN m :
          /\ ~overlap(MemRegion(vaddr, pte.frame.size), MemRegion(x, m[x].frame.size))
          /\ ~overlap(MemRegion(x, m[x].frame.size), MemRegion(vaddr, pte.frame.size))
    BY <1>3, <1>7, <1>8, OverlapSymmetric
       DEF valid_mapping
  <2> QED BY <1>1, <2>1 DEF ContentsInv, mappings_dont_overlap
<1>10. mappings_dont_overlap_in_pmem(n)
  <2>1. \A x \in DOMAIN m :
          ~overlap(pte.frame, m[x].frame) /\ ~overlap(m[x].frame, pte.frame)
    BY <1>7, <1>8, OverlapSymmetric
       DEF candidate_mapping_overlaps_existing_pmem
  <2> QED BY <1>1, <2>1 DEF ContentsInv, mappings_dont_overlap_in_pmem
<1> QED BY <1>2, <1>4, <1>5, <1>6, <1>9, <1>10 DEF ContentsInv, n

\* A successful Unmap, from l0.rs lemma_unmap_preserves_inv.
LEMMA UnmapPreservesContents ==
  ASSUME NEW m, ContentsInv(m), NEW vaddr
  PROVE  ContentsInv(map_remove(m, vaddr))
<1> DEFINE n == map_remove(m, vaddr)
<1>1. IsMapping(n)
  BY RemoveIsMapping DEF ContentsInv
<1>2. DOMAIN n = DOMAIN m \ {vaddr} /\ \A x \in DOMAIN n : n[x] = m[x]
  BY RemoveFacts
<1> HIDE DEF n
<1>3. /\ mappings_are_of_valid_size(n)
      /\ mappings_are_aligned(n)
      /\ mappings_in_bounds(n)
  BY <1>2 DEF ContentsInv, mappings_are_of_valid_size, mappings_are_aligned,
              mappings_in_bounds
<1>4. mappings_dont_overlap(n) /\ mappings_dont_overlap_in_pmem(n)
  BY <1>2 DEF ContentsInv, mappings_dont_overlap, mappings_dont_overlap_in_pmem
<1> QED BY <1>1, <1>3, <1>4 DEF ContentsInv, n

\* The empty page table is well formed.
LEMMA EmptyContents == ContentsInv(EmptyMap)
BY DEF ContentsInv, EmptyMap, IsMapping, mappings_are_of_valid_size,
       mappings_are_aligned, mappings_in_bounds, mappings_dont_overlap,
       mappings_dont_overlap_in_pmem

\* Well-formed contents translate each address at most once.
LEMMA ContentsTranslateOnce ==
  ASSUME NEW m, ContentsInv(m), NEW vaddr \in Nat,
         NEW b1 \in DOMAIN m, NEW b2 \in DOMAIN m,
         Covers(m, b1, vaddr), Covers(m, b2, vaddr)
  PROVE  b1 = b2
<1>1. /\ b1 \in Nat /\ m[b1].frame.size \in Nat
      /\ b2 \in Nat /\ m[b2].frame.size \in Nat
  BY EntryFacts DEF ContentsInv, IsMapping
<1>2. overlap(MemRegion(b1, m[b1].frame.size), MemRegion(b2, m[b2].frame.size))
  BY <1>1, SharedWordOverlaps DEF Covers
<1> QED BY <1>2 DEF ContentsInv, mappings_dont_overlap

(***************************************************************************)
(* The geometry: sizes, spans and alignment of entries.                    *)
(***************************************************************************)

\* A set of numbers has a least element: induction over the layers without a
\* proof rule that takes a predicate.
LEMMA LeastElement ==
  ASSUME NEW S \in SUBSET Nat, S # {}
  PROVE  \E n \in S : \A k \in S : n <= k
<1> DEFINE R == {p \in Nat \X Nat : p[1] < p[2]}
<1>1. IsWellFoundedOn(R, Nat)
  BY NatLessThanWellFounded DEF OpToRel
<1>2. PICK n \in S : \A k \in S : ~ (<<k, n>> \in R)
  <2> HIDE DEF R
  <2> QED BY <1>1, WFMin
<1>3. ASSUME NEW k \in S PROVE n <= k
  <2>1. ~ (<<k, n>> \in R)
    BY <1>2
  <2>2. ~ (k < n)
    BY <2>1
  <2> QED BY <2>2
<1> QED BY <1>3

\* What ArchInv (Arch::inv) says of the sizes of the layers.
LEMMA SizeFacts ==
  /\ NumEntries \in Nat \ {0}
  /\ LastLayer \in Nat \ {0}
  /\ \A l \in Layers : EntrySize[l] \in Nat \ {0} /\ l \in Nat /\ l <= LastLayer
  /\ \A l \in Layers : l # LastLayer => l + 1 \in Layers /\ EntrySize[l] = NumEntries * EntrySize[l + 1]
  /\ UpperVaddr = NumEntries * EntrySize[0]
  /\ 0 \in Layers
<1>1. \A l \in Layers : EntrySize[l] \in Nat \ {0} /\ l \in Nat /\ l <= LastLayer
  BY ArchInv DEF Layers
<1>2. ASSUME NEW l \in Layers, l # LastLayer
      PROVE  l + 1 \in Layers /\ EntrySize[l] = NumEntries * EntrySize[l + 1]
  <2>1. l \in 0 .. (LastLayer - 1) /\ l + 1 \in Layers
    BY <1>2, ArchInv DEF Layers
  <2>2. EntrySize[l] = EntrySize[l + 1] * NumEntries
    BY <2>1, ArchInv
  <2> QED BY <2>1, <2>2, <1>1, ArchInv
<1>3. 0 \in Layers
  BY ArchInv DEF Layers
<1>4. UpperVaddr = NumEntries * EntrySize[0]
  BY <1>1, <1>3, ArchInv DEF UpperVaddr, entry_base
<1> QED BY <1>1, <1>2, <1>3, <1>4, ArchInv

\* No layer has entries as large as those of the root, so that map_frame never
\* writes a page there (assumed at l2_impl.rs:1384).
LEMMA RootSizeIsLargest ==
  ASSUME NumEntries > 1, NEW l \in Layers, l # 0
  PROVE  EntrySize[l] # EntrySize[0]
<1> DEFINE T == {k \in Layers \ {0} : EntrySize[k] >= EntrySize[0]}
<1>1. ASSUME T # {} PROVE FALSE
  <2>1. T \in SUBSET Nat
    BY SizeFacts
  <2>2. PICK k \in T : \A j \in T : k <= j
    BY <1>1, <2>1, LeastElement
  <2>3. k - 1 \in Layers /\ k - 1 # LastLayer /\ k - 1 + 1 = k /\ k - 1 < k
    BY ArchInv DEF Layers
  <2>4. EntrySize[k - 1] = NumEntries * EntrySize[k] /\ EntrySize[k] \in Nat \ {0} /\ EntrySize[k - 1] \in Nat /\ EntrySize[0] \in Nat
    BY <2>3, SizeFacts
  <2>5. EntrySize[k] < EntrySize[k - 1]
    BY <2>4, SizeFacts
  <2>6. k - 1 \notin T
    BY <2>2, <2>3 DEF Layers
  <2>7. EntrySize[k - 1] <= EntrySize[0]
    BY <2>3, <2>6, <2>4
  <2> QED BY <2>2, <2>4, <2>5, <2>7
<1> QED BY <1>1, SizeFacts

\* Division with remainder.
LEMMA DivMod ==
  ASSUME NEW a \in Nat, NEW n \in Nat \ {0}
  PROVE  /\ a \div n \in Nat /\ a % n \in Nat /\ a % n < n
         /\ a = n * (a \div n) + (a % n)
OBVIOUS

\* The quotient and the remainder are unique.
LEMMA DivUnique ==
  ASSUME NEW n \in Nat \ {0}, NEW q \in Nat, NEW r \in Nat, r < n
  PROVE  (q * n + r) \div n = q /\ (q * n + r) % n = r
OBVIOUS

\* Multiplication is monotone.
LEMMA Monotone ==
  ASSUME NEW n \in Nat, NEW p \in Nat, NEW q \in Nat, p <= q
  PROVE  p * n <= q * n
<1>1. PICK d \in Nat : q = p + d
  OBVIOUS
<1>2. q * n = p * n + d * n /\ d * n \in Nat /\ p * n \in Nat
  BY <1>1
<1> QED BY <1>2

\* An entry of a directory lies within what the directory spans
\* (lemma_entry_base_from_index, ArchExec::entry_base).
LEMMA EntryInSpan ==
  ASSUME NEW l \in Layers, NEW b \in Nat, NEW i \in EntryIndices
  PROVE  /\ entry_base(l, b, i) \in Nat
         /\ b <= entry_base(l, b, i)
         /\ entry_base(l, b, i) + EntrySize[l] <= b + NumEntries * EntrySize[l]
<1>1. i \in Nat /\ i + 1 <= NumEntries /\ NumEntries \in Nat /\ EntrySize[l] \in Nat
  BY SizeFacts DEF EntryIndices
<1>2. (i + 1) * EntrySize[l] <= NumEntries * EntrySize[l]
  BY <1>1, Monotone
<1>3. (i + 1) * EntrySize[l] = i * EntrySize[l] + EntrySize[l] /\ i * EntrySize[l] \in Nat
  BY <1>1
<1> QED BY <1>1, <1>2, <1>3 DEF entry_base

\* index_for_vaddr of an address within a directory is an entry of it, and the
\* one that holds the address (lemma_index_from_base_and_addr).
LEMMA IndexInSpan ==
  ASSUME NEW l \in Layers, NEW b \in Nat, NEW v \in Nat,
         between(v, b, b + NumEntries * EntrySize[l])
  PROVE  LET i == index_for_vaddr(l, b, v)
         IN  /\ i \in EntryIndices
             /\ between(v, entry_base(l, b, i), entry_base(l, b, i) + EntrySize[l])
<1> DEFINE i == index_for_vaddr(l, b, v)
           S == EntrySize[l]
           r == (v - b) % S
<1>1. S \in Nat \ {0} /\ NumEntries \in Nat \ {0} /\ v - b \in Nat
  BY SizeFacts DEF between
<1>2. i \in Nat /\ r \in Nat /\ r < S /\ v - b = S * i + r
  BY <1>1, DivMod DEF index_for_vaddr
<1>3. v - b < NumEntries * S
  BY <1>1 DEF between
<1> HIDE DEF i, S, r
<1>4. i < NumEntries
  <2> SUFFICES ASSUME NumEntries <= i PROVE FALSE
    BY <1>1, <1>2
  <2>1. NumEntries * S <= i * S
    BY <1>1, <1>2, Monotone
  <2> QED BY <2>1, <1>1, <1>2, <1>3
<1>5. v = b + i * S + r
  BY <1>1, <1>2
<1>6. i * S \in Nat
  BY <1>1, <1>2
<1>7. between(v, b + i * S, b + i * S + S)
  BY <1>1, <1>2, <1>5, <1>6 DEF between
<1> QED BY <1>1, <1>2, <1>4, <1>7 DEF EntryIndices, entry_base, i, S

\* The entry that holds an address is the one index_for_vaddr names.
LEMMA IndexOfEntry ==
  ASSUME NEW l \in Layers, NEW b \in Nat, NEW v \in Nat, NEW i \in EntryIndices,
         between(v, entry_base(l, b, i), entry_base(l, b, i) + EntrySize[l])
  PROVE  index_for_vaddr(l, b, v) = i
<1> DEFINE S == EntrySize[l]
           r == v - b - i * S
<1>1. S \in Nat \ {0} /\ i \in Nat
  BY SizeFacts DEF EntryIndices
<1>2. r \in Nat /\ r < S /\ v - b = i * S + r
  BY <1>1 DEF between, entry_base
<1>3. (i * S + r) \div S = i
  BY <1>1, <1>2, DivUnique
<1> QED BY <1>2, <1>3 DEF index_for_vaddr

\* aligned speaks of the multiples of a size.
LEMMA AlignedIsMultiple ==
  ASSUME NEW a \in Nat, NEW n \in Nat \ {0}
  PROVE  aligned(a, n) <=> \E k \in Nat : a = k * n
<1>1. ASSUME aligned(a, n) PROVE \E k \in Nat : a = k * n
  <2>1. a = n * (a \div n) + 0 /\ a \div n \in Nat
    BY <1>1, DivMod DEF aligned
  <2> DEFINE k == a \div n
  <2> HIDE DEF k
  <2>2. k \in Nat /\ a = k * n
    BY <2>1 DEF k
  <2> QED BY <2>2
<1>2. ASSUME NEW k \in Nat, a = k * n PROVE aligned(a, n)
  <2>1. (k * n + 0) % n = 0
    BY DivUnique
  <2>2. k * n + 0 = a
    BY <1>2
  <2> QED BY <2>1, <2>2 DEF aligned
<1> QED BY <1>1, <1>2

\* The entries of an aligned directory are aligned to their size.
LEMMA EntryAligned ==
  ASSUME NEW l \in Layers, NEW b \in Nat, NEW i \in EntryIndices,
         aligned(b, NumEntries * EntrySize[l])
  PROVE  aligned(entry_base(l, b, i), EntrySize[l])
<1> DEFINE S == EntrySize[l]
<1>1. S \in Nat \ {0} /\ NumEntries \in Nat \ {0} /\ i \in Nat
  BY SizeFacts DEF EntryIndices
<1>2. NumEntries * S \in Nat \ {0}
  BY <1>1
<1>3. PICK k \in Nat : b = k * (NumEntries * S)
  BY <1>2, AlignedIsMultiple
<1> HIDE DEF S
<1>4. b + i * S = (k * NumEntries + i) * S /\ k * NumEntries + i \in Nat /\ b + i * S \in Nat
  BY <1>1, <1>3
<1>5. aligned(b + i * S, S)
  BY <1>1, <1>4, AlignedIsMultiple
<1> QED BY <1>5 DEF entry_base, S

\* An aligned address within an aligned entry of that size is its base.
LEMMA AlignedInEntry ==
  ASSUME NEW v \in Nat, NEW b \in Nat, NEW n \in Nat \ {0},
         aligned(v, n), aligned(b, n), between(v, b, b + n)
  PROVE  v = b
<1>1. PICK k \in Nat : v = k * n
  BY AlignedIsMultiple
<1>2. PICK j \in Nat : b = j * n
  BY AlignedIsMultiple
<1>3. v = j * n + (v - b) /\ v - b \in Nat /\ v - b < n
  BY <1>2 DEF between
<1>4. v % n = v - b
  BY <1>3, DivUnique
<1> QED BY <1>4 DEF aligned, between
=============================================================================
