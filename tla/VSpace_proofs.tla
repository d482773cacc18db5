---------------------------- MODULE VSpace_proofs ----------------------------
(***************************************************************************)
(* Maps of regions in the NrOS page table, for every number of entries of  *)
(* its directories, any calls and any order of them.                       *)
(***************************************************************************)
EXTENDS VSpace, TLAPS

\* The facts about numbers that PageTableContents_proofs shows.
Numbers == INSTANCE PageTableContents_proofs

(***************************************************************************)
(* Slots.                                                                  *)
(***************************************************************************)

\* The sizes of the four layers.
LEMMA FourLayers ==
  /\ Layers = {0, 1, 2, 3} /\ LastLayer = 3
  /\ NumEntries \in Nat \ {0}
  /\ \A l \in Layers : l \in Nat /\ EntrySize[l] \in Nat \ {0}
  /\ EntrySize[0] = NumEntries * EntrySize[1]
  /\ EntrySize[1] = NumEntries * EntrySize[2]
  /\ EntrySize[2] = NumEntries * EntrySize[3]
  /\ UpperVaddr = NumEntries * EntrySize[0] /\ UpperVaddr \in Nat
<1>1. LastLayer = 3 /\ Layers = 0 .. 3
  BY VSpaceAssumption DEF Layers
<1>2. Layers = {0, 1, 2, 3}
  BY <1>1
<1>3. NumEntries \in Nat \ {0} /\ \A l \in Layers : EntrySize[l] \in Nat \ {0}
  BY ArchInv
<1>4. \A l \in 0 .. 2 : EntrySize[l] = EntrySize[l + 1] * NumEntries
  BY <1>1, ArchInv
<1>5. /\ EntrySize[0] = EntrySize[1] * NumEntries
      /\ EntrySize[1] = EntrySize[2] * NumEntries
      /\ EntrySize[2] = EntrySize[3] * NumEntries
  BY <1>4
<1>6. EntrySize[0] \in Nat /\ EntrySize[1] \in Nat /\ EntrySize[2] \in Nat /\ EntrySize[3] \in Nat
  BY <1>2, <1>3
<1>7. UpperVaddr = NumEntries * EntrySize[0] /\ UpperVaddr \in Nat
  BY <1>3, <1>6 DEF UpperVaddr, entry_base
<1> QED BY <1>1, <1>2, <1>3, <1>5, <1>6, <1>7

\* An entry of a layer is a whole number of entries of every layer below.
LEMMA SizesNest ==
  ASSUME NEW k \in Layers, NEW l \in Layers, k <= l
  PROVE  \E c \in Nat \ {0} : EntrySize[k] = c * EntrySize[l]
<1> DEFINE N == NumEntries
           S3 == EntrySize[3]
<1>1. N \in Nat \ {0} /\ S3 \in Nat \ {0}
  BY FourLayers
<1>2. EntrySize[2] = N * S3 /\ EntrySize[1] = N * (N * S3) /\ EntrySize[0] = N * (N * (N * S3))
  BY FourLayers
<1>3. N * N \in Nat \ {0} /\ N * N * N \in Nat \ {0}
  BY <1>1
<1>4. /\ EntrySize[1] = (N * N) * S3 /\ EntrySize[0] = (N * N * N) * S3
      /\ EntrySize[1] = N * EntrySize[2] /\ EntrySize[0] = (N * N) * EntrySize[2]
      /\ EntrySize[0] = N * EntrySize[1]
  BY <1>1, <1>2, <1>3
<1>5. \A j \in Layers : EntrySize[j] = 1 * EntrySize[j]
  BY FourLayers
<1> HIDE DEF N, S3
<1>6. CASE k = l
  BY <1>5, <1>6
<1>7. CASE k # l
  <2>1. \/ k = 0 /\ l \in {1, 2, 3}
        \/ k = 1 /\ l \in {2, 3}
        \/ k = 2 /\ l = 3
    <3>1. k \in {0, 1, 2, 3} /\ l \in {0, 1, 2, 3}
      BY FourLayers
    <3> QED BY <3>1, <1>7
  <2> QED BY <2>1, <1>1, <1>2, <1>3, <1>4 DEF S3
<1> QED BY <1>6, <1>7

\* Rounding down to a multiple of S.
LEMMA RoundDown ==
  ASSUME NEW v \in Nat, NEW S \in Nat \ {0}
  PROVE  /\ v - (v % S) = S * (v \div S)
         /\ v - (v % S) \in Nat
         /\ v - (v % S) <= v /\ v < v - (v % S) + S
         /\ aligned(v - (v % S), S)
<1>1. v \div S \in Nat /\ v % S \in Nat /\ v % S < S /\ v = S * (v \div S) + (v % S)
  BY Numbers!DivMod
<1> DEFINE q == v \div S
           r == v % S
<1> HIDE DEF q, r
<1>2. q \in Nat /\ r \in Nat /\ r < S /\ v = S * q + r
  BY <1>1 DEF q, r
<1>3. v - r = S * q /\ S * q \in Nat
  BY <1>2
<1>4. (q * S + 0) % S = 0
  BY <1>2, Numbers!DivUnique
<1>5. v - r <= v /\ v < v - r + S
  BY <1>2, <1>3
<1>6. (v - r) % S = 0
  BY <1>2, <1>3, <1>4
<1> QED BY <1>3, <1>5, <1>6 DEF q, r, aligned

\* A multiple of S and the numbers it is the rounding of.
LEMMA RoundsTo ==
  ASSUME NEW v \in Nat, NEW S \in Nat \ {0}, NEW b \in Nat, aligned(b, S),
         b <= v, v < b + S
  PROVE  v - (v % S) = b
<1>1. b = S * (b \div S) /\ b \div S \in Nat
  BY Numbers!DivMod DEF aligned
<1> DEFINE q == b \div S
           r == v - b
<1> HIDE DEF q, r
<1>2. q \in Nat /\ b = S * q /\ r \in Nat /\ r < S /\ v = q * S + r
  BY <1>1 DEF q, r
<1>3. v % S = r
  BY <1>2, Numbers!DivUnique
<1> QED BY <1>2, <1>3 DEF r

\* What is aligned is a multiple.
LEMMA Multiple ==
  ASSUME NEW a \in Nat, NEW S \in Nat \ {0}, aligned(a, S)
  PROVE  \E q \in Nat : a = q * S
<1>1. a = S * (a \div S) /\ a \div S \in Nat
  BY Numbers!DivMod DEF aligned
<1> DEFINE q == a \div S
<1> HIDE DEF q
<1>2. q \in Nat /\ a = S * q
  BY <1>1 DEF q
<1>3. a = q * S
  BY <1>2
<1> QED BY <1>2, <1>3

\* Rounding to a fine grid first does not change the rounding to a coarse one.
LEMMA RoundTwice ==
  ASSUME NEW v \in Nat, NEW S \in Nat \ {0}, NEW c \in Nat \ {0}, NEW b \in Nat,
         b = v - (v % S)
  PROVE  b - (b % (c * S)) = v - (v % (c * S))
<1> DEFINE T == c * S
           a == v - (v % T)
<1>1. T \in Nat \ {0}
  OBVIOUS
<1> HIDE DEF T
<1>2. a \in Nat /\ a <= v /\ v < a + T /\ aligned(a, T)
  BY <1>1, RoundDown
<1>3. b <= v /\ aligned(b, S) /\ v < b + S
  BY RoundDown
<1>4. PICK q \in Nat : b = q * S
  BY <1>3, Multiple
<1> HIDE DEF a
<1>5. PICK p \in Nat : a = p * T
  BY <1>1, <1>2, Multiple
<1>6. a = (p * c) * S /\ p * c \in Nat
  BY <1>5 DEF T
<1>7. a <= b
  <2>1. CASE p * c <= q
    BY <2>1, <1>4, <1>6, Numbers!Monotone
  <2>2. CASE q + 1 <= p * c
    <3>1. (q + 1) * S <= a
      BY <2>2, <1>6, Numbers!Monotone
    <3>2. (q + 1) * S = b + S
      BY <1>4
    <3> QED BY <3>1, <3>2, <1>2, <1>3
  <2> QED BY <2>1, <2>2, <1>4, <1>6
<1>8. b < a + T
  BY <1>2, <1>3, <1>1
<1>9. b - (b % T) = a
  BY <1>1, <1>2, <1>7, <1>8, RoundsTo
<1> QED BY <1>9 DEF a, T

\* The members of Slots.
LEMMA SlotsAre ==
  ASSUME NEW s
  PROVE  s \in Slots <=> \E l \in Layers : \E b \in 0 .. (UpperVaddr - 1) :
                            aligned(b, EntrySize[l]) /\ s = <<l, b>>
BY DEF Slots

\* The slot of an address.
LEMMA SlotOf ==
  ASSUME NEW v \in 0 .. (UpperVaddr - 1), NEW l \in Layers
  PROVE  /\ slot(l, v) \in Slots
         /\ slot(l, v)[1] = l
         /\ slot(l, v)[2] \in 0 .. (UpperVaddr - 1)
         /\ slot(l, v)[2] <= v /\ v < slot(l, v)[2] + EntrySize[l]
<1>1. v \in Nat /\ UpperVaddr \in Nat /\ EntrySize[l] \in Nat \ {0}
  BY FourLayers
<1> DEFINE b == v - (v % EntrySize[l])
<1>2. /\ b \in Nat /\ b <= v /\ v < b + EntrySize[l] /\ aligned(b, EntrySize[l])
  BY <1>1, RoundDown
<1> HIDE DEF b
<1>3. b \in 0 .. (UpperVaddr - 1)
  BY <1>1, <1>2
<1>4. slot(l, v) = <<l, b>>
  BY DEF slot, b
<1> QED BY <1>2, <1>3, <1>4, SlotsAre

\* The words of a slot.
LEMMA WordsOfSlot ==
  ASSUME NEW v \in Nat, NEW l \in Layers, NEW b \in Nat,
         aligned(b, EntrySize[l]), b <= v, v < b + EntrySize[l]
  PROVE  slot(l, v) = <<l, b>>
BY FourLayers, RoundsTo DEF slot

\* Words in one slot are in one slot of every layer above.
LEMMA SameSlotAbove ==
  ASSUME NEW v \in Nat, NEW w \in Nat, NEW l \in Layers, NEW k \in Layers, k <= l,
         slot(l, v) = slot(l, w)
  PROVE  slot(k, v) = slot(k, w)
<1>1. PICK c \in Nat \ {0} : EntrySize[k] = c * EntrySize[l]
  BY SizesNest
<1>2. EntrySize[l] \in Nat \ {0}
  BY FourLayers
<1> DEFINE b == v - (v % EntrySize[l])
<1>3. b = w - (w % EntrySize[l])
  BY DEF slot
<1>4. b \in Nat
  BY <1>2, RoundDown
<1>5. b - (b % (c * EntrySize[l])) = v - (v % (c * EntrySize[l]))
  BY <1>2, <1>4, RoundTwice
<1>6. b - (b % (c * EntrySize[l])) = w - (w % (c * EntrySize[l]))
  <2> HIDE DEF b
  <2> QED BY <1>2, <1>3, <1>4, RoundTwice
<1> QED BY <1>1, <1>5, <1>6 DEF slot

(***************************************************************************)
(* Walks, and what a table maps, as operators of its entries e, so that    *)
(* they can be said of the entries before and after a step.                *)
(***************************************************************************)

\* The entries on the way of vaddr down to layer l are tables.
TablesDown(e, vaddr, l) == \A k \in 0 .. (l - 1) : is_table(e[slot(k, vaddr)])

\* The walk for vaddr ends in layer l.
EndsIn(e, vaddr, l) == TablesDown(e, vaddr, l) /\ ~is_table(e[slot(l, vaddr)])

\* The walk for vaddr finds a page, in layer l.
PageAt(e, vaddr, l) == EndsIn(e, vaddr, l) /\ is_page(e[slot(l, vaddr)])

Translation(e, s, vaddr) == [paddr |-> e[s].paddr + (vaddr - s[2]), flags |-> e[s].flags]

\* Every walk ends, for entries with their types.
TableOK(e) ==
  /\ e \in [Slots -> Entries]
  /\ \A s \in Slots : is_table(e[s]) => s[1] < LastLayer

LastSlotOf(e, vaddr) ==
  slot(CHOOSE l \in Layers : /\ ~is_table(e[slot(l, vaddr)])
                             /\ \A k \in 0 .. (l - 1) : is_table(e[slot(k, vaddr)]),
       vaddr)

ResolveIn(e, vaddr) ==
  IF is_page(e[LastSlotOf(e, vaddr)])
  THEN {[paddr |-> e[LastSlotOf(e, vaddr)].paddr + (vaddr - LastSlotOf(e, vaddr)[2]),
         flags |-> e[LastSlotOf(e, vaddr)].flags]}
  ELSE {}

MappingOf(e) ==
  [v \in {w \in 0 .. (UpperVaddr - 1) : ResolveIn(e, w) # {}} |->
     CHOOSE t \in ResolveIn(e, v) : TRUE]

\* mapping is what the entries map, before a step and after it.
LEMMA MappingIs == mapping = MappingOf(entry) /\ mapping' = MappingOf(entry')
BY DEF mapping, resolve_addr, last_slot, MappingOf, ResolveIn, LastSlotOf

\* A walk ends in one layer.
LEMMA WalkEndsOnce ==
  ASSUME NEW e, NEW v, NEW l \in Layers, NEW m \in Layers, EndsIn(e, v, l), EndsIn(e, v, m)
  PROVE  l = m
<1>1. l \in Nat /\ m \in Nat
  BY FourLayers
<1>2. ~(l < m) /\ ~(m < l)
  BY <1>1 DEF EndsIn, TablesDown
<1> QED BY <1>1, <1>2

\* A walk ends.
LEMMA WalkEnds ==
  ASSUME NEW e, TableOK(e), NEW v \in 0 .. (UpperVaddr - 1)
  PROVE  \E l \in Layers : EndsIn(e, v, l)
<1> DEFINE T(k) == is_table(e[slot(k, v)])
<1>1. ~T(3)
  <2>1. 3 \in Layers /\ LastLayer = 3
    BY FourLayers
  <2>2. slot(3, v) \in Slots /\ slot(3, v)[1] = 3
    BY <2>1, SlotOf
  <2> QED BY <2>1, <2>2 DEF TableOK
<1>2. Layers = {0, 1, 2, 3}
  BY FourLayers
<1> DEFINE Down(l) == \A k \in 0 .. (l - 1) : T(k)
<1> HIDE DEF T
<1>3. Down(0) /\ (T(0) => Down(1)) /\ (T(0) /\ T(1) => Down(2))
      /\ (T(0) /\ T(1) /\ T(2) => Down(3))
  OBVIOUS
<1>4. \E l \in Layers : Down(l) /\ ~T(l)
  <2> HIDE DEF Down
  <2> QED BY <1>1, <1>2, <1>3
<1> QED BY <1>4 DEF T, EndsIn, TablesDown

\* The operator the code's loop stands for finds that layer.
LEMMA LastSlotIs ==
  ASSUME NEW e, NEW v, NEW l \in Layers, EndsIn(e, v, l)
  PROVE  LastSlotOf(e, v) = slot(l, v)
<1> DEFINE P(m) == /\ ~is_table(e[slot(m, v)])
                   /\ \A k \in 0 .. (m - 1) : is_table(e[slot(k, v)])
<1>1. \A m \in Layers : P(m) <=> EndsIn(e, v, m)
  BY DEF EndsIn, TablesDown
<1>2. P(l) /\ \A m \in Layers : P(m) => m = l
  BY <1>1, WalkEndsOnce
<1> HIDE DEF P
<1>3. (CHOOSE m \in Layers : P(m)) = l
  BY <1>2
<1> QED BY <1>3 DEF P, LastSlotOf

\* What the table maps at an address whose walk ends in layer l.
LEMMA MapsAt ==
  ASSUME NEW e, NEW v \in 0 .. (UpperVaddr - 1), NEW l \in Layers, EndsIn(e, v, l)
  PROVE  /\ v \in DOMAIN MappingOf(e) <=> is_page(e[slot(l, v)])
         /\ is_page(e[slot(l, v)]) => MappingOf(e)[v] = Translation(e, slot(l, v), v)
<1>1. LastSlotOf(e, v) = slot(l, v)
  BY LastSlotIs
<1>2. ResolveIn(e, v) = IF is_page(e[slot(l, v)]) THEN {Translation(e, slot(l, v), v)} ELSE {}
  BY <1>1 DEF ResolveIn, Translation
<1>3. v \in DOMAIN MappingOf(e) <=> ResolveIn(e, v) # {}
  BY DEF MappingOf
<1>4. v \in DOMAIN MappingOf(e) => MappingOf(e)[v] = CHOOSE t \in ResolveIn(e, v) : TRUE
  BY DEF MappingOf
<1>5. ASSUME is_page(e[slot(l, v)]) PROVE MappingOf(e)[v] = Translation(e, slot(l, v), v)
  <2>1. ResolveIn(e, v) = {Translation(e, slot(l, v), v)}
    BY <1>2, <1>5
  <2>2. (CHOOSE t \in ResolveIn(e, v) : TRUE) \in ResolveIn(e, v)
    BY <2>1
  <2> QED BY <1>3, <1>4, <2>1, <2>2
<1> QED BY <1>2, <1>3, <1>5

\* Two tables that map each address alike are the same map.
LEMMA SameMapping ==
  ASSUME NEW e, NEW f,
         \A v \in 0 .. (UpperVaddr - 1) :
           /\ v \in DOMAIN MappingOf(f) <=> v \in DOMAIN MappingOf(e)
           /\ v \in DOMAIN MappingOf(e) => MappingOf(f)[v] = MappingOf(e)[v]
  PROVE  MappingOf(f) = MappingOf(e)
<1>1. /\ DOMAIN MappingOf(e) \subseteq 0 .. (UpperVaddr - 1)
      /\ DOMAIN MappingOf(f) \subseteq 0 .. (UpperVaddr - 1)
      /\ MappingOf(e) = [v \in DOMAIN MappingOf(e) |-> MappingOf(e)[v]]
      /\ MappingOf(f) = [v \in DOMAIN MappingOf(f) |-> MappingOf(f)[v]]
  BY DEF MappingOf
<1> DEFINE m == MappingOf(e)
           n == MappingOf(f)
<1> HIDE DEF m, n
<1>2. DOMAIN m = DOMAIN n /\ \A v \in DOMAIN m : m[v] = n[v]
  BY <1>1 DEF m, n
<1>3. m = [v \in DOMAIN m |-> m[v]] /\ n = [v \in DOMAIN n |-> n[v]]
  BY <1>1 DEF m, n
<1>4. m = n
  BY <1>2, <1>3
<1> QED BY <1>4 DEF m, n

(***************************************************************************)
(* The two kinds of writes: of a page entry, and of a new table.           *)
(***************************************************************************)

\* f is e with x in slot s, and maps what e maps but for the part of the address
\* space that s is for.
OnlyWritten(e, f, s, x) ==
  /\ f[s] = x
  /\ \A t \in Slots : is_table(f[t]) <=> is_table(e[t])
  /\ \A v \in 0 .. (UpperVaddr - 1) :
       IF slot(s[1], v) = s /\ TablesDown(e, v, s[1])
       THEN /\ v \in DOMAIN MappingOf(f) <=> is_page(x)
            /\ is_page(x) => MappingOf(f)[v] = Translation(f, s, v)
       ELSE /\ v \in DOMAIN MappingOf(f) <=> v \in DOMAIN MappingOf(e)
            /\ v \in DOMAIN MappingOf(e) => MappingOf(f)[v] = MappingOf(e)[v]

\* A write of an entry that is no table over one that is none changes what is
\* mapped in the slot's part of the address space, and nothing else.
LEMMA WriteSlot ==
  ASSUME NEW e, TableOK(e), NEW s \in Slots, NEW x \in Entries,
         ~is_table(e[s]), ~is_table(x), NEW f, f = [e EXCEPT ![s] = x]
  PROVE  TableOK(f) /\ OnlyWritten(e, f, s, x)
<1>1. /\ f \in [Slots -> Entries] /\ f[s] = x
      /\ \A t \in Slots : t # s => f[t] = e[t]
  BY DEF TableOK
<1>2. \A t \in Slots : is_table(f[t]) <=> is_table(e[t])
  BY <1>1
<1>3. TableOK(f)
  BY <1>1, <1>2 DEF TableOK
<1>4. s[1] \in Layers
  BY SlotsAre
<1>5. ASSUME NEW v \in 0 .. (UpperVaddr - 1), NEW l \in Layers
      PROVE  /\ EndsIn(f, v, l) <=> EndsIn(e, v, l)
             /\ TablesDown(f, v, l) <=> TablesDown(e, v, l)
  <2>1. \A k \in 0 .. l : k \in Layers
    BY FourLayers
  <2>2. \A k \in 0 .. l : is_table(f[slot(k, v)]) <=> is_table(e[slot(k, v)])
    BY <2>1, <1>2, SlotOf
  <2>3. l \in 0 .. l /\ \A k \in 0 .. (l - 1) : k \in 0 .. l
    BY FourLayers
  <2> QED BY <2>2, <2>3 DEF EndsIn, TablesDown
<1>6. ASSUME NEW v \in 0 .. (UpperVaddr - 1), slot(s[1], v) = s, TablesDown(e, v, s[1])
      PROVE  /\ v \in DOMAIN MappingOf(f) <=> is_page(x)
             /\ is_page(x) => MappingOf(f)[v] = Translation(f, s, v)
  <2>1. EndsIn(e, v, s[1])
    BY <1>6 DEF EndsIn
  <2>2. EndsIn(f, v, s[1])
    BY <1>4, <1>5, <2>1
  <2> QED BY <1>1, <1>4, <1>6, <2>2, MapsAt
<1>7. ASSUME NEW v \in 0 .. (UpperVaddr - 1), ~(slot(s[1], v) = s /\ TablesDown(e, v, s[1]))
      PROVE  /\ v \in DOMAIN MappingOf(f) <=> v \in DOMAIN MappingOf(e)
             /\ v \in DOMAIN MappingOf(e) => MappingOf(f)[v] = MappingOf(e)[v]
  <2>1. PICK l \in Layers : EndsIn(e, v, l)
    BY WalkEnds
  <2>2. EndsIn(f, v, l)
    BY <1>5, <2>1
  <2>3. slot(l, v) # s
    <3> SUFFICES ASSUME slot(l, v) = s PROVE FALSE
      OBVIOUS
    <3>1. s[1] = l
      BY SlotOf
    <3> QED BY <3>1, <1>7, <2>1 DEF EndsIn
  <2>4. f[slot(l, v)] = e[slot(l, v)]
    BY <1>1, <2>3, SlotOf
  <2>5. Translation(f, slot(l, v), v) = Translation(e, slot(l, v), v)
    BY <2>4 DEF Translation
  <2>6. v \in DOMAIN MappingOf(e) <=> is_page(e[slot(l, v)])
    BY <2>1, MapsAt
  <2>7. v \in DOMAIN MappingOf(f) <=> is_page(e[slot(l, v)])
    BY <2>2, <2>4, MapsAt
  <2>8. is_page(e[slot(l, v)]) => MappingOf(f)[v] = MappingOf(e)[v]
    BY <2>1, <2>2, <2>4, <2>5, MapsAt
  <2> QED BY <2>6, <2>7, <2>8
<1>8. TableOK(f) /\ (\A t \in Slots : is_table(f[t]) <=> is_table(e[t])) /\ f[s] = x
  BY <1>1, <1>2, <1>3
<1> QED BY <1>6, <1>7, <1>8 DEF OnlyWritten

\* The entries of a table are in the part of the address space it is for.
LEMMA SlotInSlot ==
  ASSUME NEW v \in 0 .. (UpperVaddr - 1), NEW l \in Layers, NEW k \in Layers, k <= l
  PROVE  slot(k, slot(l, v)[2]) = slot(k, v)
<1>1. v \in Nat /\ slot(l, v)[2] \in Nat /\ slot(l, v)[1] = l
  BY SlotOf, FourLayers
<1>2. /\ aligned(slot(l, v)[2], EntrySize[l])
      /\ slot(l, v)[2] <= slot(l, v)[2] /\ slot(l, v)[2] < slot(l, v)[2] + EntrySize[l]
  <2>1. EntrySize[l] \in Nat \ {0}
    BY FourLayers
  <2>2. aligned(v - (v % EntrySize[l]), EntrySize[l])
    BY <1>1, <2>1, RoundDown
  <2> QED BY <1>1, <2>1, <2>2 DEF slot
<1>3. slot(l, slot(l, v)[2]) = <<l, slot(l, v)[2]>>
  BY <1>1, <1>2, WordsOfSlot
<1>4. <<l, slot(l, v)[2]>> = slot(l, v)
  BY DEF slot
<1> QED BY <1>1, <1>3, <1>4, SameSlotAbove

\* A new table maps nothing, as what it replaces.
LEMMA NewTableKeeps ==
  ASSUME NEW e, TableOK(e), NEW s \in Slots, ~is_present(e[s]), s[1] < LastLayer, NEW f,
         f = [t \in Slots |->
                IF t = s THEN Table
                ELSE IF t[1] = s[1] + 1 /\ slot(s[1], t[2]) = s THEN NotPresent
                ELSE e[t]]
  PROVE  /\ TableOK(f)
         /\ f[s] = Table
         /\ \A t \in Slots : t[1] < s[1] => f[t] = e[t]
         /\ MappingOf(f) = MappingOf(e)
<1>1. s[1] \in Layers /\ s[1] + 1 \in Layers /\ s[1] \in Nat
  BY SlotsAre, FourLayers
<1>2. f[s] = Table /\ is_table(Table) /\ ~is_table(NotPresent) /\ ~is_page(NotPresent)
      /\ ~is_page(Table)
  BY DEF is_table, is_page, Table, NotPresent
<1>3. \A t \in Slots : t # s /\ ~(t[1] = s[1] + 1 /\ slot(s[1], t[2]) = s) => f[t] = e[t]
  OBVIOUS
<1>4. \A t \in Slots : t # s /\ t[1] = s[1] + 1 /\ slot(s[1], t[2]) = s => f[t] = NotPresent
  OBVIOUS
<1>5. \A t \in Slots : t[1] < s[1] => f[t] = e[t]
  <2> SUFFICES ASSUME NEW t \in Slots, t[1] < s[1] PROVE f[t] = e[t]
    OBVIOUS
  <2>1. t[1] \in Nat
    BY SlotsAre, FourLayers
  <2> QED BY <1>1, <1>3, <2>1
<1>6. TableOK(f)
  <2>1. Table \in Entries /\ NotPresent \in Entries
    BY DEF Entries
  <2>2. f \in [Slots -> Entries]
    BY <2>1 DEF TableOK
  <2>3. ASSUME NEW t \in Slots, is_table(f[t]) PROVE t[1] < LastLayer
    BY <2>3, <1>2, <1>3, <1>4 DEF TableOK
  <2> QED BY <2>2, <2>3 DEF TableOK
<1>7. ASSUME NEW v \in 0 .. (UpperVaddr - 1)
      PROVE  /\ v \in DOMAIN MappingOf(f) <=> v \in DOMAIN MappingOf(e)
             /\ v \in DOMAIN MappingOf(e) => MappingOf(f)[v] = MappingOf(e)[v]
  <2>1. PICK l \in Layers : EndsIn(e, v, l)
    BY WalkEnds
  <2>2. l \in Nat /\ \A k \in 0 .. l : k \in Layers /\ k \in Nat
    BY FourLayers
  <2>3. \A k \in Layers : slot(k, v) \in Slots /\ slot(k, v)[1] = k
    BY SlotOf
  <2>4. CASE \A k \in 0 .. l : f[slot(k, v)] = e[slot(k, v)]
    <3>1. l \in 0 .. l /\ \A k \in 0 .. (l - 1) : k \in 0 .. l
      BY <2>2
    <3>2. EndsIn(f, v, l)
      BY <2>1, <2>4, <3>1 DEF EndsIn, TablesDown
    <3>3. Translation(f, slot(l, v), v) = Translation(e, slot(l, v), v)
      BY <2>4, <3>1 DEF Translation
    <3>4. f[slot(l, v)] = e[slot(l, v)]
      BY <2>4, <3>1
    <3>5. /\ v \in DOMAIN MappingOf(e) <=> is_page(e[slot(l, v)])
          /\ is_page(e[slot(l, v)]) => MappingOf(e)[v] = Translation(e, slot(l, v), v)
      BY <2>1, MapsAt
    <3>6. /\ v \in DOMAIN MappingOf(f) <=> is_page(f[slot(l, v)])
          /\ is_page(f[slot(l, v)]) => MappingOf(f)[v] = Translation(f, slot(l, v), v)
      BY <3>2, MapsAt
    <3> QED BY <3>3, <3>4, <3>5, <3>6
  <2>5. CASE slot(s[1], v) # s
    <3>1. ASSUME NEW k \in 0 .. l PROVE f[slot(k, v)] = e[slot(k, v)]
      <4>1. k \in Layers /\ slot(k, v) \in Slots /\ slot(k, v)[1] = k /\ slot(k, v) # s
        BY <2>2, <2>3, <2>5
      <4>2. ASSUME k = s[1] + 1 PROVE slot(s[1], slot(k, v)[2]) # s
        BY <4>1, <4>2, <1>1, <2>5, SlotInSlot
      <4> QED BY <4>1, <4>2, <1>3
    <3> QED BY <3>1, <2>4
  <2>6. CASE slot(s[1], v) = s
    <3>1. l <= s[1]
      <4> SUFFICES ASSUME s[1] < l PROVE FALSE
        BY <1>1, <2>2
      <4>1. is_table(e[s])
        BY <1>1, <2>1, <2>2, <2>6 DEF EndsIn, TablesDown
      <4> QED BY <4>1, <1>2 DEF is_present
    <3>2. CASE l < s[1]
      <4>1. \A k \in 0 .. l : k \in Layers /\ k < s[1]
        BY <3>2, <2>2, <1>1
      <4> QED BY <4>1, <1>5, <2>3, <2>4
    <3>3. CASE l = s[1]
      <4>1. \A k \in 0 .. (l - 1) : is_table(f[slot(k, v)])
        <5>1. \A k \in 0 .. (l - 1) : k \in Layers /\ k < s[1]
          BY <3>3, <2>2
        <5> QED BY <5>1, <1>5, <2>1, <2>3 DEF EndsIn, TablesDown
      <4>2. TablesDown(f, v, l + 1)
        <5>1. ASSUME NEW k \in 0 .. ((l + 1) - 1) PROVE is_table(f[slot(k, v)])
          <6>1. k \in 0 .. (l - 1) \/ k = l
            BY <2>2
          <6>2. slot(l, v) = s
            BY <2>6, <3>3
          <6> QED BY <6>1, <6>2, <4>1, <1>2
        <5> QED BY <5>1 DEF TablesDown
      <4>3. f[slot(l + 1, v)] = NotPresent
        <5>1. slot(l + 1, v) \in Slots /\ slot(l + 1, v)[1] = s[1] + 1 /\ slot(l + 1, v) # s
          BY <1>1, <2>3, <3>3
        <5>2. slot(s[1], slot(l + 1, v)[2]) = s
          BY <1>1, <2>6, <3>3, SlotInSlot
        <5> QED BY <5>1, <5>2, <1>4
      <4>4. EndsIn(f, v, l + 1) /\ l + 1 \in Layers
        BY <4>2, <4>3, <1>1, <1>2, <3>3 DEF EndsIn
      <4>5. v \notin DOMAIN MappingOf(f)
        BY <4>3, <4>4, <1>2, MapsAt
      <4>6. v \notin DOMAIN MappingOf(e)
        <5>1. e[slot(l, v)] = NotPresent
          BY <2>6, <3>3 DEF is_present
        <5> QED BY <5>1, <1>2, <2>1, MapsAt
      <4> QED BY <4>5, <4>6
    <3> QED BY <3>1, <3>2, <3>3, <1>1, <2>2
  <2> QED BY <2>5, <2>6
<1>8. MappingOf(f) = MappingOf(e)
  BY <1>7, SameMapping
<1> QED BY <1>2, <1>5, <1>6, <1>8

(***************************************************************************)
(* The invariant.                                                          *)
(***************************************************************************)

\* The part of the invariant that speaks of the entries alone.
LEMMA InvTable == VSpaceInv => TableOK(entry)
BY DEF VSpaceInv, TypeOK, WalksEnd, TableOK

\* Sums of multiples are multiples.
LEMMA AlignedSum ==
  ASSUME NEW a \in Nat, NEW b \in Nat, NEW S \in Nat \ {0}, aligned(a, S), aligned(b, S)
  PROVE  aligned(a + b, S)
<1>1. PICK p \in Nat : a = p * S
  BY Multiple
<1>2. PICK q \in Nat : b = q * S
  BY Multiple
<1> DEFINE r == p + q
<1>3. a + b = r * S + 0 /\ r \in Nat
  BY <1>1, <1>2
<1> HIDE DEF r
<1>4. (r * S + 0) % S = 0
  <2>1. S \in Nat \ {0} /\ r \in Nat /\ 0 \in Nat /\ 0 < S
    BY <1>3
  <2> QED BY ONLY <2>1, Numbers!DivUnique
<1>5. (a + b) % S = 0
  BY <1>3, <1>4
<1> QED BY <1>5 DEF aligned

\* What is aligned to a layer is aligned to those below.
LEMMA AlignedBelow ==
  ASSUME NEW a \in Nat, NEW k \in Layers, NEW l \in Layers, k <= l, aligned(a, EntrySize[k])
  PROVE  aligned(a, EntrySize[l])
<1> DEFINE S == EntrySize[l]
<1>1. S \in Nat \ {0} /\ EntrySize[k] \in Nat \ {0}
  BY FourLayers
<1>2. PICK c \in Nat \ {0} : EntrySize[k] = c * S
  BY SizesNest
<1>3. PICK q \in Nat : a = q * EntrySize[k]
  BY <1>1, Multiple
<1> HIDE DEF S
<1> DEFINE r == q * c
<1>4. a = r * S + 0 /\ r \in Nat
  BY <1>1, <1>2, <1>3
<1> HIDE DEF r
<1>5. a % S = 0
  BY <1>1, <1>4, Numbers!DivUnique
<1> QED BY <1>5 DEF aligned, S

\* The condition of the loops keeps the next page in the table of the first.
LEMMA SameTable ==
  ASSUME NEW l \in Layers, NEW a \in Nat, NEW m \in Nat, NEW k \in Layers, k < l,
         aligned(a, EntrySize[l]), aligned(m, EntrySize[l]),
         index(l, a) + m \div EntrySize[l] < NumEntries
  PROVE  slot(k, a + m) = slot(k, a)
<1> DEFINE S == EntrySize[l]
           N == NumEntries
<1>1. S \in Nat \ {0} /\ N \in Nat \ {0} /\ l - 1 \in Layers /\ l # 0 /\ k <= l - 1
  BY FourLayers
<1>2. EntrySize[l - 1] = N * S
  <2>1. l = 1 \/ l = 2 \/ l = 3
    BY <1>1, FourLayers
  <2> QED BY <2>1, FourLayers
<1>3. PICK p \in Nat : a = p * S
  BY <1>1, Multiple
<1>4. PICK q \in Nat : m = q * S
  BY <1>1, Multiple
<1>5. index(l, a) + m \div S < N
  OBVIOUS
<1> HIDE DEF S, N
<1>6. a \div S = p /\ m \div S = q
  <2>1. a = p * S + 0 /\ m = q * S + 0
    BY <1>1, <1>3, <1>4
  <2> QED BY <1>1, <2>1, Numbers!DivUnique
<1>7. index(l, a) = p % N
  BY <1>6 DEF index, S, N
<1> DEFINE i == p % N
           j == p \div N
<1>8. i \in Nat /\ j \in Nat /\ i < N /\ p = N * j + i
  BY <1>1, Numbers!DivMod
<1>9. i + q < N
  BY <1>5, <1>6, <1>7
<1> HIDE DEF i, j
<1> DEFINE T == N * S
           b == j * T
<1>10. T \in Nat \ {0} /\ b \in Nat
  BY <1>1, <1>8
<1>11. a = b + i * S
  BY <1>1, <1>3, <1>8
<1>12. a + m = b + (i + q) * S
  BY <1>1, <1>4, <1>8, <1>11
<1>13. i * S \in Nat /\ i * S < T /\ (i + q) * S \in Nat /\ (i + q) * S < T
  <2>1. \A n \in Nat : n < N => n * S \in Nat /\ n * S < N * S
    <3>1. ASSUME NEW n \in Nat, n < N PROVE n * S \in Nat /\ n * S < N * S
      <4>1. (n + 1) * S <= N * S
        BY <3>1, <1>1, Numbers!Monotone
      <4>2. (n + 1) * S = n * S + S /\ n * S \in Nat
        BY <1>1
      <4>3. N * S \in Nat
        BY <1>1
      <4> HIDE DEF T
      <4> QED BY <4>1, <4>2, <4>3, <1>1
    <3> QED BY <3>1
  <2>2. i + q \in Nat
    BY <1>8
  <2> QED BY <2>1, <2>2, <1>8, <1>9
<1> DEFINE x == i * S
           y == (i + q) * S
<1>14. x \in Nat /\ y \in Nat /\ a = b + x /\ a + m = b + y /\ x < T /\ y < T
  BY <1>11, <1>12, <1>13
<1>15. aligned(b, T)
  <2>1. b = j * T + 0
    BY <1>10
  <2> HIDE DEF T, b
  <2> QED BY <1>8, <1>10, <2>1, Numbers!DivUnique DEF aligned
<1>16. T = EntrySize[l - 1]
  BY <1>2
<1> HIDE DEF T, b, x, y
<1>17. slot(l - 1, a) = <<l - 1, b>> /\ slot(l - 1, a + m) = <<l - 1, b>>
  BY <1>1, <1>10, <1>14, <1>15, <1>16, WordsOfSlot
<1> QED BY <1>1, <1>17, SameSlotAbove

\* The invariant of the empty tables.
LEMMA InitInv == Init => VSpaceInv
<1> SUFFICES ASSUME Init PROVE VSpaceInv
  OBVIOUS
<1>1. TypeOK
  <2>1. NotPresent \in Entries /\ 0 \in Layers
    BY FourLayers DEF Entries
  <2>2. "ReadUser" \in DOMAIN to_rights
    BY DEF to_rights
  <2> QED BY <2>1, <2>2 DEF Init, TypeOK, NoCall
<1>2. WalksEnd
  BY DEF Init, WalksEnd, is_table, NotPresent
<1> QED BY <1>1, <1>2 DEF Init, VSpaceInv, ArgsInStep, LoopInv, MapOnlyAdds, PrefixIsMapped

\* A step that leaves alone what is mapped, and how far the call has come.
LEMMA QuietStep ==
  ASSUME VSpaceInv, mapping' = mapping, pc # "idle",
         call' = call, before' = before, args'.vbase + mapped' = args.vbase + mapped
  PROVE  MapOnlyAdds' /\ PrefixIsMapped'
<1>1. MapOnlyAdds'
  BY DEF VSpaceInv, MapOnlyAdds, AsCalled, Region
<1>2. PrefixIsMapped'
  BY DEF VSpaceInv, PrefixIsMapped, AsCalled, Region
<1> QED BY <1>1, <1>2

\* The fields of the arguments.
LEMMA ArgsFacts ==
  ASSUME VSpaceInv, pc # "idle"
  PROVE  /\ args.vbase \in Nat /\ args.pbase \in Nat /\ args.psize \in Nat
         /\ args.rights \in DOMAIN to_rights
         /\ call.vbase \in Nat /\ call.pbase \in Nat /\ call.psize \in Nat
         /\ call.rights \in DOMAIN to_rights
         /\ call.vbase + call.psize <= UpperVaddr
         /\ args.vbase \in 0 .. (UpperVaddr - 1)
         /\ mapped \in Nat /\ layer \in Layers
<1>1. call \in MapCalls
  BY DEF VSpaceInv, ArgsInStep
<1>2. /\ args \in [vbase : Nat, pbase : Nat, psize : Nat, rights : DOMAIN to_rights]
      /\ call \in [vbase : Nat, pbase : Nat, psize : Nat, rights : DOMAIN to_rights]
      /\ call.vbase + call.psize <= UpperVaddr
  BY <1>1, VSpaceAssumption DEF VSpaceInv, TypeOK
<1>3. args.vbase < UpperVaddr /\ UpperVaddr \in Nat /\ mapped \in Nat /\ layer \in Layers
  BY FourLayers DEF VSpaceInv, ArgsInStep, TypeOK
<1> HIDE DEF to_rights
<1> QED BY <1>2, <1>3

\* A call begins.
LEMMA CallKeepsInv ==
  ASSUME VSpaceInv, NEW c \in MapCalls, map_generic(c)
  PROVE  VSpaceInv'
<1>1. entry' = entry /\ layer' = layer /\ mapped' = mapped /\ layer = 0 /\ mapped = 0
  BY DEF map_generic, VSpaceInv, LoopInv
<1>2. mapping' = mapping
  BY <1>1, MappingIs
<1>3. c \in [vbase : Nat, pbase : Nat, psize : Nat, rights : DOMAIN to_rights]
  BY VSpaceAssumption
<1>4. TypeOK' /\ WalksEnd'
  BY <1>1, <1>3 DEF map_generic, VSpaceInv, TypeOK, WalksEnd
<1>5. ArgsInStep'
  <2>1. /\ c.vbase < UpperVaddr /\ aligned(c.vbase, EntrySize[LastLayer])
        /\ c.vbase \in Nat /\ c.pbase \in Nat /\ c.psize \in Nat
    BY <1>3, VSpaceAssumption
  <2> QED BY <1>1, <2>1 DEF map_generic, ArgsInStep
<1>6. LoopInv'
  BY <1>1 DEF map_generic, LoopInv
<1>7. MapOnlyAdds'
  BY <1>2 DEF map_generic, MapOnlyAdds
<1>8. PrefixIsMapped'
  <2>1. \A v \in Region(c) : ~(v < c.vbase + 0)
    BY <1>3, FourLayers DEF Region, between
  <2> QED BY <1>1, <2>1 DEF map_generic, PrefixIsMapped, Region
<1> QED BY <1>4, <1>5, <1>6, <1>7, <1>8 DEF VSpaceInv

\* A call ends, for its caller.
LEMMA ReturnKeepsInv ==
  ASSUME VSpaceInv, Return
  PROVE  VSpaceInv'
<1>1. TypeOK' /\ WalksEnd'
  <2>1. 0 \in Layers
    BY FourLayers
  <2>2. "ReadUser" \in DOMAIN to_rights
    BY DEF to_rights
  <2> QED BY <2>1, <2>2 DEF Return, VSpaceInv, TypeOK, WalksEnd, NoCall
<1> QED BY <1>1 DEF Return, VSpaceInv, ArgsInStep, LoopInv, MapOnlyAdds, PrefixIsMapped

\* The entry that map_generic looks at.
LEMMA HereIs ==
  ASSUME VSpaceInv, pc \in {"walk", "pages"}
  PROVE  /\ here \in Slots /\ here[1] = layer
         /\ TablesDown(entry, args.vbase, layer)
BY ArgsFacts, SlotOf DEF here, VSpaceInv, LoopInv, TablesDown

\* The way down, one layer further.
LEMMA OneTableMore ==
  ASSUME NEW e, NEW v, NEW l \in Layers, TablesDown(e, v, l), is_table(e[slot(l, v)])
  PROVE  TablesDown(e, v, l + 1)
<1>1. ASSUME NEW k \in 0 .. ((l + 1) - 1) PROVE is_table(e[slot(k, v)])
  <2>1. k \in 0 .. (l - 1) \/ k = l
    BY FourLayers
  <2> QED BY <2>1 DEF TablesDown
<1> QED BY <1>1 DEF TablesDown

\* map_generic links a new table, which maps nothing.
LEMMA NewTableKeepsInv ==
  ASSUME VSpaceInv, NewTable
  PROVE  VSpaceInv'
<1>1. pc = "walk" /\ args' = args /\ mapped' = mapped /\ call' = call
      /\ before' = before /\ entry' = new_table(here)
      /\ ~is_present(entry[here]) /\ layer # LastLayer
  BY DEF NewTable, PagesHere
<1>2. here \in Slots /\ here[1] = layer /\ TablesDown(entry, args.vbase, layer)
  BY <1>1, HereIs
<1>3. layer \in Layers /\ layer + 1 \in Layers /\ layer < LastLayer
  BY <1>1, FourLayers DEF VSpaceInv, TypeOK
<1>4. TableOK(entry)
  BY InvTable
<1>5. /\ TableOK(entry')
      /\ entry'[here] = Table
      /\ \A t \in Slots : t[1] < layer => entry'[t] = entry[t]
      /\ MappingOf(entry') = MappingOf(entry)
  BY <1>1, <1>2, <1>3, <1>4, NewTableKeeps DEF new_table
<1>6. pc' = pc /\ layer' = layer + 1
  <2>1. is_present(entry'[here])
    BY <1>5 DEF is_present, Table, NotPresent
  <2> QED BY <2>1 DEF NewTable
<1>7. mapping' = mapping
  BY <1>5, MappingIs
<1>8. MapOnlyAdds' /\ PrefixIsMapped'
  BY <1>1, <1>6, <1>7, QuietStep
<1>9. TypeOK' /\ WalksEnd'
  BY <1>1, <1>3, <1>5, <1>6 DEF TableOK, VSpaceInv, TypeOK, WalksEnd
<1>10. ArgsInStep'
  BY <1>1, <1>6 DEF VSpaceInv, ArgsInStep
<1>11. TablesDown(entry', args.vbase, layer + 1)
  <2>1. ASSUME NEW k \in 0 .. (layer - 1) PROVE is_table(entry'[slot(k, args.vbase)])
    <3>1. k \in Layers /\ k < layer
      BY <1>3, FourLayers
    <3>2. slot(k, args.vbase) \in Slots /\ slot(k, args.vbase)[1] = k
      BY <1>1, <3>1, ArgsFacts, SlotOf
    <3> QED BY <1>2, <1>5, <3>1, <3>2 DEF TablesDown
  <2>2. is_table(entry'[slot(layer, args.vbase)])
    BY <1>5 DEF here, is_table, Table
  <2> QED BY <1>3, <2>1, <2>2, OneTableMore DEF TablesDown
<1>12. LoopInv'
  <2>1. mapped = 0
    BY <1>1 DEF VSpaceInv, LoopInv
  <2> QED BY <1>1, <1>6, <1>11, <2>1 DEF LoopInv, TablesDown
<1> QED BY <1>8, <1>9, <1>10, <1>12 DEF VSpaceInv

\* map_generic descends into a table, which is above the last layer.
LEMMA DescendKeepsInv ==
  ASSUME VSpaceInv, Descend
  PROVE  VSpaceInv'
<1>1. pc = "walk" /\ pc' = pc /\ args' = args /\ mapped' = mapped /\ call' = call
      /\ before' = before /\ layer' = layer + 1 /\ entry' = entry /\ is_table(entry[here])
  BY DEF Descend
<1>2. here \in Slots /\ here[1] = layer /\ TablesDown(entry, args.vbase, layer)
  BY <1>1, HereIs
<1>3. layer \in Layers /\ layer + 1 \in Layers
  BY <1>1, <1>2, FourLayers DEF VSpaceInv, TypeOK, WalksEnd
<1>4. MapOnlyAdds' /\ PrefixIsMapped'
  BY <1>1, MappingIs, QuietStep
<1>5. TablesDown(entry, args.vbase, layer + 1)
  BY <1>1, <1>2, <1>3, OneTableMore DEF here
<1>6. TypeOK' /\ WalksEnd' /\ ArgsInStep'
  BY <1>1, <1>3 DEF VSpaceInv, TypeOK, WalksEnd, ArgsInStep
<1>7. LoopInv'
  <2>1. mapped = 0
    BY <1>1 DEF VSpaceInv, LoopInv
  <2> QED BY <1>1, <1>5, <2>1 DEF LoopInv, TablesDown
<1> QED BY <1>4, <1>6, <1>7 DEF VSpaceInv

\* The steps that only decide how the call goes on.
LEMMA EndKeepsInv ==
  ASSUME VSpaceInv, PageInTheWay \/ BeginPages \/ EntryInTheWay \/ Done
  PROVE  VSpaceInv'
<1>1. pc \in {"walk", "pages"} /\ pc' \in {"pages", "ok", "err", "panic"}
      /\ UNCHANGED <<entry, args, layer, mapped, call, before>>
  BY DEF PageInTheWay, BeginPages, EntryInTheWay, Done, End
<1>2. MapOnlyAdds' /\ PrefixIsMapped'
  BY <1>1, MappingIs, QuietStep
<1>3. TypeOK' /\ WalksEnd' /\ ArgsInStep'
  BY <1>1 DEF VSpaceInv, TypeOK, WalksEnd, ArgsInStep
<1>4. ASSUME pc' = "pages"
      PROVE  /\ aligned(args.vbase, EntrySize[layer]) /\ aligned(mapped, EntrySize[layer])
             /\ TablesDown(entry, args.vbase, layer)
  <2>1. pc = "walk" /\ PagesHere
    BY <1>4 DEF PageInTheWay, BeginPages, EntryInTheWay, Done, End
  <2>2. mapped = 0 /\ layer \in Layers /\ EntrySize[layer] \in Nat \ {0}
    BY <2>1, FourLayers DEF VSpaceInv, LoopInv, TypeOK
  <2>3. aligned(mapped, EntrySize[layer])
    <3>1. 0 * EntrySize[layer] + 0 = 0
      BY <2>2
    <3> QED BY <2>2, <3>1, Numbers!DivUnique DEF aligned
  <2>4. aligned(args.vbase, EntrySize[layer])
    <3>1. CASE layer = LastLayer
      BY <2>1, <3>1 DEF VSpaceInv, ArgsInStep
    <3>2. CASE PageFits
      <4>1. args.vbase = args.vbase - (args.vbase % EntrySize[layer])
        BY <3>2 DEF PageFits, here, slot
      <4> QED BY <2>1, <2>2, <4>1, ArgsFacts, RoundDown
    <3> QED BY <2>1, <3>1, <3>2 DEF PagesHere
  <2> QED BY <2>1, <2>3, <2>4, HereIs
<1>5. ASSUME pc' = "ok" PROVE mapped = args.psize
  <2>1. mapped >= args.psize /\ pc = "pages"
    BY <1>5 DEF PageInTheWay, BeginPages, EntryInTheWay, Done, End
  <2>2. mapped <= args.psize
    BY <2>1 DEF VSpaceInv, ArgsInStep
  <2> QED BY <2>1, <2>2, ArgsFacts
<1>6. LoopInv'
  BY <1>1, <1>4, <1>5 DEF LoopInv, TablesDown
<1> QED BY <1>2, <1>3, <1>6 DEF VSpaceInv

\* map_generic goes on with the rest of the region: address, frame and length
\* advance alike.
LEMMA RecurseKeepsInv ==
  ASSUME VSpaceInv, Recurse
  PROVE  VSpaceInv'
<1>1. /\ pc = "pages" /\ pc' = "walk" /\ mapped < args.psize /\ layer' = 0 /\ mapped' = 0
      /\ entry' = entry /\ call' = call /\ before' = before
      /\ args' = [args EXCEPT !.vbase = @ + mapped, !.pbase = @ + mapped, !.psize = @ - mapped]
  BY DEF Recurse
<1>2. args \in [vbase : Nat, pbase : Nat, psize : Nat, rights : DOMAIN to_rights]
  BY DEF VSpaceInv, TypeOK
<1>3. /\ args'.vbase = args.vbase + mapped /\ args'.pbase = args.pbase + mapped
      /\ args'.psize = args.psize - mapped /\ args'.rights = args.rights
  BY <1>1, <1>2
<1>4. /\ args.vbase \in Nat /\ args.pbase \in Nat /\ args.psize \in Nat /\ mapped \in Nat
      /\ call.vbase \in Nat /\ call.pbase \in Nat /\ call.psize \in Nat
      /\ call.vbase + call.psize <= UpperVaddr /\ UpperVaddr \in Nat
      /\ layer \in Layers
  BY <1>1, ArgsFacts, FourLayers
<1>5. TypeOK' /\ WalksEnd'
  <2>1. args' \in [vbase : Nat, pbase : Nat, psize : Nat, rights : DOMAIN to_rights]
    <3>1. args.psize - mapped \in Nat /\ args.vbase + mapped \in Nat /\ args.pbase + mapped \in Nat
      BY <1>1, <1>4
    <3> QED BY <1>1, <1>2, <3>1
  <2>2. 0 \in Layers
    BY FourLayers
  <2> QED BY <1>1, <2>1, <2>2 DEF VSpaceInv, TypeOK, WalksEnd
<1>6. ArgsInStep'
  <2>1. /\ args.vbase >= call.vbase /\ args.vbase + args.psize = call.vbase + call.psize
        /\ args.pbase = call.pbase + (args.vbase - call.vbase)
        /\ args.rights = call.rights /\ call \in MapCalls
        /\ aligned(args.vbase, EntrySize[LastLayer])
    BY <1>1 DEF VSpaceInv, ArgsInStep
  <2>2. aligned(mapped, EntrySize[LastLayer])
    <3>1. aligned(mapped, EntrySize[layer])
      BY <1>1 DEF VSpaceInv, LoopInv
    <3>2. LastLayer \in Layers /\ layer <= LastLayer
      BY <1>4, FourLayers
    <3> QED BY <1>4, <3>1, <3>2, AlignedBelow
  <2>3. aligned(args.vbase + mapped, EntrySize[LastLayer])
    BY <1>4, <2>1, <2>2, AlignedSum, FourLayers
  <2>4. /\ args.vbase + mapped >= call.vbase
        /\ (args.vbase + mapped) + (args.psize - mapped) = call.vbase + call.psize
        /\ args.pbase + mapped = call.pbase + ((args.vbase + mapped) - call.vbase)
        /\ args.vbase + mapped < UpperVaddr
        /\ 0 <= args.psize - mapped
    BY <1>1, <1>4, <2>1
  <2> QED BY <1>1, <1>3, <2>1, <2>3, <2>4 DEF ArgsInStep
<1>7. LoopInv'
  BY <1>1 DEF LoopInv
<1>8. MapOnlyAdds' /\ PrefixIsMapped'
  BY <1>1, <1>3, <1>4, MappingIs, QuietStep
<1> QED BY <1>5, <1>6, <1>7, <1>8 DEF VSpaceInv

\* The next page of the loops: it lies in the region, and its entry in the
\* table that the walk has reached.
LEMMA NextPage ==
  ASSUME VSpaceInv, pc = "pages", MorePages
  PROVE  LET b == args.vbase + mapped
             S == EntrySize[layer]
         IN  /\ b \in 0 .. (UpperVaddr - 1)
             /\ mapped + S <= args.psize
             /\ b >= call.vbase /\ b + S <= call.vbase + call.psize
             /\ next_slot = <<layer, b>> /\ next_slot \in Slots
             /\ TablesDown(entry, b, layer)
             /\ aligned(mapped + S, S)
<1> DEFINE b == args.vbase + mapped
           S == EntrySize[layer]
<1>1. /\ args.vbase \in Nat /\ args.psize \in Nat /\ mapped \in Nat
      /\ call.vbase \in Nat /\ call.psize \in Nat
      /\ call.vbase + call.psize <= UpperVaddr /\ UpperVaddr \in Nat
      /\ layer \in Layers /\ S \in Nat \ {0}
  BY ArgsFacts, FourLayers
<1>2. args.vbase >= call.vbase /\ args.vbase + args.psize = call.vbase + call.psize
  BY DEF VSpaceInv, ArgsInStep
<1>3. args.psize - mapped >= S /\ index(layer, args.vbase) + mapped \div S < NumEntries
  BY DEF MorePages
<1>4. aligned(args.vbase, S) /\ aligned(mapped, S) /\ TablesDown(entry, args.vbase, layer)
  BY DEF VSpaceInv, LoopInv, TablesDown
<1>5. aligned(b, S)
  BY <1>1, <1>4, AlignedSum
<1>6. aligned(mapped + S, S)
  <2>1. 1 * S + 0 = S
    BY <1>1
  <2>2. aligned(S, S)
    BY <1>1, <2>1, Numbers!DivUnique DEF aligned
  <2> QED BY <1>1, <1>4, <2>2, AlignedSum
<1>7. TablesDown(entry, b, layer)
  <2>1. ASSUME NEW k \in 0 .. (layer - 1) PROVE is_table(entry[slot(k, b)])
    <3>1. k \in Layers /\ k < layer
      BY <1>1, FourLayers
    <3>2. slot(k, b) = slot(k, args.vbase)
      BY <1>1, <1>3, <1>4, <3>1, SameTable
    <3> QED BY <1>4, <3>2 DEF TablesDown
  <2> QED BY <2>1 DEF TablesDown
<1> HIDE DEF S
<1>8. /\ b \in 0 .. (UpperVaddr - 1)
      /\ mapped + S <= args.psize
      /\ b >= call.vbase /\ b + S <= call.vbase + call.psize
  BY <1>1, <1>2, <1>3
<1>9. b \in Nat /\ b <= b /\ b < b + S
  BY <1>1
<1>10. slot(layer, b) = <<layer, b>>
  BY <1>1, <1>5, <1>9, WordsOfSlot DEF S
<1>11. next_slot = <<layer, b>> /\ next_slot \in Slots
  BY <1>1, <1>8, <1>10, SlotOf DEF next_slot
<1> QED BY <1>6, <1>7, <1>8, <1>11 DEF S

\* A page is written: what it maps was free, and is what the call asks for.
LEMMA MapPageKeepsInv ==
  ASSUME VSpaceInv, MapPage
  PROVE  VSpaceInv'
<1> DEFINE b == args.vbase + mapped
           S == EntrySize[layer]
           s == <<layer, b>>
           x == Page(args.pbase + mapped, to_rights[args.rights])
<1>1. /\ pc = "pages" /\ MorePages /\ ~is_present(entry[next_slot])
      /\ entry' = [entry EXCEPT ![next_slot] = x] /\ mapped' = mapped + S
      /\ UNCHANGED <<pc, args, layer, call, before>>
  BY DEF MapPage
<1>2. /\ args.vbase \in Nat /\ args.pbase \in Nat /\ args.psize \in Nat /\ mapped \in Nat
      /\ call.vbase \in Nat /\ call.pbase \in Nat /\ call.psize \in Nat
      /\ call.vbase + call.psize <= UpperVaddr /\ UpperVaddr \in Nat
      /\ layer \in Layers /\ S \in Nat \ {0} /\ args.rights \in DOMAIN to_rights
  BY <1>1, ArgsFacts, FourLayers
<1>3. /\ b \in 0 .. (UpperVaddr - 1) /\ mapped + S <= args.psize
      /\ b >= call.vbase /\ b + S <= call.vbase + call.psize
      /\ next_slot = s /\ s \in Slots
      /\ TablesDown(entry, b, layer) /\ aligned(mapped + S, S)
  BY <1>1, NextPage
<1>4. /\ call \in MapCalls /\ args.vbase >= call.vbase
      /\ args.vbase + args.psize = call.vbase + call.psize
      /\ args.pbase = call.pbase + (args.vbase - call.vbase) /\ args.rights = call.rights
  BY <1>1 DEF VSpaceInv, ArgsInStep
<1>5. x \in Entries /\ is_page(x) /\ ~is_table(x) /\ x.paddr = args.pbase + mapped
      /\ x.flags = to_rights[args.rights]
  <2>1. args.pbase + mapped \in Nat
    BY <1>2
  <2> HIDE DEF to_rights
  <2> QED BY <1>2, <2>1 DEF Page, Entries, is_page, is_table
<1>6. entry[s] = NotPresent /\ ~is_table(entry[s]) /\ ~is_page(entry[s])
  BY <1>1, <1>3 DEF is_present, is_table, is_page, NotPresent
<1>7. TableOK(entry)
  BY InvTable
<1>8. entry' = [entry EXCEPT ![s] = x]
  BY <1>1, <1>3
<1>9. s[1] = layer /\ s[2] = b
  OBVIOUS
<1> HIDE DEF x, s
<1>10. /\ TableOK(entry') /\ entry'[s] = x
       /\ \A t \in Slots : is_table(entry'[t]) <=> is_table(entry[t])
       /\ \A v \in 0 .. (UpperVaddr - 1) :
            IF slot(layer, v) = s /\ TablesDown(entry, v, layer)
            THEN /\ v \in DOMAIN MappingOf(entry') <=> is_page(x)
                 /\ is_page(x) => MappingOf(entry')[v] = Translation(entry', s, v)
            ELSE /\ v \in DOMAIN MappingOf(entry') <=> v \in DOMAIN MappingOf(entry)
                 /\ v \in DOMAIN MappingOf(entry) => MappingOf(entry')[v] = MappingOf(entry)[v]
  <2>1. s \in Slots /\ x \in Entries /\ ~is_table(entry[s]) /\ ~is_table(x)
    BY <1>3, <1>5, <1>6
  <2>2. TableOK(entry') /\ OnlyWritten(entry, entry', s, x)
    BY <1>7, <1>8, <2>1, WriteSlot
  <2> QED BY <1>9, <2>2 DEF OnlyWritten
<1>11. ASSUME NEW v \in 0 .. (UpperVaddr - 1), slot(layer, v) = s
       PROVE  /\ v \notin DOMAIN mapping /\ v \in DOMAIN mapping'
              /\ b <= v /\ v < b + S
              /\ mapping'[v] = [paddr |-> call.pbase + (v - call.vbase),
                                flags |-> to_rights[call.rights]]
  <2>1. slot(layer, b) = s
    BY <1>3 DEF next_slot
  <2>2. TablesDown(entry, v, layer)
    <3>1. ASSUME NEW k \in 0 .. (layer - 1) PROVE is_table(entry[slot(k, v)])
      <4>1. k \in Layers /\ k <= layer /\ v \in Nat /\ b \in Nat
        BY <1>2, <1>3, FourLayers
      <4>2. slot(k, v) = slot(k, b)
        BY <1>2, <1>11, <2>1, <4>1, SameSlotAbove
      <4> QED BY <1>3, <4>2 DEF TablesDown
    <3> QED BY <3>1 DEF TablesDown
  <2>3. EndsIn(entry, v, layer)
    BY <1>6, <1>11, <2>2 DEF EndsIn
  <2>4. v \notin DOMAIN mapping
    BY <1>2, <1>6, <1>11, <2>3, MapsAt, MappingIs
  <2>5. b <= v /\ v < b + S
    BY <1>2, <1>9, <1>11, SlotOf
  <2>6. v \in DOMAIN mapping' /\ mapping'[v] = Translation(entry', s, v)
    BY <1>5, <1>10, <1>11, <2>2, MappingIs
  <2>7. Translation(entry', s, v) = [paddr |-> (args.pbase + mapped) + (v - b),
                                     flags |-> to_rights[call.rights]]
    BY <1>4, <1>5, <1>9, <1>10 DEF Translation
  <2>8. (args.pbase + mapped) + (v - b) = call.pbase + (v - call.vbase)
    BY <1>2, <1>4, <2>5
  <2> QED BY <2>4, <2>5, <2>6, <2>7, <2>8
<1>12. ASSUME NEW v \in 0 .. (UpperVaddr - 1), slot(layer, v) # s
       PROVE  /\ v \in DOMAIN mapping' <=> v \in DOMAIN mapping
              /\ v \in DOMAIN mapping => mapping'[v] = mapping[v]
  BY <1>10, <1>12, MappingIs
<1>13. /\ DOMAIN mapping \subseteq 0 .. (UpperVaddr - 1)
       /\ DOMAIN mapping' \subseteq 0 .. (UpperVaddr - 1)
  BY DEF mapping
<1>14. ASSUME NEW v \in 0 .. (UpperVaddr - 1), slot(layer, v) = s
       PROVE  AsCalled(v)' /\ v \notin DOMAIN before
  <2>1. v \in Region(call)
    <3>1. call.vbase <= v /\ v < call.vbase + call.psize
      <4>1. b <= v /\ v < b + S /\ v \in Nat
        <5>1. v \in Nat
          BY <1>2
        <5> QED BY <1>11, <1>14, <5>1
      <4> HIDE DEF S
      <4> QED BY <1>2, <1>3, <4>1
    <3> QED BY <3>1 DEF Region, between
  <2>2. v \notin DOMAIN before
    BY <1>1, <1>11, <1>14 DEF VSpaceInv, MapOnlyAdds
  <2> QED BY <1>1, <1>11, <1>14, <2>1, <2>2 DEF AsCalled, Region, contains_pair
<1>15. ASSUME NEW v, AsCalled(v) PROVE AsCalled(v)'
  <2>1. v \in 0 .. (UpperVaddr - 1) /\ v \in DOMAIN mapping
    BY <1>13, <1>15 DEF AsCalled, contains_pair
  <2>2. slot(layer, v) # s
    BY <1>11, <2>1
  <2> QED BY <1>1, <1>12, <1>15, <2>1, <2>2 DEF AsCalled, Region, contains_pair
<1>16. MapOnlyAdds'
  <2>1. DOMAIN before \subseteq DOMAIN mapping'
    <3> SUFFICES ASSUME NEW v \in DOMAIN before PROVE v \in DOMAIN mapping'
      OBVIOUS
    <3>1. v \in DOMAIN mapping
      BY <1>1 DEF VSpaceInv, MapOnlyAdds
    <3> QED BY <3>1, <1>11, <1>12, <1>13
  <2>2. ASSUME NEW v \in DOMAIN mapping', v \in DOMAIN before
        PROVE  mapping'[v] = before[v]
    <3>1. v \in DOMAIN mapping /\ mapping[v] = before[v]
      BY <1>1, <2>2 DEF VSpaceInv, MapOnlyAdds
    <3> QED BY <3>1, <1>11, <1>12, <1>13
  <2>3. ASSUME NEW v \in DOMAIN mapping', v \notin DOMAIN before
        PROVE  AsCalled(v)'
    <3>1. CASE slot(layer, v) = s
      BY <1>13, <1>14, <3>1
    <3>2. CASE slot(layer, v) # s
      <4>1. v \in DOMAIN mapping
        BY <1>12, <1>13, <3>2
      <4> QED BY <1>1, <1>15, <2>3, <4>1 DEF VSpaceInv, MapOnlyAdds
    <3> QED BY <3>1, <3>2
  <2> QED BY <1>1, <2>1, <2>2, <2>3 DEF MapOnlyAdds
<1>17. PrefixIsMapped'
  <2> SUFFICES ASSUME NEW v \in Region(call), v < b + S
               PROVE  AsCalled(v)' /\ v \notin DOMAIN before
    BY <1>1, <1>2 DEF PrefixIsMapped, Region
  <2>1. v \in 0 .. (UpperVaddr - 1)
    BY DEF Region
  <2>2. CASE v < b
    BY <1>1, <1>15, <2>2 DEF VSpaceInv, PrefixIsMapped
  <2>3. CASE b <= v
    <3>1. slot(layer, v) = slot(layer, b)
      <4>1. aligned(b, S)
        <5>1. aligned(args.vbase, S) /\ aligned(mapped, S)
          BY <1>1 DEF VSpaceInv, LoopInv
        <5> QED BY <1>2, <5>1, AlignedSum
      <4>2. slot(layer, v) = <<layer, b>>
        BY <1>2, <2>1, <2>3, <4>1, WordsOfSlot
      <4> QED BY <1>3, <4>2 DEF next_slot, s
    <3> QED BY <1>3, <1>14, <2>1, <3>1 DEF next_slot
  <2> QED BY <1>2, <2>1, <2>2, <2>3
<1>18. TypeOK' /\ WalksEnd'
  BY <1>1, <1>2, <1>10 DEF TableOK, VSpaceInv, TypeOK, WalksEnd
<1>19. ArgsInStep'
  BY <1>1, <1>3 DEF VSpaceInv, ArgsInStep
<1>20. LoopInv'
  <2>1. ASSUME NEW k \in 0 .. (layer - 1) PROVE is_table(entry'[slot(k, args.vbase)])
    <3>1. k \in Layers
      BY <1>2, FourLayers
    <3>2. slot(k, args.vbase) \in Slots
      BY <1>1, <3>1, ArgsFacts, SlotOf
    <3>3. is_table(entry[slot(k, args.vbase)])
      BY <1>1 DEF VSpaceInv, LoopInv
    <3> QED BY <1>10, <3>2, <3>3
  <2>2. aligned(args.vbase, EntrySize[layer])
    BY <1>1 DEF VSpaceInv, LoopInv
  <2> QED BY <1>1, <1>3, <2>1, <2>2 DEF LoopInv
<1> QED BY <1>16, <1>17, <1>18, <1>19, <1>20 DEF VSpaceInv

\* The page that unmap takes out: the slot in which the walk for its address
\* ends, with all the words of that slot.
LEMMA UnmapWrites ==
  ASSUME VSpaceInv, NEW base \in UnmapVAddrs, unmap(base)
  PROVE  \E l \in Layers :
           LET s == slot(l, base)
           IN  /\ s \in Slots /\ s[1] = l
               /\ EndsIn(entry, base, l) /\ is_page(entry[s])
               /\ TableOK(entry') /\ OnlyWritten(entry, entry', s, NotPresent)
<1>1. base \in 0 .. (UpperVaddr - 1)
  BY VSpaceAssumption
<1>2. TableOK(entry)
  BY InvTable
<1>3. PICK l \in Layers : EndsIn(entry, base, l)
  BY <1>1, <1>2, WalkEnds
<1> DEFINE s == slot(l, base)
<1>4. last_slot(base) = s
  BY <1>3, LastSlotIs DEF last_slot, LastSlotOf
<1>5. is_page(entry[s]) /\ entry' = [entry EXCEPT ![s] = NotPresent]
  BY <1>4 DEF unmap
<1>6. s \in Slots /\ s[1] = l
  BY <1>1, SlotOf
<1>7. ~is_table(entry[s]) /\ ~is_table(NotPresent) /\ NotPresent \in Entries
  BY <1>3 DEF EndsIn, is_table, NotPresent, Entries
<1>8. TableOK(entry') /\ OnlyWritten(entry, entry', s, NotPresent)
  <2> HIDE DEF s
  <2> QED BY <1>2, <1>5, <1>6, <1>7, WriteSlot
<1> QED BY <1>3, <1>5, <1>6, <1>8

\* unmap keeps the invariant: no call is under way.
LEMMA UnmapKeepsInv ==
  ASSUME VSpaceInv, NEW base \in UnmapVAddrs, unmap(base)
  PROVE  VSpaceInv'
<1>1. TableOK(entry')
  BY UnmapWrites
<1>2. pc = "idle" /\ UNCHANGED <<pc, args, layer, mapped, call, before>>
  BY DEF unmap
<1>3. TypeOK' /\ WalksEnd'
  BY <1>1, <1>2 DEF TableOK, VSpaceInv, TypeOK, WalksEnd
<1> QED BY <1>2, <1>3 DEF VSpaceInv, ArgsInStep, LoopInv, MapOnlyAdds, PrefixIsMapped

\* What the invariant says is a matter of the variables.
LEMMA StutterKeepsInv ==
  ASSUME VSpaceInv, UNCHANGED vars
  PROVE  VSpaceInv'
<1>1. mapping' = mapping
  BY MappingIs DEF vars
<1>2. TypeOK' /\ WalksEnd' /\ ArgsInStep' /\ LoopInv'
  BY DEF vars, VSpaceInv, TypeOK, WalksEnd, ArgsInStep, LoopInv
<1>3. MapOnlyAdds' /\ PrefixIsMapped'
  BY <1>1 DEF vars, VSpaceInv, MapOnlyAdds, PrefixIsMapped, AsCalled, Region
<1> QED BY <1>2, <1>3 DEF VSpaceInv

\* At every step of any sequence of maps and unmaps, walks end, the arguments
\* of the recursion are the rest of the call's, and what the loops have passed
\* is mapped as asked for.
THEOREM VSpaceInvariant == Spec => []VSpaceInv
<1>1. VSpaceInv /\ [Next]_vars => VSpaceInv'
  <2> SUFFICES ASSUME VSpaceInv, [Next]_vars PROVE VSpaceInv'
    OBVIOUS
  <2>1. CASE \E c \in MapCalls : map_generic(c)
    BY <2>1, CallKeepsInv
  <2>2. CASE \E base \in UnmapVAddrs : unmap(base)
    BY <2>2, UnmapKeepsInv
  <2>3. CASE Step
    BY <2>3, NewTableKeepsInv, DescendKeepsInv, EndKeepsInv, MapPageKeepsInv,
       RecurseKeepsInv, ReturnKeepsInv DEF Step
  <2>4. CASE UNCHANGED vars
    BY <2>4, StutterKeepsInv
  <2> QED BY <2>1, <2>2, <2>3, <2>4 DEF Next
<1> QED BY <1>1, InitInv, PTL DEF Spec

(***************************************************************************)
(* What follows from it.                                                   *)
(***************************************************************************)

\* No map_generic, whether it succeeds, fails half-way or panics, disturbs a
\* translation that was there; what it adds is what it was asked for.
THEOREM MapsDisturbNothing == Spec => []MapOnlyAdds
<1>1. VSpaceInv => MapOnlyAdds
  BY DEF VSpaceInv
<1> QED BY <1>1, VSpaceInvariant, PTL

\* A map_generic that returns Ok has mapped all of its region, and none of it
\* was mapped before.
THEOREM SuccessMapsAll == Spec => []OkMapsRegion
<1>1. VSpaceInv => OkMapsRegion
  <2> SUFFICES ASSUME VSpaceInv, pc = "ok", NEW v \in Region(call)
               PROVE  AsCalled(v) /\ v \notin DOMAIN before
    BY DEF OkMapsRegion
  <2>1. args.vbase + mapped = call.vbase + call.psize
    BY DEF VSpaceInv, ArgsInStep, LoopInv
  <2>2. v < args.vbase + mapped
    BY <2>1 DEF Region, between
  <2> QED BY <2>2 DEF VSpaceInv, PrefixIsMapped
<1> QED BY <1>1, VSpaceInvariant, PTL

\* A map_generic that fails has mapped its region up to the address it reports.
THEOREM FailureMapsPrefix == Spec => []ErrMapsPrefix
<1>1. VSpaceInv => ErrMapsPrefix
  <2> SUFFICES ASSUME VSpaceInv, pc = "err", NEW v \in Region(call), v < args.vbase
               PROVE  AsCalled(v) /\ v \notin DOMAIN before
    BY DEF ErrMapsPrefix
  <2>1. v \in Nat /\ args.vbase \in Nat /\ mapped \in Nat
    BY ArgsFacts, FourLayers DEF Region
  <2>2. v < args.vbase + mapped
    BY <2>1
  <2> QED BY <2>2 DEF VSpaceInv, PrefixIsMapped
<1> QED BY <1>1, VSpaceInvariant, PTL

\* unmap takes out one whole page, of whatever size, and nothing else.
THEOREM UnmapTakesAPage == Spec => UnmapTakesOnePage
<1> DEFINE Taken(base, l) == {v \in DOMAIN mapping : slot(l, v) = slot(l, base)}
           A == \A base \in UnmapVAddrs :
                  unmap(base) =>
                    \E l \in Layers :
                      LET page == {v \in DOMAIN mapping : slot(l, v) = slot(l, base)}
                      IN /\ base \in page
                         /\ page = Region([vbase |-> slot(l, base)[2], psize |-> EntrySize[l]])
                         /\ mapping' = Restrict(mapping, DOMAIN mapping \ page)
<1>1. ASSUME VSpaceInv PROVE A
  <2> SUFFICES ASSUME NEW base \in UnmapVAddrs, unmap(base)
               PROVE  \E l \in Layers :
                        /\ base \in Taken(base, l)
                        /\ Taken(base, l)
                             = Region([vbase |-> slot(l, base)[2], psize |-> EntrySize[l]])
                        /\ mapping' = Restrict(mapping, DOMAIN mapping \ Taken(base, l))
    OBVIOUS
  <2>1. PICK l \in Layers :
          /\ slot(l, base) \in Slots /\ slot(l, base)[1] = l
          /\ EndsIn(entry, base, l) /\ is_page(entry[slot(l, base)])
          /\ OnlyWritten(entry, entry', slot(l, base), NotPresent)
    BY <1>1, UnmapWrites
  <2>2. base \in 0 .. (UpperVaddr - 1) /\ base \in Nat /\ EntrySize[l] \in Nat \ {0}
    BY VSpaceAssumption, FourLayers
  <2> DEFINE s == slot(l, base)
  <2>3. s[2] \in Nat /\ s = <<l, s[2]>> /\ aligned(s[2], EntrySize[l])
    BY <2>2, RoundDown DEF slot
  <2>4. ASSUME NEW v \in 0 .. (UpperVaddr - 1), slot(l, v) = s
        PROVE  TablesDown(entry, v, l) /\ v \in DOMAIN mapping /\ v \notin DOMAIN mapping'
    <3>1. TablesDown(entry, v, l)
      <4>1. ASSUME NEW k \in 0 .. (l - 1) PROVE is_table(entry[slot(k, v)])
        <5>1. k \in Layers /\ k <= l /\ v \in Nat
          BY FourLayers
        <5>2. slot(k, v) = slot(k, base)
          BY <2>2, <2>4, <5>1, SameSlotAbove
        <5> QED BY <2>1, <5>2 DEF EndsIn, TablesDown
      <4> QED BY <4>1 DEF TablesDown
    <3>2. EndsIn(entry, v, l)
      BY <2>1, <2>4, <3>1 DEF EndsIn
    <3>3. v \in DOMAIN mapping
      BY <2>1, <2>4, <3>2, MapsAt, MappingIs
    <3>4. v \notin DOMAIN mapping'
      <4>1. ~is_page(NotPresent)
        BY DEF is_page, NotPresent
      <4> QED BY <2>1, <2>4, <3>1, <4>1, MappingIs DEF OnlyWritten
    <3> QED BY <3>1, <3>3, <3>4
  <2>5. ASSUME NEW v \in 0 .. (UpperVaddr - 1), slot(l, v) # s
        PROVE  /\ v \in DOMAIN mapping' <=> v \in DOMAIN mapping
               /\ v \in DOMAIN mapping => mapping'[v] = mapping[v]
    BY <2>1, <2>5, MappingIs DEF OnlyWritten
  <2>6. /\ DOMAIN mapping \subseteq 0 .. (UpperVaddr - 1)
        /\ DOMAIN mapping' \subseteq 0 .. (UpperVaddr - 1)
        /\ mapping' = [v \in DOMAIN mapping' |-> mapping'[v]]
    BY DEF mapping
  <2>7. base \in Taken(base, l)
    BY <2>2, <2>4
  <2>8. Taken(base, l) = Region([vbase |-> s[2], psize |-> EntrySize[l]])
    <3>1. ASSUME NEW v \in 0 .. (UpperVaddr - 1)
          PROVE  slot(l, v) = s <=> between(v, s[2], s[2] + EntrySize[l])
      <4>1. ASSUME slot(l, v) = s PROVE between(v, s[2], s[2] + EntrySize[l])
        BY <4>1, SlotOf DEF between
      <4>2. ASSUME between(v, s[2], s[2] + EntrySize[l]) PROVE slot(l, v) = s
        <5> HIDE DEF s
        <5>1. v \in Nat
          BY FourLayers
        <5> QED BY <4>2, <5>1, <2>3, WordsOfSlot DEF between
      <4> QED BY <4>1, <4>2
    <3>2. ASSUME NEW v \in Taken(base, l)
          PROVE  v \in Region([vbase |-> s[2], psize |-> EntrySize[l]])
      BY <2>6, <3>1 DEF Region
    <3>3. ASSUME NEW v \in Region([vbase |-> s[2], psize |-> EntrySize[l]])
          PROVE  v \in Taken(base, l)
      BY <2>4, <3>1 DEF Region
    <3> QED BY <3>2, <3>3
  <2>9. mapping' = Restrict(mapping, DOMAIN mapping \ Taken(base, l))
    <3>1. DOMAIN mapping' = DOMAIN mapping \ Taken(base, l)
      BY <2>4, <2>5, <2>6
    <3>2. \A v \in DOMAIN mapping' : mapping'[v] = mapping[v]
      BY <2>4, <2>5, <2>6
    <3> QED BY <2>6, <3>1, <3>2 DEF Restrict
  <2> QED BY <2>7, <2>8, <2>9
<1> QED BY <1>1, VSpaceInvariant, PTL DEF UnmapTakesOnePage
=============================================================================
