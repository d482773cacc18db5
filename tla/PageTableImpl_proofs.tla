------------------------ MODULE PageTableImpl_proofs ------------------------
(***************************************************************************)
(* The invariants of the page table implementation hold between any two    *)
(* memory writes of map_frame, unmap and resolve, for every geometry and   *)
(* any number of pages. The argument is the inductive invariant IInv of    *)
(* PageTableImpl: the linked directories form a tree over the address      *)
(* space (TreeInv), and a running call holds a chain of directories down   *)
(* from the root (RunInv). With it, the implementation implements the page *)
(* table specification, and a walk of the MMU finds what is mapped.        *)
(***************************************************************************)
EXTENDS PageTableImpl, PageTableContents_proofs, FiniteSetTheorems

\* The entries a page can hold.
PDE == PageDirectoryEntry(Nat \cup Regions)

\* PageTableMemory::write replaces one entry of one page.
LEMMA WriteEntry ==
  ASSUME TypeOK, NEW p \in Regions, NEW n \in EntryIndices, NEW e \in PDE,
         write(p, n, e)
  PROVE  /\ region_view' \in [Regions -> [EntryIndices -> PDE]]
         /\ \A r \in Regions : \A i \in EntryIndices :
              region_view'[r][i] = IF r = p /\ i = n THEN e ELSE region_view[r][i]
<1>1. region_view \in [Regions -> [EntryIndices -> PDE]]
  BY DEF TypeOK, PDE
<1> HIDE DEF PDE
<1> QED BY <1>1 DEF write

\* Expanded wherever they occur, to the end of the module.
USE DEF view_at, IsDirAt, IsPageAt, is_mapping, is_dir, is_page

(***************************************************************************)
(* The tree of directories, under the writes that change it.               *)
(***************************************************************************)

\* Memory whose directory entries are the same holds the same tree.
LEMMA SameDirEntries ==
  ASSUME DirectoriesFormTree, UNCHANGED ghost_pt,
         \A r \in used_regions : \A i \in EntryIndices :
           /\ IsDirAt(r, i)' <=> IsDirAt(r, i)
           /\ IsDirAt(r, i) => view_at(r, i)' = view_at(r, i)
  PROVE  DirectoriesFormTree'
<1>1. used_regions' = used_regions
  BY DEF used_regions
<1>2. contains_pair(ghost_pt, CR3, [layer |-> 0, base |-> 0])'
  BY <1>1 DEF DirectoriesFormTree, contains_pair
<1>3. ASSUME NEW r \in used_regions', NEW i \in EntryIndices, IsDirAt(r, i)'
      PROVE  contains_pair(ghost_pt, view_at(r, i).addr,
               [layer |-> ghost_pt[r].layer + 1, base |-> SlotBase(<<r, i>>)])'
  <2>1. r \in used_regions /\ IsDirAt(r, i) /\ view_at(r, i)' = view_at(r, i)
    BY <1>1, <1>3
  <2>2. contains_pair(ghost_pt, view_at(r, i).addr,
          [layer |-> ghost_pt[r].layer + 1, base |-> SlotBase(<<r, i>>)])
    BY <2>1 DEF DirectoriesFormTree
  <2> QED BY <2>1, <2>2 DEF contains_pair, SlotBase
<1>4. ASSUME NEW r \in used_regions' \ {CR3}
      PROVE  \E s \in used_regions' \X EntryIndices :
               /\ IsDirAt(s[1], s[2])' /\ view_at(s[1], s[2])'.addr = r
               /\ \A t \in used_regions' \X EntryIndices :
                    IsDirAt(t[1], t[2])' /\ view_at(t[1], t[2])'.addr = r => t = s
  <2>1. PICK s \in used_regions \X EntryIndices :
          /\ IsDirAt(s[1], s[2]) /\ view_at(s[1], s[2]).addr = r
          /\ \A t \in used_regions \X EntryIndices :
               IsDirAt(t[1], t[2]) /\ view_at(t[1], t[2]).addr = r => t = s
    BY <1>1, <1>4 DEF DirectoriesFormTree
  <2>2. IsDirAt(s[1], s[2])' /\ view_at(s[1], s[2])'.addr = r
    BY <2>1
  <2>3. ASSUME NEW t \in used_regions' \X EntryIndices,
               IsDirAt(t[1], t[2])', view_at(t[1], t[2])'.addr = r
        PROVE  t = s
    <3>1. t \in used_regions \X EntryIndices /\ IsDirAt(t[1], t[2]) /\ view_at(t[1], t[2]).addr = r
      BY <1>1, <2>3
    <3> QED BY <2>1, <3>1
  <2> QED BY <1>1, <2>2, <2>3
<1> QED BY <1>2, <1>3, <1>4 DEF DirectoriesFormTree

\* A write of a page entry or of an empty entry, over an entry that is no
\* directory, keeps the tree: the writes of map_frame and unmap to leaves.
LEMMA LeafWriteKeepsTree ==
  ASSUME TypeOK, TreeInv, NEW p \in used_regions, NEW n \in EntryIndices,
         NEW e \in PDE, ~IsDirAt(p, n),
         is_mapping(e) => /\ is_page(ghost_pt[p].layer, e)
                          /\ ghost_pt[p].layer > 0
                          /\ e.addr \in Nat
                          /\ aligned(e.addr, EntrySize[ghost_pt[p].layer]),
         write(p, n, e), UNCHANGED ghost_pt
  PROVE  TreeInv'
<1>1. used_regions' = used_regions /\ used_regions \subseteq Regions
  BY DEF used_regions, TypeOK
<1>2. \A r \in used_regions : \A i \in EntryIndices :
        region_view'[r][i] = IF r = p /\ i = n THEN e ELSE region_view[r][i]
  BY <1>1, WriteEntry
<1>3. \A r \in used_regions : \A i \in EntryIndices : IsDirAt(r, i)' <=> IsDirAt(r, i)
  BY <1>1, <1>2
<1>4. DirectoriesFormTree'
  <2>1. \A r \in used_regions : \A i \in EntryIndices :
          IsDirAt(r, i) => view_at(r, i)' = view_at(r, i)
    BY <1>2
  <2> QED BY <1>1, <1>3, <2>1, SameDirEntries DEF TreeInv
<1>5. DirectoriesSpan'
  BY <1>1 DEF TreeInv, DirectoriesSpan
<1>6. EntriesAreFilled'
  BY <1>1, <1>2 DEF TreeInv, EntriesAreFilled
<1>7. PagesAreWellPlaced'
  BY <1>1, <1>2 DEF TreeInv, PagesAreWellPlaced, Slots, used_regions
<1>8. LeavesAreDisjoint'
  BY <1>1, <1>3 DEF TreeInv, LeavesAreDisjoint, InEntry, SlotBase
<1> QED BY <1>4, <1>5, <1>6, <1>7, <1>8 DEF TreeInv

\* A linked directory has a layer and a base (ghost_pt).
LEMMA PlacedDirectory ==
  ASSUME TypeOK, TreeInv, NEW r \in used_regions
  PROVE  /\ r \in Regions /\ r \in regions
         /\ ghost_pt[r] = [layer |-> ghost_pt[r].layer, base |-> ghost_pt[r].base]
         /\ ghost_pt[r].layer \in Layers /\ ghost_pt[r].base \in Nat
         /\ EntrySize[ghost_pt[r].layer] \in Nat \ {0}
BY SizeFacts DEF TypeOK, used_regions

\* An entry of a directory begins within the address space and itself.
LEMMA EntryBegins ==
  ASSUME NEW l \in Layers, NEW b \in Nat, NEW i \in EntryIndices,
         b + NumEntries * EntrySize[l] <= UpperVaddr
  PROVE  LET v == entry_base(l, b, i)
         IN v \in 0 .. (UpperVaddr - 1) /\ between(v, v, v + EntrySize[l])
<1> DEFINE v == entry_base(l, b, i)
<1>1. EntrySize[l] \in Nat \ {0} /\ NumEntries * EntrySize[l] \in Nat /\ UpperVaddr \in Nat
  BY SizeFacts, GeometryFacts
<1>2. v \in Nat /\ v + EntrySize[l] <= b + NumEntries * EntrySize[l]
  BY EntryInSpan
<1> HIDE DEF v
<1>3. v \in 0 .. (UpperVaddr - 1) /\ between(v, v, v + EntrySize[l])
  BY <1>1, <1>2 DEF between
<1> QED BY <1>3 DEF v

\* The entries at which walks for one address end are one.
LEMMA OneWalkEnd ==
  ASSUME TypeOK, TreeInv, NEW v \in Nat,
         NEW r \in used_regions, NEW i \in EntryIndices, ~IsDirAt(r, i), InEntry(v, r, i),
         NEW q \in used_regions, NEW j \in EntryIndices, ~IsDirAt(q, j), InEntry(v, q, j)
  PROVE  r = q /\ i = j
<1>1. /\ ghost_pt[r].layer \in Layers /\ ghost_pt[r].base \in Nat
      /\ ghost_pt[q].layer \in Layers /\ ghost_pt[q].base \in Nat
  BY PlacedDirectory
<1>2. /\ SlotBase(<<r, i>>) \in Nat /\ EntrySize[ghost_pt[r].layer] \in Nat
      /\ SlotBase(<<q, j>>) \in Nat /\ EntrySize[ghost_pt[q].layer] \in Nat
  BY <1>1, EntryInSpan, SizeFacts DEF SlotBase
<1>3. /\ between(v, SlotBase(<<r, i>>), SlotBase(<<r, i>>) + EntrySize[ghost_pt[r].layer])
      /\ between(v, SlotBase(<<q, j>>), SlotBase(<<q, j>>) + EntrySize[ghost_pt[q].layer])
  BY DEF InEntry, SlotBase
<1>4. CASE SlotBase(<<r, i>>) <= SlotBase(<<q, j>>)
  <2>1. between(SlotBase(<<q, j>>), SlotBase(<<r, i>>),
                SlotBase(<<r, i>>) + EntrySize[ghost_pt[r].layer])
    BY <1>2, <1>3, <1>4 DEF between
  <2>2. InEntry(SlotBase(<<q, j>>), r, i)
    BY <2>1 DEF InEntry, SlotBase
  <2> QED BY <2>2 DEF TreeInv, LeavesAreDisjoint
<1>5. CASE SlotBase(<<q, j>>) <= SlotBase(<<r, i>>)
  <2>1. between(SlotBase(<<r, i>>), SlotBase(<<q, j>>),
                SlotBase(<<q, j>>) + EntrySize[ghost_pt[q].layer])
    BY <1>2, <1>3, <1>5 DEF between
  <2>2. InEntry(SlotBase(<<r, i>>), q, j)
    BY <2>1 DEF InEntry, SlotBase
  <2> QED BY <2>2 DEF TreeInv, LeavesAreDisjoint
<1> QED BY <1>2, <1>4, <1>5

\* Zeroing a page that is not linked keeps the tree: alloc_page.
LEMMA AllocKeepsTree ==
  ASSUME TypeOK, TreeInv, NEW d \in Regions \ used_regions,
         NEW page \in [EntryIndices -> PDE],
         region_view' = [region_view EXCEPT ![d] = page], UNCHANGED ghost_pt
  PROVE  TreeInv'
<1>1. used_regions' = used_regions /\ used_regions \subseteq Regions
  BY DEF used_regions, TypeOK
<1>2. \A r \in used_regions : region_view'[r] = region_view[r]
  BY <1>1 DEF TypeOK
<1>3. \A r \in used_regions : \A i \in EntryIndices : IsDirAt(r, i)' <=> IsDirAt(r, i)
  BY <1>1, <1>2
<1>4. DirectoriesFormTree'
  <2>1. \A r \in used_regions : \A i \in EntryIndices :
          IsDirAt(r, i) => view_at(r, i)' = view_at(r, i)
    BY <1>2
  <2> QED BY <1>1, <1>3, <2>1, SameDirEntries DEF TreeInv
<1>5. DirectoriesSpan'
  BY <1>1 DEF TreeInv, DirectoriesSpan
<1>6. EntriesAreFilled'
  BY <1>1, <1>2 DEF TreeInv, EntriesAreFilled
<1>7. PagesAreWellPlaced'
  BY <1>1, <1>2 DEF TreeInv, PagesAreWellPlaced, Slots, used_regions
<1>8. LeavesAreDisjoint'
  BY <1>1, <1>3 DEF TreeInv, LeavesAreDisjoint, InEntry, SlotBase
<1> QED BY <1>4, <1>5, <1>6, <1>7, <1>8 DEF TreeInv

\* An entry that refers to a directory refers to a linked one, placed where the
\* entry is, and never to the root.
LEMMA DirEntry ==
  ASSUME TypeOK, TreeInv, NEW r \in used_regions, NEW i \in EntryIndices, IsDirAt(r, i)
  PROVE  /\ view_at(r, i).addr \in used_regions
         /\ ghost_pt[view_at(r, i).addr] =
              [layer |-> ghost_pt[r].layer + 1, base |-> SlotBase(<<r, i>>)]
         /\ SlotBase(<<r, i>>) = entry_base(ghost_pt[r].layer, ghost_pt[r].base, i)
         /\ ghost_pt[r].layer # LastLayer /\ ghost_pt[r].layer + 1 \in Layers
         /\ view_at(r, i).addr # CR3
<1>1. contains_pair(ghost_pt, view_at(r, i).addr,
        [layer |-> ghost_pt[r].layer + 1, base |-> SlotBase(<<r, i>>)])
  BY DEF TreeInv, DirectoriesFormTree
<1>2. contains_pair(ghost_pt, CR3, [layer |-> 0, base |-> 0])
  BY DEF TreeInv, DirectoriesFormTree
<1>3. ghost_pt[r].layer # LastLayer /\ ghost_pt[r].layer \in Layers
  BY PlacedDirectory
<1>4. ghost_pt[r].layer + 1 \in Layers /\ ghost_pt[r].layer + 1 # 0
  BY <1>3, SizeFacts
<1>5. SlotBase(<<r, i>>) = entry_base(ghost_pt[r].layer, ghost_pt[r].base, i)
  BY DEF SlotBase
<1> QED BY <1>1, <1>2, <1>3, <1>4, <1>5 DEF contains_pair, used_regions

\* The link of map_frame, l2_impl.rs:1466: entry n of p comes to refer to the
\* fresh, empty directory d.
LEMMA LinkKeepsTree ==
  ASSUME TypeOK, TreeInv, NEW p \in used_regions, NEW n \in EntryIndices,
         NEW d \in regions \ used_regions,
         ~is_mapping(view_at(p, n)), is_directory_empty(d),
         ghost_pt[p].layer # LastLayer,
         write(p, n, new_dir_entry(ghost_pt[p].layer, d)),
         ghost_pt' = map_insert(ghost_pt, d,
                       [layer |-> ghost_pt[p].layer + 1,
                        base |-> entry_base(ghost_pt[p].layer, ghost_pt[p].base, n)])
  PROVE  TreeInv'
<1> DEFINE l == ghost_pt[p].layer
           e == new_dir_entry(l, d)
           b == entry_base(l, ghost_pt[p].base, n)
<1>1. /\ p \in Regions /\ d \in Regions /\ p # d
      /\ l \in Layers /\ l + 1 \in Layers /\ l # LastLayer
      /\ ghost_pt[p].base \in Nat /\ b \in Nat /\ d # CR3
  BY SizeFacts, EntryInSpan DEF TypeOK, used_regions, TreeInv, DirectoriesFormTree, contains_pair
<1>2. e \in PDE /\ e.P /\ ~e.PS /\ e.RW /\ e.US /\ ~e.XD /\ e.addr = d
  BY <1>1 DEF PDE, PageDirectoryEntry, new_dir_entry, new_entry
<1>3. /\ used_regions' = used_regions \cup {d}
      /\ \A r \in used_regions : ghost_pt'[r] = ghost_pt[r]
      /\ ghost_pt'[d] = [layer |-> l + 1, base |-> b]
  BY DEF used_regions, map_insert
<1>4. /\ \A r \in used_regions : \A i \in EntryIndices :
           region_view'[r][i] = IF r = p /\ i = n THEN e ELSE region_view[r][i]
      /\ \A i \in EntryIndices : ~region_view'[d][i].P
  <2>1. \A r \in Regions : \A i \in EntryIndices :
          region_view'[r][i] = IF r = p /\ i = n THEN e ELSE region_view[r][i]
    BY <1>1, <1>2, WriteEntry
  <2>2. used_regions \subseteq Regions /\ \A i \in EntryIndices : ~region_view[d][i].P
    BY DEF is_directory_empty, TypeOK
  <2> QED BY <1>1, <2>1, <2>2
<1>5. ~ZeroEntry.P
  BY DEF ZeroEntry, zero_entry
<1> HIDE DEF e, b, l
<1>6. /\ \A r \in used_regions : \A i \in EntryIndices :
           IsDirAt(r, i)' <=> (IsDirAt(r, i) \/ (r = p /\ i = n))
      /\ \A i \in EntryIndices : ~IsDirAt(d, i)'
      /\ ~IsDirAt(p, n)
  BY <1>1, <1>2, <1>3, <1>4, <1>5 DEF l
<1>7. DirectoriesFormTree'
  <2>1. contains_pair(ghost_pt, CR3, [layer |-> 0, base |-> 0])'
    BY <1>3 DEF TreeInv, DirectoriesFormTree, contains_pair, used_regions
  <2>2. ASSUME NEW r \in used_regions', NEW i \in EntryIndices, IsDirAt(r, i)'
        PROVE  contains_pair(ghost_pt, view_at(r, i).addr,
                 [layer |-> ghost_pt[r].layer + 1, base |-> SlotBase(<<r, i>>)])'
    <3>1. r \in used_regions
      BY <1>3, <1>6, <2>2
    <3>2. CASE r = p /\ i = n
      BY <1>2, <1>3, <1>4, <3>2 DEF contains_pair, SlotBase, used_regions, l, b
    <3>3. CASE ~(r = p /\ i = n)
      BY <1>3, <1>4, <1>6, <2>2, <3>1, <3>3
         DEF TreeInv, DirectoriesFormTree, contains_pair, SlotBase, used_regions
    <3> QED BY <3>2, <3>3
  <2>3. ASSUME NEW r \in used_regions' \ {CR3}
        PROVE  \E s \in used_regions' \X EntryIndices :
                 /\ IsDirAt(s[1], s[2])' /\ view_at(s[1], s[2])'.addr = r
                 /\ \A t \in used_regions' \X EntryIndices :
                      IsDirAt(t[1], t[2])' /\ view_at(t[1], t[2])'.addr = r => t = s
    <3>1. ASSUME NEW q \in used_regions, NEW i \in EntryIndices, IsDirAt(q, i)
          PROVE  view_at(q, i).addr # d
      BY <3>1, DirEntry
    <3>2. CASE r = d
      <4>1. <<p, n>> \in used_regions' \X EntryIndices /\ IsDirAt(p, n)' /\ view_at(p, n)'.addr = d
        BY <1>2, <1>3, <1>4, <1>6
      <4>2. ASSUME NEW q \in used_regions', NEW i \in EntryIndices,
                   IsDirAt(q, i)', view_at(q, i)'.addr = d
            PROVE  q = p /\ i = n
        BY <1>3, <1>4, <1>6, <3>1, <4>2
      <4> QED BY <3>2, <4>1, <4>2
    <3>3. CASE r # d
      <4>1. PICK s \in used_regions \X EntryIndices :
              /\ IsDirAt(s[1], s[2]) /\ view_at(s[1], s[2]).addr = r
              /\ \A t \in used_regions \X EntryIndices :
                   IsDirAt(t[1], t[2]) /\ view_at(t[1], t[2]).addr = r => t = s
        BY <1>3, <3>3 DEF TreeInv, DirectoriesFormTree
      <4>2. /\ s \in used_regions' \X EntryIndices
            /\ IsDirAt(s[1], s[2])' /\ view_at(s[1], s[2])'.addr = r
        BY <1>3, <1>4, <1>6, <4>1
      <4>3. ASSUME NEW t \in used_regions' \X EntryIndices,
                   IsDirAt(t[1], t[2])', view_at(t[1], t[2])'.addr = r
            PROVE  t = s
        <5>1. t[1] \in used_regions /\ ~(t[1] = p /\ t[2] = n)
          BY <1>2, <1>3, <1>4, <1>6, <3>3, <4>3
        <5> QED BY <1>4, <1>6, <4>1, <4>3, <5>1
      <4> QED BY <4>2, <4>3
    <3> QED BY <3>2, <3>3
  <2> QED BY <2>1, <2>2, <2>3 DEF DirectoriesFormTree
<1>8. DirectoriesSpan'
  <2>1. aligned(b, EntrySize[l]) /\ b + EntrySize[l] <= UpperVaddr
    <3>1. /\ aligned(ghost_pt[p].base, NumEntries * EntrySize[l])
          /\ ghost_pt[p].base + NumEntries * EntrySize[l] <= UpperVaddr
      BY DEF TreeInv, DirectoriesSpan, l
    <3>2. b + EntrySize[l] <= ghost_pt[p].base + NumEntries * EntrySize[l]
      BY <1>1, EntryInSpan DEF b, l
    <3>3. aligned(b, EntrySize[l])
      BY <1>1, <3>1, EntryAligned DEF b, l
    <3>4. /\ EntrySize[l] \in Nat /\ NumEntries * EntrySize[l] \in Nat
          /\ UpperVaddr \in Nat
      BY <1>1, SizeFacts, GeometryFacts
    <3> QED BY <1>1, <3>1, <3>2, <3>3, <3>4
  <2>2. NumEntries * EntrySize[l + 1] = EntrySize[l]
    BY <1>1, SizeFacts
  <2> QED BY <1>3, <2>1, <2>2 DEF TreeInv, DirectoriesSpan
<1>9. EntriesAreFilled'
  BY <1>2, <1>3, <1>4, <1>5, <1>6 DEF TreeInv, EntriesAreFilled, l
<1>10. PagesAreWellPlaced'
  <2>1. ASSUME NEW s \in Slots'
        PROVE  s \in Slots /\ s[1] \in used_regions /\ ~(s[1] = p /\ s[2] = n)
    BY <1>1, <1>2, <1>3, <1>4, <1>5, <2>1 DEF Slots, used_regions, l
  <2> QED BY <1>3, <1>4, <2>1 DEF TreeInv, PagesAreWellPlaced, Slots, used_regions
<1>11. LeavesAreDisjoint'
  \* A leaf now is a leaf before, or an entry of d, which lies within (p, n).
  <2>1. ASSUME NEW v \in 0 .. (UpperVaddr - 1), NEW r \in used_regions', NEW i \in EntryIndices,
               ~IsDirAt(r, i)', InEntry(v, r, i)'
        PROVE  \/ /\ r \in used_regions /\ ~(r = p /\ i = n)
                  /\ ~IsDirAt(r, i) /\ InEntry(v, r, i)
               \/ r = d /\ InEntry(v, p, n) /\ i = index_for_vaddr(l + 1, b, v)
    <3>1. CASE r # d
      BY <1>3, <1>6, <2>1, <3>1 DEF InEntry
    <3>2. CASE r = d
      <4>1. between(v, entry_base(l + 1, b, i), entry_base(l + 1, b, i) + EntrySize[l + 1])
        BY <1>3, <2>1, <3>2 DEF InEntry
      <4>2. i = index_for_vaddr(l + 1, b, v)
        BY <1>1, <4>1, IndexOfEntry
      <4>3. NumEntries * EntrySize[l + 1] = EntrySize[l] /\ EntrySize[l + 1] \in Nat /\ EntrySize[l] \in Nat
        BY <1>1, SizeFacts
      <4>4. /\ entry_base(l + 1, b, i) \in Nat /\ b <= entry_base(l + 1, b, i)
            /\ entry_base(l + 1, b, i) + EntrySize[l + 1] <= b + EntrySize[l]
        BY <1>1, <4>3, EntryInSpan
      <4>5. between(v, b, b + EntrySize[l])
        BY <1>1, <4>1, <4>3, <4>4 DEF between
      <4> QED BY <3>2, <4>2, <4>5 DEF InEntry, b, l
    <3> QED BY <3>1, <3>2
  <2>2. ASSUME NEW v \in 0 .. (UpperVaddr - 1),
               NEW r \in used_regions', NEW q \in used_regions',
               NEW i \in EntryIndices, NEW j \in EntryIndices,
               ~IsDirAt(r, i)', InEntry(v, r, i)', ~IsDirAt(q, j)', InEntry(v, q, j)'
        PROVE  r = q /\ i = j
    <3>1. \A x \in used_regions : \A k \in EntryIndices :
            ~IsDirAt(x, k) /\ InEntry(v, x, k) /\ ~(x = p /\ k = n) => ~InEntry(v, p, n)
      BY OneWalkEnd
    <3>2. CASE r # d /\ q # d
      BY <2>1, <2>2, <3>2, OneWalkEnd
    <3>3. CASE r = d \/ q = d
      BY <2>1, <2>2, <3>1, <3>3
    <3> QED BY <3>2, <3>3
  <2>3. \A q \in used_regions' : \A j \in EntryIndices :
          /\ SlotBase(<<q, j>>)' \in 0 .. (UpperVaddr - 1)
          /\ InEntry(SlotBase(<<q, j>>), q, j)'
    <3>1. \A q \in used_regions' :
            /\ ghost_pt'[q].layer \in Layers /\ ghost_pt'[q].base \in Nat
            /\ ghost_pt'[q].base + NumEntries * EntrySize[ghost_pt'[q].layer] <= UpperVaddr
      <4>1. \A q \in used_regions' :
              ghost_pt'[q].base + NumEntries * EntrySize[ghost_pt'[q].layer] <= UpperVaddr
        BY <1>8 DEF DirectoriesSpan
      <4>2. \A q \in used_regions : ghost_pt'[q].layer \in Layers /\ ghost_pt'[q].base \in Nat
        BY <1>3, PlacedDirectory
      <4>3. ghost_pt'[d].layer \in Layers /\ ghost_pt'[d].base \in Nat
        BY <1>1, <1>3
      <4> QED BY <1>3, <4>1, <4>2, <4>3
    <3> QED BY <3>1, EntryBegins DEF SlotBase, InEntry
  <2> QED BY <2>2, <2>3 DEF LeavesAreDisjoint
<1> QED BY <1>7, <1>8, <1>9, <1>10, <1>11 DEF TreeInv

\* No directory is referred to by two entries.
LEMMA OneParent ==
  ASSUME TypeOK, TreeInv,
         NEW r \in used_regions, NEW i \in EntryIndices, IsDirAt(r, i),
         NEW q \in used_regions, NEW j \in EntryIndices, IsDirAt(q, j),
         view_at(r, i).addr = view_at(q, j).addr
  PROVE  r = q /\ i = j
<1> DEFINE d == view_at(r, i).addr
<1>1. d \in used_regions \ {CR3}
  BY DirEntry
<1>2. PICK s \in used_regions \X EntryIndices :
        \A t \in used_regions \X EntryIndices :
          IsDirAt(t[1], t[2]) /\ view_at(t[1], t[2]).addr = d => t = s
  BY <1>1 DEF TreeInv, DirectoriesFormTree
<1>3. ASSUME NEW x \in used_regions, NEW k \in EntryIndices,
             IsDirAt(x, k), view_at(x, k).addr = d
      PROVE  <<x, k>> = s
  <2>1. <<x, k>> \in used_regions \X EntryIndices /\ <<x, k>>[1] = x /\ <<x, k>>[2] = k
    OBVIOUS
  <2> QED BY <1>2, <1>3, <2>1
<1>4. <<r, i>> = s /\ <<q, j>> = s
  BY <1>3
<1> QED BY <1>4

\* The unlink of unmap, l2_impl.rs:2178: the entry that refers to the empty
\* directory d is cleared and d leaves the tree.
LEMMA UnlinkKeepsTree ==
  ASSUME TypeOK, TreeInv, NEW p \in used_regions, NEW n \in EntryIndices,
         IsDirAt(p, n), NEW d, d = view_at(p, n).addr, is_directory_empty(d),
         write(p, n, ZeroEntry), ghost_pt' = map_remove(ghost_pt, d)
  PROVE  TreeInv'
<1> DEFINE l == ghost_pt[p].layer
           b == entry_base(l, ghost_pt[p].base, n)
<1>1. /\ p \in Regions /\ d \in used_regions /\ p # d /\ d # CR3
      /\ l \in Layers /\ l + 1 \in Layers /\ l # LastLayer
      /\ ghost_pt[p].base \in Nat /\ b \in Nat
      /\ ghost_pt[d] = [layer |-> l + 1, base |-> b]
  <2>1. l \in Layers /\ ghost_pt[p].base \in Nat /\ p \in Regions
    BY PlacedDirectory
  <2>2. /\ d \in used_regions /\ d # CR3 /\ l # LastLayer /\ l + 1 \in Layers
        /\ ghost_pt[d] = [layer |-> l + 1, base |-> b]
    BY DirEntry
  <2>3. l + 1 # l
    BY <2>1 DEF Layers
  <2>4. b \in Nat
    BY <2>1, EntryInSpan
  <2> QED BY <2>1, <2>2, <2>3, <2>4
<1>2. ZeroEntry \in PDE /\ ~ZeroEntry.P
  BY DEF PDE, PageDirectoryEntry, ZeroEntry, zero_entry
<1>3. /\ used_regions' = used_regions \ {d}
      /\ \A r \in used_regions \ {d} : ghost_pt'[r] = ghost_pt[r]
  BY RemoveFacts DEF used_regions
<1>4. \A r \in used_regions : \A i \in EntryIndices :
        region_view'[r][i] = IF r = p /\ i = n THEN ZeroEntry ELSE region_view[r][i]
  <2>1. \A r \in Regions : \A i \in EntryIndices :
          region_view'[r][i] = IF r = p /\ i = n THEN ZeroEntry ELSE region_view[r][i]
    BY <1>1, <1>2, WriteEntry
  <2> QED BY <2>1 DEF TypeOK
<1>5. \A i \in EntryIndices : ~region_view[d][i].P
  BY DEF is_directory_empty
<1>6. \A r \in used_regions \ {d} : \A i \in EntryIndices :
        IsDirAt(r, i)' <=> (IsDirAt(r, i) /\ ~(r = p /\ i = n))
  BY <1>2, <1>3, <1>4
<1>7. \A r \in used_regions : \A i \in EntryIndices :
        IsDirAt(r, i) /\ view_at(r, i).addr = d => r = p /\ i = n
  BY OneParent
<1> HIDE DEF b, l
<1>8. DirectoriesFormTree'
  <2>1. contains_pair(ghost_pt, CR3, [layer |-> 0, base |-> 0])'
    BY <1>1, <1>3 DEF TreeInv, DirectoriesFormTree, contains_pair, used_regions
  <2>2. ASSUME NEW r \in used_regions', NEW i \in EntryIndices, IsDirAt(r, i)'
        PROVE  contains_pair(ghost_pt, view_at(r, i).addr,
                 [layer |-> ghost_pt[r].layer + 1, base |-> SlotBase(<<r, i>>)])'
    <3>1. r \in used_regions /\ r # d /\ IsDirAt(r, i) /\ ~(r = p /\ i = n)
      BY <1>3, <1>6, <2>2
    <3>2. view_at(r, i)' = view_at(r, i) /\ view_at(r, i).addr # d
      BY <1>4, <1>7, <3>1
    <3>3. contains_pair(ghost_pt, view_at(r, i).addr,
            [layer |-> ghost_pt[r].layer + 1, base |-> SlotBase(<<r, i>>)])
      BY <3>1 DEF TreeInv, DirectoriesFormTree
    <3> QED BY <1>3, <3>1, <3>2, <3>3 DEF contains_pair, SlotBase, used_regions
  <2>3. ASSUME NEW r \in used_regions' \ {CR3}
        PROVE  \E s \in used_regions' \X EntryIndices :
                 /\ IsDirAt(s[1], s[2])' /\ view_at(s[1], s[2])'.addr = r
                 /\ \A t \in used_regions' \X EntryIndices :
                      IsDirAt(t[1], t[2])' /\ view_at(t[1], t[2])'.addr = r => t = s
    <3>1. PICK s \in used_regions \X EntryIndices :
            /\ IsDirAt(s[1], s[2]) /\ view_at(s[1], s[2]).addr = r
            /\ \A t \in used_regions \X EntryIndices :
                 IsDirAt(t[1], t[2]) /\ view_at(t[1], t[2]).addr = r => t = s
      BY <1>3 DEF TreeInv, DirectoriesFormTree
    <3>2. s[1] # d /\ ~(s[1] = p /\ s[2] = n)
      BY <1>3, <1>5, <3>1
    <3>3. /\ s \in used_regions' \X EntryIndices
          /\ IsDirAt(s[1], s[2])' /\ view_at(s[1], s[2])'.addr = r
      BY <1>3, <1>4, <1>6, <3>1, <3>2
    <3>4. ASSUME NEW t \in used_regions' \X EntryIndices,
                 IsDirAt(t[1], t[2])', view_at(t[1], t[2])'.addr = r
          PROVE  t = s
      <4>1. /\ t \in used_regions \X EntryIndices /\ t[1] # d /\ IsDirAt(t[1], t[2])
            /\ ~(t[1] = p /\ t[2] = n)
        BY <1>3, <1>6, <3>4
      <4> QED BY <1>4, <3>1, <3>4, <4>1
    <3> QED BY <3>3, <3>4
  <2> QED BY <2>1, <2>2, <2>3 DEF DirectoriesFormTree
<1>9. DirectoriesSpan'
  BY <1>3 DEF TreeInv, DirectoriesSpan
<1>10. EntriesAreFilled'
  BY <1>2, <1>3, <1>4, <1>6 DEF TreeInv, EntriesAreFilled
<1>11. PagesAreWellPlaced'
  <2>1. ASSUME NEW s \in Slots'
        PROVE  s \in Slots /\ s[1] \in used_regions \ {d} /\ ~(s[1] = p /\ s[2] = n)
    BY <1>2, <1>3, <1>4, <2>1 DEF Slots, used_regions
  <2> QED BY <1>3, <1>4, <2>1 DEF TreeInv, PagesAreWellPlaced, Slots, used_regions
<1>12. LeavesAreDisjoint'
  \* What (p, n) stands for was divided among the entries of d before.
  <2>1. ASSUME NEW v \in 0 .. (UpperVaddr - 1), InEntry(v, p, n)
        PROVE  \E k \in EntryIndices : ~IsDirAt(d, k) /\ InEntry(v, d, k)
    <3> DEFINE k == index_for_vaddr(l + 1, b, v)
    <3>1. between(v, b, b + NumEntries * EntrySize[l + 1])
      BY <1>1, <2>1, SizeFacts DEF InEntry, l, b
    <3>2. /\ k \in EntryIndices
          /\ between(v, entry_base(l + 1, b, k), entry_base(l + 1, b, k) + EntrySize[l + 1])
      BY <1>1, <3>1, IndexInSpan
    <3>3. ~IsDirAt(d, k) /\ InEntry(v, d, k)
      BY <1>1, <1>5, <3>2 DEF InEntry
    <3> QED BY <3>2, <3>3
  <2>2. ASSUME NEW v \in 0 .. (UpperVaddr - 1), NEW r \in used_regions', NEW i \in EntryIndices,
               ~IsDirAt(r, i)', InEntry(v, r, i)', InEntry(v, p, n)
        PROVE  r = p /\ i = n
    <3>1. r \in used_regions \ {d} /\ InEntry(v, r, i)
      BY <1>3, <2>2 DEF InEntry
    <3>2. PICK k \in EntryIndices : ~IsDirAt(d, k) /\ InEntry(v, d, k)
      BY <2>1, <2>2
    <3>3. IsDirAt(r, i)
      BY <1>1, <3>1, <3>2, OneWalkEnd
    <3> QED BY <1>6, <2>2, <3>1, <3>3
  <2>3. ASSUME NEW v \in 0 .. (UpperVaddr - 1),
               NEW r \in used_regions', NEW q \in used_regions',
               NEW i \in EntryIndices, NEW j \in EntryIndices,
               ~IsDirAt(r, i)', InEntry(v, r, i)', ~IsDirAt(q, j)', InEntry(v, q, j)'
        PROVE  r = q /\ i = j
    <3>1. /\ r \in used_regions \ {d} /\ InEntry(v, r, i)
          /\ q \in used_regions \ {d} /\ InEntry(v, q, j)
      BY <1>3, <2>3 DEF InEntry
    <3>2. CASE (r = p /\ i = n) \/ (q = p /\ j = n)
      BY <2>2, <2>3, <3>1, <3>2
    <3>3. CASE ~(r = p /\ i = n) /\ ~(q = p /\ j = n)
      BY <1>6, <2>3, <3>1, <3>3, OneWalkEnd
    <3> QED BY <3>2, <3>3
  <2>4. \A q \in used_regions' : \A j \in EntryIndices :
          /\ SlotBase(<<q, j>>)' \in 0 .. (UpperVaddr - 1)
          /\ InEntry(SlotBase(<<q, j>>), q, j)'
    <3>1. \A q \in used_regions' :
            /\ ghost_pt'[q].layer \in Layers /\ ghost_pt'[q].base \in Nat
            /\ ghost_pt'[q].base + NumEntries * EntrySize[ghost_pt'[q].layer] <= UpperVaddr
      BY <1>3, <1>9, PlacedDirectory DEF DirectoriesSpan
    <3> QED BY <3>1, EntryBegins DEF SlotBase, InEntry
  <2> QED BY <2>3, <2>4 DEF LeavesAreDisjoint
<1> QED BY <1>8, <1>9, <1>10, <1>11, <1>12 DEF TreeInv

(***************************************************************************)
(* The frames of a running call.                                           *)
(***************************************************************************)

\* The inductive invariant holds what the walks rest on.
LEMMA InvWalks == (IInv => WalkInv) /\ (IInv' => WalkInv')
BY DEF IInv, RunInv, CallInv, WalkInv

\* The frame a call stands in: its directory is linked at the frame's layer and
\* base, and the entry it looks at is the one for the address.
LEMMA CurrentFrame ==
  ASSUME WalkInv, pc # "idle", call.vaddr \in Nat, call.vaddr < UpperVaddr
  PROVE  /\ ptr \in used_regions /\ idx \in EntryIndices
         /\ layer \in Layers /\ path[layer].base \in Nat
         /\ ghost_pt[ptr] = [layer |-> layer, base |-> path[layer].base]
         /\ InEntry(call.vaddr, ptr, idx)
<1>1. layer \in Layers /\ path \in [Layers -> [ptr : Regions, base : Nat]]
  BY DEF WalkInv, TypeOK
<1>2. layer \in 0 .. layer
  BY <1>1 DEF Layers
<1>3. /\ contains_pair(ghost_pt, path[layer].ptr, [layer |-> layer, base |-> path[layer].base])
      /\ between(call.vaddr, path[layer].base, path[layer].base + NumEntries * EntrySize[layer])
  BY <1>2 DEF WalkInv, PathIsChain
<1>4. path[layer].base \in Nat
  BY <1>1
<1>5. ptr \in used_regions /\ ghost_pt[ptr] = [layer |-> layer, base |-> path[layer].base]
  BY <1>3 DEF contains_pair, used_regions, ptr
<1>6. /\ idx \in EntryIndices
      /\ between(call.vaddr, entry_base(layer, path[layer].base, idx),
                 entry_base(layer, path[layer].base, idx) + EntrySize[layer])
  BY <1>1, <1>3, <1>4, IndexInSpan DEF idx
<1>7. InEntry(call.vaddr, ptr, idx)
  BY <1>5, <1>6 DEF InEntry
<1> QED BY <1>1, <1>4, <1>5, <1>6, <1>7

\* The frames of the recursion above the current one: the entry for the address
\* refers to the directory of the next frame.
LEMMA UpperFrame ==
  ASSUME WalkInv, pc # "idle", call.vaddr \in Nat, call.vaddr < UpperVaddr, NEW l \in 0 .. (layer - 1)
  PROVE  /\ l \in Layers /\ l + 1 \in 0 .. layer /\ l \in 0 .. layer
         /\ path[l].ptr \in used_regions /\ path[l].base \in Nat
         /\ ghost_pt[path[l].ptr] = [layer |-> l, base |-> path[l].base]
         /\ path[l].ptr # ptr
         /\ index_for_vaddr(l, path[l].base, call.vaddr) \in EntryIndices
         /\ IsDirAt(path[l].ptr, index_for_vaddr(l, path[l].base, call.vaddr))
         /\ view_at(path[l].ptr, index_for_vaddr(l, path[l].base, call.vaddr)).addr = path[l + 1].ptr
<1>1. layer \in Layers /\ path \in [Layers -> [ptr : Regions, base : Nat]]
  BY DEF WalkInv, TypeOK
<1>2. l \in 0 .. layer /\ l \in Layers /\ l + 1 \in 0 .. layer /\ l # layer
  BY <1>1, ArchInv DEF Layers
<1>3. /\ contains_pair(ghost_pt, path[l].ptr, [layer |-> l, base |-> path[l].base])
      /\ between(call.vaddr, path[l].base, path[l].base + NumEntries * EntrySize[l])
  BY <1>2 DEF WalkInv, PathIsChain
<1>4. path[l].base \in Nat
  BY <1>1, <1>2
<1>5. path[l].ptr \in used_regions /\ ghost_pt[path[l].ptr] = [layer |-> l, base |-> path[l].base]
  BY <1>3 DEF contains_pair, used_regions
<1>6. path[l].ptr # ptr
  BY <1>2, <1>5, CurrentFrame
<1>7. index_for_vaddr(l, path[l].base, call.vaddr) \in EntryIndices
  BY <1>2, <1>3, <1>4, IndexInSpan
<1>8. /\ IsDirAt(path[l].ptr, index_for_vaddr(l, path[l].base, call.vaddr))
      /\ view_at(path[l].ptr, index_for_vaddr(l, path[l].base, call.vaddr)).addr = path[l + 1].ptr
  BY DEF WalkInv, PathIsChain
<1> QED BY <1>2, <1>4, <1>5, <1>6, <1>7, <1>8

\* The address of a call is inside the address space, but for a resolve that
\* has not left the root.
LEMMA CallInRange ==
  ASSUME WalkInv, pc # "idle", pc # "resolve" \/ layer > 0
  PROVE  call.vaddr \in Nat /\ call.vaddr < UpperVaddr
<1>1. CASE pc \in {"map", "link"}
  <2>1. call.vaddr \in Nat /\ call.vaddr + call.pte.frame.size <= UpperVaddr
    BY <1>1, ImplAssumption DEF WalkInv, ArgsInv
  <2>2. \E l \in Layers : call.pte.frame.size = EntrySize[l]
    BY <1>1 DEF WalkInv, ArgsInv
  <2>3. call.pte.frame.size \in Nat \ {0}
    BY <2>2, SizeFacts
  <2> QED BY <2>1, <2>3, GeometryFacts
<1>2. CASE pc \in {"unmap", "cleanup", "resolve"}
  BY <1>2, ImplAssumption DEF WalkInv, ArgsInv
<1> QED BY <1>1, <1>2 DEF WalkInv, TypeOK

\* Only the directory a map or an unmap stands in may be empty.
LEMMA OnlyCurrentEmpty ==
  ASSUME IInv, NEW r \in used_regions \ {CR3}, is_directory_empty(r)
  PROVE  pc \in {"map", "link", "cleanup"} /\ r = ptr /\ layer > 0
<1>1. pc \in {"map", "link", "cleanup"}
  BY DEF IInv, RunInv, NoEmptyDirectories
<1>2. PICK l \in 1 .. layer : path[l].ptr = r
  BY DEF IInv, RunInv, NoEmptyDirectories
<1>3. call.vaddr \in Nat /\ call.vaddr < UpperVaddr
  BY <1>1, InvWalks, CallInRange
<1>4. layer \in Nat
  BY DEF IInv, TypeOK, Layers
<1>5. CASE l = layer
  BY <1>1, <1>2, <1>4, <1>5 DEF ptr
<1>6. CASE l # layer
  <2>1. l \in 0 .. (layer - 1)
    BY <1>4, <1>6
  <2>2. /\ index_for_vaddr(l, path[l].base, call.vaddr) \in EntryIndices
        /\ IsDirAt(path[l].ptr, index_for_vaddr(l, path[l].base, call.vaddr))
    BY <1>1, <1>3, <2>1, InvWalks, UpperFrame
  <2> QED BY <1>2, <2>2 DEF is_directory_empty
<1> QED BY <1>5, <1>6

\* A step that leaves memory alone keeps the tree.
LEMMA ReadOnlyKeepsTree ==
  ASSUME TreeInv, UNCHANGED memVars
  PROVE  TreeInv'
BY DEF memVars, TreeInv, DirectoriesFormTree, DirectoriesSpan, EntriesAreFilled,
       PagesAreWellPlaced, LeavesAreDisjoint, InEntry, Slots, SlotBase, used_regions

(***************************************************************************)
(* Calls begin, return and go down.                                        *)
(***************************************************************************)

\* The empty page table satisfies the inductive invariant, whatever its root
\* page holds besides the bit that makes an entry present.
LEMMA EmptyRootEstablishes ==
  ASSUME NEW root \in [EntryIndices -> PDE], \A i \in EntryIndices : ~root[i].P,
         InitWith(root)
  PROVE  IInv
<1>1. used_regions = {CR3} /\ ghost_pt[CR3] = [layer |-> 0, base |-> 0]
  BY DEF InitWith, used_regions
<1>2. JunkEntry \in PDE
  BY DEF PDE, PageDirectoryEntry, ZeroEntry, JunkEntry, zero_entry
<1>3. /\ region_view \in [Regions -> [EntryIndices -> PDE]]
      /\ \A i \in EntryIndices : ~region_view[CR3][i].P
  <2> HIDE DEF PDE
  <2> QED BY <1>2, ImplAssumption DEF InitWith, JunkPage
<1>4. TypeOK
  <2>1. path \in [Layers -> [ptr : Regions, base : Nat]]
    BY ImplAssumption DEF InitWith, RootFrame
  <2>2. ghost_pt \in [used_regions -> [layer : Layers, base : Nat]]
    BY SizeFacts, <1>1 DEF InitWith
  <2> QED BY <1>1, <1>3, <2>1, <2>2, SizeFacts, ImplAssumption DEF InitWith, TypeOK, PDE
<1>5. DirectoriesFormTree
  BY <1>1, <1>2, <1>3 DEF DirectoriesFormTree, contains_pair, used_regions
<1>6. DirectoriesSpan
  <2>1. NumEntries * EntrySize[0] \in Nat \ {0}
    BY SizeFacts
  <2>2. aligned(0, NumEntries * EntrySize[0])
    BY <2>1 DEF aligned
  <2> QED BY <1>1, <2>1, <2>2, SizeFacts DEF DirectoriesSpan
<1>7. EntriesAreFilled /\ PagesAreWellPlaced
  BY <1>1, <1>2, <1>3 DEF EntriesAreFilled, PagesAreWellPlaced, Slots, used_regions
<1>8. LeavesAreDisjoint
  <2> SUFFICES ASSUME NEW i \in EntryIndices, NEW j \in EntryIndices,
                      InEntry(entry_base(0, 0, j), CR3, i)
               PROVE  i = j
    BY <1>1 DEF LeavesAreDisjoint, SlotBase
  <2> DEFINE v == entry_base(0, 0, j)
  <2>1. v \in 0 .. (UpperVaddr - 1) /\ between(v, v, v + EntrySize[0])
    BY <1>1, <1>6, EntryBegins, SizeFacts DEF DirectoriesSpan
  <2>2. between(v, entry_base(0, 0, i), entry_base(0, 0, i) + EntrySize[0])
    BY <1>1 DEF InEntry
  <2> HIDE DEF v
  <2>3. i = index_for_vaddr(0, 0, v) /\ j = index_for_vaddr(0, 0, v)
    <3>1. j = index_for_vaddr(0, 0, v)
      BY <2>1, IndexOfEntry, SizeFacts DEF v
    <3> QED BY <2>1, <2>2, <3>1, IndexOfEntry, SizeFacts
  <2> QED BY <2>3
<1>9. RunInv
  <2>1. pc = "idle" /\ layer = 0 /\ path[0] = RootFrame
    BY SizeFacts DEF InitWith
  <2> QED BY <1>1, <2>1 DEF RunInv, CallInv, ArgsInv, PathIsChain, NoEmptyDirectories, LinkInv,
              BufferInv, NothingWritten
<1> QED BY <1>4, <1>5, <1>6, <1>7, <1>8, <1>9 DEF IInv, TreeInv

\* The root page is zeroed.
LEMMA InitEstablishes == Init => IInv
<1>1. ZeroPage \in [EntryIndices -> PDE] /\ \A i \in EntryIndices : ~ZeroPage[i].P
  BY DEF PDE, PageDirectoryEntry, ZeroPage, ZeroEntry, zero_entry
<1> QED BY <1>1, EmptyRootEstablishes DEF Init

\* A call begins at the root.
LEMMA BeginKeepsWalk ==
  ASSUME WalkInv, NEW label \in {"map", "unmap", "resolve"}, NEW c, Begin(label, c),
         ArgsInv'
  PROVE  WalkInv' /\ layer = 0
<1>1. /\ pc = "idle" /\ pc' = label /\ call' = c
      /\ UNCHANGED <<region_view, regions, ghost_pt, layer, path, new_dir>>
      /\ old' = [region_view |-> region_view, regions |-> regions]
  BY DEF Begin, memVars
<1>2. layer = 0 /\ path[0] = RootFrame
  BY <1>1 DEF WalkInv, ArgsInv
<1>3. TypeOK'
  BY <1>1 DEF WalkInv, TypeOK, used_regions
<1>4. TreeInv'
  BY <1>1, ReadOnlyKeepsTree DEF WalkInv, memVars
<1>5. PathIsChain'
  <2>1. contains_pair(ghost_pt, CR3, [layer |-> 0, base |-> 0])
    BY DEF WalkInv, TreeInv, DirectoriesFormTree
  <2>2. call'.vaddr < UpperVaddr =>
          between(call'.vaddr, 0, 0 + NumEntries * EntrySize[0])
    <3>1. call'.vaddr \in Nat
      BY <1>1, ImplAssumption DEF ArgsInv
    <3> QED BY <3>1, SizeFacts DEF between
  <2> QED BY <1>1, <1>2, <2>1, <2>2 DEF PathIsChain, RootFrame
<1>6. LinkInv'
  BY <1>1 DEF LinkInv
<1> QED BY <1>1, <1>2, <1>3, <1>4, <1>5, <1>6 DEF WalkInv

\* It finds no empty directories.
LEMMA BeginKeepsInv ==
  ASSUME IInv, NEW label \in {"map", "unmap", "resolve"}, NEW c, Begin(label, c),
         CallInv', label = "map" => Cardinality(Regions \ regions) >= ReservePages
  PROVE  IInv'
<1>1. /\ pc = "idle" /\ pc' = label /\ call' = c
      /\ UNCHANGED <<region_view, regions, ghost_pt, layer, path, new_dir>>
      /\ old' = [region_view |-> region_view, regions |-> regions]
  BY DEF Begin, memVars
<1>2. WalkInv' /\ layer = 0
  BY InvWalks, BeginKeepsWalk DEF CallInv
<1>3. NoEmptyDirectories'
  <2>1. \A r \in used_regions \ {CR3} : ~is_directory_empty(r)
    BY <1>1, OnlyCurrentEmpty
  <2> QED BY <1>1, <2>1 DEF NoEmptyDirectories, is_directory_empty, used_regions
<1>4. NothingWritten'
  BY <1>1 DEF NothingWritten
<1>5. BufferInv'
  <2>1. IsFiniteSet(Regions \ regions)
    BY ImplAssumption, FS_Difference
  <2>2. Cardinality(Regions \ regions) \in Nat
    BY <2>1, FS_CardinalityType
  <2> QED BY <1>1, <1>2, <2>2, ImplAssumption, BuffersAssumption, ArchInv DEF BufferInv
<1> QED BY <1>2, <1>3, <1>4, <1>5 DEF IInv, RunInv, WalkInv

\* A call returns.
LEMMA ReturnKeepsWalk ==
  ASSUME Return, TypeOK', TreeInv'
  PROVE  WalkInv'
<1>1. pc' = "idle" /\ layer' = 0 /\ path' = [l \in Layers |-> RootFrame]
  BY DEF Return
<1>2. path'[0] = RootFrame
  BY <1>1, SizeFacts
<1> QED BY <1>1, <1>2 DEF WalkInv, ArgsInv, PathIsChain, LinkInv

\* No directory it leaves behind is empty.
LEMMA ReturnKeepsInv ==
  ASSUME IInv, Return, TypeOK', TreeInv',
         \A r \in used_regions' \ {CR3} : ~is_directory_empty(r)'
  PROVE  IInv'
<1>1. pc' = "idle"
  BY DEF Return
<1>2. WalkInv'
  BY ReturnKeepsWalk
<1> QED BY <1>1, <1>2 DEF IInv, RunInv, WalkInv, CallInv, NoEmptyDirectories, BufferInv,
                          NothingWritten

\* A step that returns has typed variables afterwards.
LEMMA ReturnType ==
  ASSUME TypeOK, Return, UNCHANGED <<regions, ghost_pt>>,
         region_view' \in [Regions -> [EntryIndices -> PDE]]
  PROVE  TypeOK'
<1>1. /\ pc' = "idle" /\ layer' = 0 /\ path' = [l \in Layers |-> RootFrame]
      /\ new_dir' = new_dir
  BY DEF Return
<1>2. RootFrame \in [ptr : Regions, base : Nat]
  BY ImplAssumption DEF RootFrame
<1> QED BY <1>1, <1>2, SizeFacts DEF TypeOK, PDE, used_regions

\* A call that returns without a write of its own.
LEMMA QuietReturnKeepsWalk ==
  ASSUME WalkInv, Return, UNCHANGED memVars
  PROVE  WalkInv'
<1>1. UNCHANGED <<region_view, regions, ghost_pt>>
  BY DEF memVars
<1>2. TypeOK'
  BY <1>1, ReturnType DEF WalkInv, TypeOK, PDE
<1>3. TreeInv'
  BY ReadOnlyKeepsTree DEF WalkInv
<1> QED BY <1>2, <1>3, ReturnKeepsWalk

\* It stands in no empty directory but the root.
LEMMA QuietReturnKeepsInv ==
  ASSUME IInv, Return, UNCHANGED memVars,
         pc \notin {"map", "link", "cleanup"} \/ ptr = CR3 \/ ~is_directory_empty(ptr)
  PROVE  IInv'
<1>1. UNCHANGED <<region_view, regions, ghost_pt>>
  BY DEF memVars
<1>2. TypeOK' /\ TreeInv'
  BY InvWalks, QuietReturnKeepsWalk DEF WalkInv
<1>3. \A r \in used_regions \ {CR3} : ~is_directory_empty(r)
  BY OnlyCurrentEmpty
<1>4. \A r \in used_regions' \ {CR3} : ~is_directory_empty(r)'
  BY <1>1, <1>3 DEF used_regions, is_directory_empty
<1> QED BY <1>2, <1>4, ReturnKeepsInv

\* The recursive call of map_frame_aux, unmap_aux and resolve_aux: the frames
\* with the new one stay a chain of linked directories.
LEMMA EnterKeepsChain ==
  ASSUME WalkInv, pc # "idle", pc' # "idle", call' = call,
         call.vaddr \in Nat, call.vaddr < UpperVaddr, layer # LastLayer,
         NEW d \in Regions, Enter(d),
         \A r \in used_regions : r \in used_regions' /\ ghost_pt'[r] = ghost_pt[r],
         \A l \in 0 .. (layer - 1) : region_view'[path[l].ptr] = region_view[path[l].ptr],
         region_view'[ptr][idx].P, ~region_view'[ptr][idx].PS,
         region_view'[ptr][idx].addr = d,
         contains_pair(ghost_pt', d,
           [layer |-> layer + 1, base |-> entry_base(layer, path[layer].base, idx)])
  PROVE  /\ PathIsChain'
         /\ layer' = layer + 1 /\ layer' \in Layers
         /\ path' \in [Layers -> [ptr : Regions, base : Nat]]
         /\ path'[layer + 1] = [ptr |-> d, base |-> entry_base(layer, path[layer].base, idx)]
<1> DEFINE b == entry_base(layer, path[layer].base, idx)
<1>1. /\ layer \in Layers /\ path[layer].base \in Nat /\ idx \in EntryIndices
      /\ path \in [Layers -> [ptr : Regions, base : Nat]]
      /\ ptr \in used_regions
      /\ ghost_pt[ptr] = [layer |-> layer, base |-> path[layer].base]
      /\ InEntry(call.vaddr, ptr, idx)
  BY CurrentFrame DEF WalkInv, TypeOK
<1>2. layer + 1 \in Layers /\ layer + 1 \in Nat /\ layer \in Nat
  BY <1>1, SizeFacts DEF Layers
<1>3. b \in Nat /\ between(call.vaddr, b, b + EntrySize[layer])
  BY <1>1, EntryInSpan DEF InEntry
<1>4. layer' = layer + 1 /\ path' = [path EXCEPT ![layer + 1] = [ptr |-> d, base |-> b]]
  BY DEF Enter
<1>5. /\ \A l \in Layers : l # layer + 1 => path'[l] = path[l]
      /\ path'[layer + 1] = [ptr |-> d, base |-> b]
      /\ path' \in [Layers -> [ptr : Regions, base : Nat]]
  BY <1>1, <1>2, <1>3, <1>4
<1> HIDE DEF b
<1>6. path'[0] = RootFrame
  <2>1. 0 \in Layers /\ 0 # layer + 1
    BY <1>2, SizeFacts
  <2> QED BY <1>5, <2>1 DEF WalkInv, PathIsChain
<1>7. ASSUME NEW l \in 0 .. layer'
      PROVE  /\ contains_pair(ghost_pt', path'[l].ptr, [layer |-> l, base |-> path'[l].base])
             /\ between(call.vaddr, path'[l].base, path'[l].base + NumEntries * EntrySize[l])
  <2>1. CASE l = layer + 1
    <3>1. NumEntries * EntrySize[layer + 1] = EntrySize[layer]
      BY <1>1, SizeFacts
    <3> QED BY <1>3, <1>5, <2>1, <3>1 DEF b
  <2>2. CASE l # layer + 1
    <3>0. l \in 0 .. (layer + 1) /\ layer <= LastLayer
      BY <1>1, <1>4, SizeFacts
    <3>a. l \in Int /\ 0 <= l /\ l <= layer
      BY <3>0, <1>2, <2>2
    <3>1. l \in 0 .. layer /\ l \in Layers
      BY <3>a, <3>0, <1>2, ArchInv DEF Layers
    <3>2. path'[l] = path[l]
      BY <1>5, <2>2, <3>1
    <3>3. /\ contains_pair(ghost_pt, path[l].ptr, [layer |-> l, base |-> path[l].base])
          /\ between(call.vaddr, path[l].base, path[l].base + NumEntries * EntrySize[l])
      BY <3>1 DEF WalkInv, PathIsChain
    <3> QED BY <3>2, <3>3 DEF contains_pair, used_regions
  <2> QED BY <2>1, <2>2
<1>8. ASSUME NEW l \in 0 .. (layer' - 1)
      PROVE  LET p == path'[l].ptr
                 i == index_for_vaddr(l, path'[l].base, call.vaddr)
             IN  /\ region_view'[p][i].P
                 /\ ~(ghost_pt'[p].layer = LastLayer \/ region_view'[p][i].PS)
                 /\ region_view'[p][i].addr = path'[l + 1].ptr
  <2> DEFINE i == index_for_vaddr(l, path[l].base, call.vaddr)
  <2>1. l \in 0 .. layer /\ l \in Layers /\ l # layer + 1 /\ path'[l] = path[l]
    <3>1. l \in 0 .. layer /\ l # layer + 1
      BY <1>2, <1>4
    <3>2. l \in Layers
      BY <1>1, <3>1, ArchInv DEF Layers
    <3> QED BY <1>5, <3>1, <3>2
  <2>2. CASE l = layer
    <3>1. i = idx /\ path[l].ptr = ptr
      BY <2>2 DEF idx, ptr
    <3>2. ghost_pt'[ptr].layer = layer
      BY <1>1
    <3> QED BY <1>5, <2>1, <2>2, <3>1, <3>2
  <2>3. CASE l # layer
    <3>1. l \in 0 .. (layer - 1) /\ l + 1 \in Layers /\ l + 1 # layer + 1
      <4> HIDE DEF i
      <4>1. layer \in Nat /\ layer <= LastLayer /\ LastLayer \in Nat
        BY <1>2, ArchInv DEF Layers
      <4>2. l \in Nat /\ l <= layer /\ l # layer
        BY <2>1, <2>3, <4>1
      <4>3. l + 1 <= layer
        BY <4>1, <4>2
      <4> QED BY <4>1, <4>2, <4>3 DEF Layers
    <3>2. /\ IsDirAt(path[l].ptr, i) /\ view_at(path[l].ptr, i).addr = path[l + 1].ptr
          /\ path[l].ptr \in used_regions
      BY <3>1, UpperFrame
    <3>3. path'[l + 1] = path[l + 1] /\ region_view'[path[l].ptr] = region_view[path[l].ptr]
      BY <1>5, <3>1
    <3>4. ghost_pt'[path[l].ptr] = ghost_pt[path[l].ptr]
      BY <3>2
    <3> QED BY <2>1, <3>2, <3>3, <3>4
  <2> QED BY <2>2, <2>3
<1>9. PathIsChain'
  BY <1>6, <1>7, <1>8 DEF PathIsChain
<1> QED BY <1>2, <1>4, <1>5, <1>9 DEF b

\* The precondition of Map in spec_pt.rs, in the words of the implementation.
LEMMA MapEnabled ==
  ASSUME NEW m, NEW vaddr, NEW pte
  PROVE  PT!step_Map_enabled(m, vaddr, pte) <=>
           /\ pte.frame.size \in PageSizes
           /\ aligned(vaddr, pte.frame.size)
           /\ aligned(pte.frame.base, pte.frame.size)
           /\ candidate_mapping_in_bounds(vaddr, pte)
           /\ ~candidate_mapping_overlaps_existing_pmem(m, vaddr, pte)
<1>1. PT!PageSizes = PageSizes /\ PT!UpperVaddr = UpperVaddr
  BY DEF PT!PageSizes, PageSizes, PT!Layers, Layers, PT!UpperVaddr, UpperVaddr,
         PT!entry_base, entry_base
<1>2. PT!candidate_mapping_overlaps_existing_pmem(m, vaddr, pte)
        <=> candidate_mapping_overlaps_existing_pmem(m, vaddr, pte)
  BY DEF PT!candidate_mapping_overlaps_existing_pmem,
         candidate_mapping_overlaps_existing_pmem, PT!overlap, overlap
<1> QED BY <1>1, <1>2 DEF PT!step_Map_enabled, PT!aligned, aligned,
             PT!candidate_mapping_in_bounds, candidate_mapping_in_bounds

\* The precondition of Unmap in spec_pt.rs, in the words of the implementation.
LEMMA UnmapEnabled ==
  ASSUME NEW vaddr
  PROVE  PT!step_Unmap_enabled(vaddr) <=>
           /\ between(vaddr, 0, UpperVaddr)
           /\ \E size \in PageSizes : aligned(vaddr, size)
<1>1. PT!PageSizes = PageSizes /\ PT!UpperVaddr = UpperVaddr
  BY DEF PT!PageSizes, PageSizes, PT!Layers, Layers, PT!UpperVaddr, UpperVaddr,
         PT!entry_base, entry_base
<1> QED BY <1>1 DEF PT!step_Unmap_enabled, PT!aligned, aligned, PT!between, between

\* The entries of zeroed pages and of pages never allocated.
LEMMA ConstantEntries ==
  /\ ZeroEntry \in PDE /\ JunkEntry \in PDE
  /\ ~ZeroEntry.P /\ JunkEntry.P /\ JunkEntry.PS
<1>1. ZeroEntry \in PDE /\ ~ZeroEntry.P
  BY DEF PDE, PageDirectoryEntry, ZeroEntry, zero_entry
<1>2. JunkEntry \in PDE /\ JunkEntry.P /\ JunkEntry.PS
  BY DEF PDE, PageDirectoryEntry, ZeroEntry, zero_entry, JunkEntry
<1> QED BY <1>1, <1>2

\* A page in bounds ends within the address space.
LEMMA InBoundsFits ==
  ASSUME NEW vaddr \in Nat, NEW pte \in PageTableEntry, candidate_mapping_in_bounds(vaddr, pte)
  PROVE  vaddr + pte.frame.size <= UpperVaddr
<1>1. pte.frame.size \in Nat /\ UpperVaddr \in Nat
  BY EntryFacts, GeometryFacts
<1> QED BY <1>1 DEF candidate_mapping_in_bounds

\* map_frame is called.
LEMMA CallMapKeepsInv ==
  ASSUME IInv, NEW vaddr \in VAddrs, NEW pte \in PTEs, CallMap(vaddr, pte)
  PROVE  IInv'
<1> DEFINE c == [op |-> "Map", vaddr |-> vaddr, pte |-> pte]
<1>1. /\ PT!step_Map_enabled(interp, vaddr, pte)
      /\ Cardinality(Regions \ regions) >= ReservePages
      /\ Begin("map", c)
  BY DEF CallMap
<1>2. pc' = "map" /\ call' = c /\ layer' = layer /\ layer = 0
  BY <1>1 DEF Begin, IInv, RunInv, CallInv, ArgsInv
<1>3. /\ pte.frame.size \in PageSizes
      /\ aligned(vaddr, pte.frame.size)
      /\ aligned(pte.frame.base, pte.frame.size)
      /\ candidate_mapping_in_bounds(vaddr, pte)
  BY <1>1, MapEnabled
<1>4. PICK l \in Layers \ {0} : pte.frame.size = EntrySize[l]
  BY <1>3 DEF PageSizes
<1>5. l >= 0
  BY SizeFacts
<1>6. vaddr + pte.frame.size <= UpperVaddr
  BY <1>3, InBoundsFits, ImplAssumption
<1>7. CallInv'
  BY <1>2, <1>3, <1>4, <1>5, <1>6 DEF CallInv, ArgsInv
<1> HIDE DEF c
<1> QED BY <1>1, <1>7, BeginKeepsInv

\* unmap is called.
LEMMA CallUnmapKeepsInv ==
  ASSUME IInv, NEW vaddr \in VAddrs, CallUnmap(vaddr)
  PROVE  IInv'
<1> DEFINE c == [op |-> "Unmap", vaddr |-> vaddr]
<1>1. Begin("unmap", c) /\ vaddr < UpperVaddr
  BY UnmapEnabled DEF CallUnmap, between
<1>2. pc' = "unmap" /\ call' = c
  BY <1>1 DEF Begin
<1>3. CallInv'
  BY <1>1, <1>2 DEF CallInv, ArgsInv
<1> HIDE DEF c
<1> QED BY <1>1, <1>3, BeginKeepsInv

\* resolve is called.
LEMMA CallResolveKeepsInv ==
  ASSUME IInv, NEW vaddr \in ResolveVAddrs, CallResolve(vaddr)
  PROVE  IInv'
<1> DEFINE c == [op |-> "Resolve", vaddr |-> vaddr]
<1>1. Begin("resolve", c)
  BY DEF CallResolve
<1>2. pc' = "resolve" /\ call' = c /\ layer' = layer /\ layer = 0
  BY <1>1 DEF Begin, IInv, RunInv, CallInv, ArgsInv
<1>3. CallInv'
  BY <1>2 DEF CallInv, ArgsInv
<1> HIDE DEF c
<1> QED BY <1>1, <1>3, BeginKeepsInv

\* A call follows an entry that refers to a directory.
LEMMA DescendKeepsWalk ==
  ASSUME WalkInv, pc \in {"map", "unmap", "resolve"},
         call.vaddr \in Nat, call.vaddr < UpperVaddr,
         is_mapping(entry), is_dir(layer, entry), Enter(entry.addr),
         pc = "map" => EntrySize[layer] # call.pte.frame.size,
         UNCHANGED <<memVars, pc, call, new_dir>>
  PROVE  WalkInv' /\ layer' = layer + 1
<1>1. UNCHANGED <<region_view, regions, ghost_pt, pc, call, new_dir>>
  BY DEF memVars
<1>2. /\ ptr \in used_regions /\ idx \in EntryIndices /\ layer \in Layers
      /\ ghost_pt[ptr] = [layer |-> layer, base |-> path[layer].base]
  BY CurrentFrame
<1>3. IsDirAt(ptr, idx) /\ entry = region_view[ptr][idx]
  BY <1>2 DEF entry
<1>4. /\ entry.addr \in used_regions /\ layer # LastLayer
      /\ ghost_pt[entry.addr] =
           [layer |-> layer + 1, base |-> entry_base(layer, path[layer].base, idx)]
  <2>1. /\ view_at(ptr, idx).addr \in used_regions
        /\ ghost_pt[view_at(ptr, idx).addr] =
             [layer |-> ghost_pt[ptr].layer + 1, base |-> SlotBase(<<ptr, idx>>)]
        /\ SlotBase(<<ptr, idx>>) = entry_base(ghost_pt[ptr].layer, ghost_pt[ptr].base, idx)
        /\ ghost_pt[ptr].layer # LastLayer
    BY <1>2, <1>3, DirEntry DEF WalkInv
  <2>2. ghost_pt[ptr].layer = layer /\ ghost_pt[ptr].base = path[layer].base
    BY <1>2
  <2> QED BY <1>3, <2>1, <2>2
<1>5. used_regions' = used_regions /\ used_regions \subseteq Regions
  BY <1>1 DEF used_regions, WalkInv, TypeOK
<1>6. /\ PathIsChain'
      /\ layer' = layer + 1 /\ layer' \in Layers
      /\ path' \in [Layers -> [ptr : Regions, base : Nat]]
  <2> DEFINE d == entry.addr
  <2>1. contains_pair(ghost_pt', d,
           [layer |-> layer + 1, base |-> entry_base(layer, path[layer].base, idx)])
    BY <1>1, <1>4 DEF contains_pair, used_regions
  <2>2. d \in Regions /\ Enter(d) /\ region_view'[ptr][idx].addr = d
    BY <1>1, <1>3, <1>4, <1>5
  <2>3. region_view'[ptr][idx].P /\ ~region_view'[ptr][idx].PS
    BY <1>1, <1>3
  <2>4. \A r \in used_regions : r \in used_regions' /\ ghost_pt'[r] = ghost_pt[r]
    BY <1>1, <1>5
  <2> HIDE DEF d
  <2> QED BY <1>1, <1>4, <2>1, <2>2, <2>3, <2>4, EnterKeepsChain
<1>7. TypeOK'
  BY <1>1, <1>5, <1>6 DEF WalkInv, TypeOK
<1>8. TreeInv'
  BY ReadOnlyKeepsTree DEF WalkInv
<1>9. layer \in Nat /\ LastLayer \in Nat
  BY <1>2, ArchInv DEF Layers
<1>10. ArgsInv'
  <2>1. CASE pc = "map"
    <3>1. /\ call.op = "Map" /\ call.vaddr \in VAddrs /\ call.pte \in PTEs
          /\ aligned(call.vaddr, call.pte.frame.size)
          /\ aligned(call.pte.frame.base, call.pte.frame.size)
          /\ call.vaddr + call.pte.frame.size <= UpperVaddr
      BY <2>1 DEF WalkInv, ArgsInv
    <3>2. PICK l \in Layers \ {0} : call.pte.frame.size = EntrySize[l] /\ l >= layer
      BY <2>1 DEF WalkInv, ArgsInv
    <3>3. l >= layer + 1
      <4>1. l \in Nat /\ l # layer
        BY <2>1, <3>2, SizeFacts
      <4> QED BY <1>9, <3>2, <4>1
    <3> QED BY <1>1, <1>6, <2>1, <3>1, <3>2, <3>3 DEF ArgsInv
  <2>2. CASE pc \in {"unmap", "resolve"}
    BY <1>1, <2>2 DEF WalkInv, ArgsInv
  <2> QED BY <2>1, <2>2
<1>11. LinkInv'
  BY <1>1 DEF LinkInv
<1> QED BY <1>6, <1>7, <1>8, <1>10, <1>11 DEF WalkInv

\* The directory it leaves is not empty.
LEMMA DescendKeepsInv ==
  ASSUME IInv, pc \in {"map", "unmap", "resolve"},
         call.vaddr \in Nat, call.vaddr < UpperVaddr,
         is_mapping(entry), is_dir(layer, entry), Enter(entry.addr),
         pc = "map" => EntrySize[layer] # call.pte.frame.size,
         UNCHANGED <<memVars, pc, call, new_dir, obs, old>>
  PROVE  IInv'
<1>1. UNCHANGED <<region_view, regions, ghost_pt, pc, call, new_dir, old>>
  BY DEF memVars
<1>2. /\ ptr \in used_regions /\ idx \in EntryIndices /\ layer \in Layers
      /\ ghost_pt[ptr] = [layer |-> layer, base |-> path[layer].base]
  BY InvWalks, CurrentFrame
<1>3. IsDirAt(ptr, idx) /\ entry = region_view[ptr][idx]
  BY <1>2 DEF entry
<1>4. used_regions' = used_regions /\ used_regions \subseteq Regions
  BY <1>1 DEF used_regions, IInv, TypeOK
<1>5. WalkInv' /\ layer' = layer + 1
  BY InvWalks, DescendKeepsWalk
<1>6. layer \in Nat /\ LastLayer \in Nat
  BY <1>2, ArchInv DEF Layers
<1>7. CallInv'
  BY <1>1, <1>5 DEF IInv, RunInv, CallInv, WalkInv
<1>8. NoEmptyDirectories'
  <2>1. \A r \in used_regions \ {CR3} : ~is_directory_empty(r)
    BY <1>2, <1>3, OnlyCurrentEmpty DEF is_directory_empty
  <2> QED BY <1>1, <1>4, <2>1 DEF NoEmptyDirectories, is_directory_empty
<1>9. BufferInv'
  <2>1. Cardinality(Regions \ regions) \in Nat
    BY ImplAssumption, FS_Difference, FS_CardinalityType
  <2> QED BY <1>1, <1>5, <1>6, <2>1 DEF BufferInv, IInv, RunInv
<1>10. NothingWritten'
  <2>1. ~is_directory_empty(ptr)
    BY <1>2, <1>3 DEF is_directory_empty
  <2> QED BY <1>1, <2>1 DEF IInv, RunInv, NothingWritten
<1> QED BY <1>5, <1>7, <1>8, <1>9, <1>10 DEF IInv, RunInv, WalkInv

\* map_frame_aux follows a directory entry.
LEMMA MapDescendKeepsWalk ==
  ASSUME WalkInv, MapDescend
  PROVE  WalkInv' /\ layer' = layer + 1
<1>1. /\ pc = "map" /\ is_mapping(entry) /\ is_dir(layer, entry) /\ Enter(entry.addr)
      /\ EntrySize[layer] # call.pte.frame.size
      /\ UNCHANGED <<memVars, pc, call, new_dir, obs, old>>
  BY DEF MapDescend
<1>2. call.vaddr \in Nat /\ call.vaddr < UpperVaddr
  BY <1>1, CallInRange
<1> QED BY <1>1, <1>2, DescendKeepsWalk

LEMMA MapDescendKeepsInv ==
  ASSUME IInv, MapDescend
  PROVE  IInv'
<1>1. /\ pc = "map" /\ is_mapping(entry) /\ is_dir(layer, entry) /\ Enter(entry.addr)
      /\ EntrySize[layer] # call.pte.frame.size
      /\ UNCHANGED <<memVars, pc, call, new_dir, obs, old>>
  BY DEF MapDescend
<1>2. call.vaddr \in Nat /\ call.vaddr < UpperVaddr
  BY <1>1, InvWalks, CallInRange
<1> QED BY <1>1, <1>2, DescendKeepsInv

\* unmap_aux follows a directory entry.
LEMMA UnmapDescendKeepsWalk ==
  ASSUME WalkInv, UnmapDescend
  PROVE  WalkInv' /\ layer' = layer + 1
<1>1. /\ pc = "unmap" /\ is_mapping(entry) /\ is_dir(layer, entry) /\ Enter(entry.addr)
      /\ UNCHANGED <<memVars, pc, call, new_dir, obs, old>>
  BY DEF UnmapDescend
<1>2. call.vaddr \in Nat /\ call.vaddr < UpperVaddr
  BY <1>1, CallInRange
<1> QED BY <1>1, <1>2, DescendKeepsWalk

LEMMA UnmapDescendKeepsInv ==
  ASSUME IInv, UnmapDescend
  PROVE  IInv'
<1>1. /\ pc = "unmap" /\ is_mapping(entry) /\ is_dir(layer, entry) /\ Enter(entry.addr)
      /\ UNCHANGED <<memVars, pc, call, new_dir, obs, old>>
  BY DEF UnmapDescend
<1>2. call.vaddr \in Nat /\ call.vaddr < UpperVaddr
  BY <1>1, InvWalks, CallInRange
<1> QED BY <1>1, <1>2, DescendKeepsInv

\* A resolve whose address is beyond the address space stays at the root and
\* reads beyond its page.
LEMMA ReadPastEnd ==
  ASSUME WalkInv, pc = "resolve", call.vaddr >= UpperVaddr
  PROVE  layer = 0 /\ path[layer].base = 0 /\ idx \notin EntryIndices /\ ptr = CR3
<1>1. call.vaddr \in Nat /\ layer = 0 /\ path[0] = RootFrame
  <2>1. call.vaddr \in Nat /\ (layer > 0 => call.vaddr < UpperVaddr) /\ path[0] = RootFrame
    BY ImplAssumption DEF WalkInv, ArgsInv, PathIsChain
  <2>2. layer \in Nat
    BY SizeFacts DEF WalkInv, TypeOK
  <2> QED BY <2>1, <2>2, GeometryFacts
<1> DEFINE S == EntrySize[0]
<1>2. S \in Nat \ {0} /\ NumEntries \in Nat \ {0} /\ UpperVaddr = NumEntries * S
  BY SizeFacts
<1>3. idx = (call.vaddr - 0) \div S
  BY <1>1 DEF idx, index_for_vaddr, RootFrame
<1>4. call.vaddr - 0 = call.vaddr
  BY <1>1
<1> DEFINE v == call.vaddr
           k == v \div S
           r == v % S
<1> HIDE DEF S
<1>5. k \in Nat /\ r \in Nat /\ r < S /\ v = S * k + r
  <2>1. v \in Nat
    BY <1>1
  <2> HIDE DEF v
  <2> QED BY <1>2, <2>1, DivMod
<1> HIDE DEF v, k, r
<1>6. ~ (k < NumEntries)
  <2> SUFFICES ASSUME k < NumEntries PROVE FALSE
    OBVIOUS
  <2>1. (k + 1) * S <= NumEntries * S
    BY <1>2, <1>5, Monotone
  <2>2. v < (k + 1) * S
    BY <1>2, <1>5
  <2>3. (k + 1) * S \in Nat /\ NumEntries * S \in Nat
    BY <1>2, <1>5
  <2> QED BY <1>1, <1>2, <2>1, <2>2, <2>3 DEF v
<1>7. idx = k
  BY <1>3, <1>4 DEF v, k
<1>8. idx \notin EntryIndices
  BY <1>2, <1>5, <1>6, <1>7 DEF EntryIndices
<1> QED BY <1>1, <1>8 DEF RootFrame, ptr

\* resolve_aux follows a directory entry, or what it takes for one beyond the
\* root page.
LEMMA ResolveDescendKeepsWalk ==
  ASSUME WalkInv, ResolveDescend
  PROVE  WalkInv' /\ layer' = layer + 1
<1>1. pc = "resolve" /\ UNCHANGED <<memVars, pc, call, new_dir, obs, old>>
  BY DEF ResolveDescend
<1>2. PICK e \in read_entries : is_mapping(e) /\ is_dir(layer, e) /\ Enter(e.addr)
  BY DEF ResolveDescend
<1>3. e # ZeroEntry /\ e # JunkEntry
  BY <1>2, ConstantEntries
<1>4. e = entry /\ idx \in EntryIndices
  BY <1>2, <1>3 DEF read_entries, ReadInBounds
<1>5. call.vaddr \in Nat
  BY <1>1, ImplAssumption DEF WalkInv, ArgsInv
<1>6. call.vaddr < UpperVaddr
  BY <1>1, <1>4, <1>5, ReadPastEnd, GeometryFacts
<1> QED BY <1>1, <1>2, <1>4, <1>5, <1>6, DescendKeepsWalk

LEMMA ResolveDescendKeepsInv ==
  ASSUME IInv, ResolveDescend
  PROVE  IInv'
<1>1. pc = "resolve" /\ UNCHANGED <<memVars, pc, call, new_dir, obs, old>>
  BY DEF ResolveDescend
<1>2. PICK e \in read_entries : is_mapping(e) /\ is_dir(layer, e) /\ Enter(e.addr)
  BY DEF ResolveDescend
<1>3. e # ZeroEntry /\ e # JunkEntry
  BY <1>2, ConstantEntries
<1>4. e = entry /\ idx \in EntryIndices
  BY <1>2, <1>3 DEF read_entries, ReadInBounds
<1>5. call.vaddr \in Nat
  BY <1>1, ImplAssumption DEF IInv, RunInv, CallInv, ArgsInv
<1>6. call.vaddr < UpperVaddr
  BY <1>1, <1>4, <1>5, InvWalks, ReadPastEnd, GeometryFacts
<1> QED BY <1>1, <1>2, <1>4, <1>5, <1>6, DescendKeepsInv

(***************************************************************************)
(* The steps of map_frame.                                                 *)
(***************************************************************************)

\* What map_frame_aux knows of the address, the entry and the frame when it
\* stands at its entry.
LEMMA MapFrame ==
  ASSUME WalkInv, pc \in {"map", "link"}
  PROVE  /\ call.vaddr \in Nat /\ call.vaddr < UpperVaddr
         /\ call.pte \in PageTableEntry /\ call.pte.frame.base \in Nat
         /\ aligned(call.vaddr, call.pte.frame.size)
         /\ aligned(call.pte.frame.base, call.pte.frame.size)
         /\ EntrySize[layer] = call.pte.frame.size => layer > 0
         /\ pc = "link" => layer # LastLayer
<1>1. call.vaddr \in Nat /\ call.vaddr < UpperVaddr
  BY CallInRange
<1>2. /\ call.pte \in PageTableEntry
      /\ aligned(call.vaddr, call.pte.frame.size)
      /\ aligned(call.pte.frame.base, call.pte.frame.size)
  BY ImplAssumption DEF WalkInv, ArgsInv
<1>3. PICK l \in Layers \ {0} :
        /\ call.pte.frame.size = EntrySize[l]
        /\ IF pc = "map" THEN l >= layer ELSE l > layer
  BY DEF WalkInv, ArgsInv
<1>4. layer \in Layers /\ layer \in Nat /\ l \in Nat /\ l <= LastLayer /\ LastLayer \in Nat
  BY <1>3, SizeFacts DEF WalkInv, TypeOK
<1>5. EntrySize[layer] = call.pte.frame.size => layer > 0
  BY <1>3, <1>4, RootSizeIsLargest, BuffersAssumption
<1>6. pc = "link" => layer # LastLayer
  BY <1>3, <1>4
<1> QED BY <1>1, <1>2, <1>5, <1>6, EntryFacts

\* new_page_entry gives a page entry at every layer, with the frame and the
\* flags asked for.
LEMMA PageEntry ==
  ASSUME NEW l, NEW pte \in PageTableEntry
  PROVE  /\ new_page_entry(l, pte) \in PDE
         /\ new_page_entry(l, pte).P
         /\ new_page_entry(l, pte).PS <=> l # LastLayer
         /\ new_page_entry(l, pte).addr = pte.frame.base
         /\ flags(new_page_entry(l, pte)) = pte.flags
<1>1. pte.frame.base \in Nat /\ pte.flags \in Flags
  BY DEF PageTableEntry
<1>2. /\ pte.flags.is_writable \in BOOLEAN
      /\ pte.flags.is_supervisor \in BOOLEAN
      /\ pte.flags.disable_execute \in BOOLEAN
      /\ pte.flags = [is_writable |-> pte.flags.is_writable,
                      is_supervisor |-> pte.flags.is_supervisor,
                      disable_execute |-> pte.flags.disable_execute]
  BY <1>1 DEF Flags
<1>3. new_page_entry(l, pte) =
        [P |-> TRUE, PS |-> l # LastLayer,
         RW |-> pte.flags.is_writable, US |-> ~pte.flags.is_supervisor,
         XD |-> pte.flags.disable_execute, addr |-> pte.frame.base]
  BY DEF new_page_entry, new_entry
<1>4. new_page_entry(l, pte) \in PDE
  BY <1>1, <1>2, <1>3 DEF PDE, PageDirectoryEntry
<1>5. flags(new_page_entry(l, pte)) = pte.flags
  <2>1. ~(~pte.flags.is_supervisor) = pte.flags.is_supervisor
    BY <1>2
  <2>2. flags(new_page_entry(l, pte)) =
          [is_writable |-> pte.flags.is_writable,
           is_supervisor |-> ~(~pte.flags.is_supervisor),
           disable_execute |-> pte.flags.disable_execute]
    BY DEF flags, new_page_entry, new_entry
  <2> QED BY <1>2, <2>1, <2>2
<1>6. /\ new_page_entry(l, pte).P
      /\ new_page_entry(l, pte).PS <=> l # LastLayer
      /\ new_page_entry(l, pte).addr = pte.frame.base
  BY DEF new_page_entry, new_entry
<1> QED BY <1>4, <1>5, <1>6

\* map_frame_aux writes its page entry.
LEMMA MapPageKeepsWalk ==
  ASSUME WalkInv, MapPage
  PROVE  WalkInv'
<1> DEFINE e == new_page_entry(layer, call.pte)
<1>1. /\ pc = "map" /\ ~is_mapping(entry) /\ EntrySize[layer] = call.pte.frame.size
      /\ write(ptr, idx, e) /\ Return /\ UNCHANGED <<regions, ghost_pt>>
  BY DEF MapPage
<1>2. /\ call.vaddr \in Nat /\ call.vaddr < UpperVaddr
      /\ call.pte \in PageTableEntry /\ call.pte.frame.base \in Nat
      /\ aligned(call.pte.frame.base, EntrySize[layer]) /\ layer > 0
  BY <1>1, MapFrame
<1>3. /\ ptr \in used_regions /\ idx \in EntryIndices
      /\ ghost_pt[ptr].layer = layer
  BY <1>1, <1>2, CurrentFrame
<1>4. e \in PDE /\ e.P /\ (e.PS <=> layer # LastLayer) /\ e.addr = call.pte.frame.base
  BY <1>2, PageEntry
<1>5. ~IsDirAt(ptr, idx)
  BY <1>1 DEF entry
<1> HIDE DEF e
<1>6. TreeInv'
  <2>1. UNCHANGED ghost_pt
    BY <1>1
  <2> QED BY <1>1, <1>2, <1>3, <1>4, <1>5, <2>1, LeafWriteKeepsTree DEF WalkInv
<1>7. /\ used_regions' = used_regions /\ used_regions \subseteq Regions
      /\ region_view' \in [Regions -> [EntryIndices -> PDE]]
      /\ \A r \in used_regions : \A i \in EntryIndices :
           region_view'[r][i] = IF r = ptr /\ i = idx THEN e ELSE region_view[r][i]
  <2>1. used_regions' = used_regions /\ used_regions \subseteq Regions
    BY <1>1 DEF used_regions, WalkInv, TypeOK
  <2> QED BY <1>1, <1>3, <1>4, <2>1, WriteEntry DEF WalkInv
<1>8. TypeOK'
  BY <1>1, <1>7, ReturnType DEF WalkInv
<1> QED BY <1>1, <1>6, <1>8, ReturnKeepsWalk

\* The page fills the directory it is put in.
LEMMA PageFillsDirectory ==
  ASSUME WalkInv, MapPage, NEW x \in used_regions
  PROVE  /\ used_regions' = used_regions
         /\ is_directory_empty(x)' => is_directory_empty(x) /\ x # ptr
<1> DEFINE e == new_page_entry(layer, call.pte)
<1>1. /\ pc = "map" /\ ~is_mapping(entry) /\ EntrySize[layer] = call.pte.frame.size
      /\ write(ptr, idx, e) /\ Return /\ UNCHANGED <<regions, ghost_pt>>
  BY DEF MapPage
<1>2. /\ call.vaddr \in Nat /\ call.vaddr < UpperVaddr
      /\ call.pte \in PageTableEntry /\ call.pte.frame.base \in Nat
      /\ aligned(call.pte.frame.base, EntrySize[layer]) /\ layer > 0
  BY <1>1, MapFrame
<1>3. /\ ptr \in used_regions /\ idx \in EntryIndices
      /\ ghost_pt[ptr].layer = layer
  BY <1>1, <1>2, CurrentFrame
<1>4. e \in PDE /\ e.P /\ (e.PS <=> layer # LastLayer) /\ e.addr = call.pte.frame.base
  BY <1>2, PageEntry
<1> HIDE DEF e
<1>5. /\ used_regions' = used_regions /\ used_regions \subseteq Regions
      /\ region_view' \in [Regions -> [EntryIndices -> PDE]]
      /\ \A r \in used_regions : \A i \in EntryIndices :
           region_view'[r][i] = IF r = ptr /\ i = idx THEN e ELSE region_view[r][i]
  <2>1. used_regions' = used_regions /\ used_regions \subseteq Regions
    BY <1>1 DEF used_regions, WalkInv, TypeOK
  <2> QED BY <1>1, <1>3, <1>4, <2>1, WriteEntry DEF WalkInv
<1>6. is_directory_empty(x)' => x # ptr
  BY <1>3, <1>4, <1>5 DEF is_directory_empty
<1>7. x # ptr /\ is_directory_empty(x)' => is_directory_empty(x)
  BY <1>5 DEF is_directory_empty
<1> QED BY <1>5, <1>6, <1>7

\* map_frame_aux leaves no empty directory behind.
LEMMA MapPageKeepsInv ==
  ASSUME IInv, MapPage
  PROVE  IInv'
<1>1. TypeOK' /\ TreeInv'
  BY InvWalks, MapPageKeepsWalk DEF WalkInv
<1>2. ASSUME NEW r \in used_regions' \ {CR3}
      PROVE  ~is_directory_empty(r)'
  <2>1. r \in used_regions
    BY DEF MapPage, used_regions
  <2>2. is_directory_empty(r)' => is_directory_empty(r) /\ r # ptr
    BY <2>1, InvWalks, PageFillsDirectory
  <2>3. is_directory_empty(r) => r = ptr
    BY <2>1, OnlyCurrentEmpty
  <2> QED BY <2>2, <2>3
<1> QED BY <1>1, <1>2, ReturnKeepsInv DEF MapPage

\* The frames stay a chain when the directories above the current one keep
\* their places and their entries.
LEMMA SameFramesKeepChain ==
  ASSUME WalkInv, pc # "idle", pc # "resolve", UNCHANGED <<call, layer, path>>,
         \A r \in used_regions : r \in used_regions' /\ ghost_pt'[r] = ghost_pt[r],
         \A l \in 0 .. (layer - 1) : region_view'[path[l].ptr] = region_view[path[l].ptr]
  PROVE  PathIsChain'
<1>1. call.vaddr \in Nat /\ call.vaddr < UpperVaddr
  BY CallInRange
<1>2. path'[0] = RootFrame
  BY DEF WalkInv, PathIsChain
<1>3. ASSUME NEW l \in 0 .. layer'
      PROVE  /\ contains_pair(ghost_pt', path'[l].ptr, [layer |-> l, base |-> path'[l].base])
             /\ call'.vaddr < UpperVaddr =>
                  between(call'.vaddr, path'[l].base,
                          path'[l].base + NumEntries * EntrySize[l])
  <2>1. /\ contains_pair(ghost_pt, path[l].ptr, [layer |-> l, base |-> path[l].base])
        /\ between(call.vaddr, path[l].base, path[l].base + NumEntries * EntrySize[l])
    BY <1>1 DEF WalkInv, PathIsChain
  <2> QED BY <2>1 DEF contains_pair, used_regions
<1>4. ASSUME NEW l \in 0 .. (layer' - 1)
      PROVE  LET p == path'[l].ptr
                 i == index_for_vaddr(l, path'[l].base, call'.vaddr)
             IN  /\ region_view'[p][i].P
                 /\ ~(ghost_pt'[p].layer = LastLayer \/ region_view'[p][i].PS)
                 /\ region_view'[p][i].addr = path'[l + 1].ptr
  <2> DEFINE i == index_for_vaddr(l, path[l].base, call.vaddr)
  <2>1. l \in 0 .. (layer - 1)
    OBVIOUS
  <2>2. /\ IsDirAt(path[l].ptr, i) /\ view_at(path[l].ptr, i).addr = path[l + 1].ptr
        /\ path[l].ptr \in used_regions
    BY <1>1, <2>1, UpperFrame
  <2>3. /\ region_view'[path[l].ptr] = region_view[path[l].ptr]
        /\ ghost_pt'[path[l].ptr] = ghost_pt[path[l].ptr]
    BY <2>1, <2>2
  <2> QED BY <2>2, <2>3
<1> QED BY <1>2, <1>3, <1>4 DEF PathIsChain

\* map_frame_aux gets a page for a new directory, which is not linked yet: any
\* page that has no entry present.
LEMMA NewDirKeepsWalk ==
  ASSUME WalkInv, NEW r \in Regions \ regions,
         NEW page \in [EntryIndices -> PDE], \A i \in EntryIndices : ~page[i].P,
         pc = "map", ~is_mapping(entry), EntrySize[layer] # call.pte.frame.size,
         regions' = regions \cup {r}, region_view' = [region_view EXCEPT ![r] = page],
         new_dir' = r, pc' = "link", UNCHANGED <<ghost_pt, call, layer, path>>
  PROVE  /\ WalkInv'
         /\ \A x \in used_regions : region_view'[x] = region_view[x]
<1>1. /\ used_regions' = used_regions /\ used_regions \subseteq regions
      /\ regions \subseteq Regions /\ r \notin used_regions
  BY DEF used_regions, WalkInv, TypeOK
<1>2. /\ region_view' \in [Regions -> [EntryIndices -> PDE]]
      /\ \A x \in used_regions : region_view'[x] = region_view[x]
      /\ region_view'[r] = page
  <2>1. region_view \in [Regions -> [EntryIndices -> PDE]]
    BY DEF WalkInv, TypeOK, PDE
  <2> HIDE DEF PDE
  <2> QED BY <1>1, <2>1
<1>3. TypeOK'
  BY <1>1, <1>2 DEF WalkInv, TypeOK, PDE
<1>4. TreeInv'
  BY <1>1, AllocKeepsTree DEF WalkInv
<1>5. call.vaddr \in Nat /\ call.vaddr < UpperVaddr
  BY CallInRange
<1>6. PathIsChain'
  <2>1. \A x \in used_regions : x \in used_regions' /\ ghost_pt'[x] = ghost_pt[x]
    BY <1>1
  <2>2. \A l \in 0 .. (layer - 1) : region_view'[path[l].ptr] = region_view[path[l].ptr]
    BY <1>2, <1>5, UpperFrame
  <2> QED BY <2>1, <2>2, SameFramesKeepChain
<1>7. ArgsInv'
  <2>1. PICK l \in Layers \ {0} : call.pte.frame.size = EntrySize[l] /\ l >= layer
    BY DEF WalkInv, ArgsInv
  <2>2. l > layer
    <3>1. layer \in Nat /\ l \in Nat
      BY <2>1, SizeFacts DEF WalkInv, TypeOK
    <3>2. l # layer
      BY <2>1
    <3> QED BY <2>1, <3>1, <3>2
  <2> QED BY <2>1, <2>2 DEF WalkInv, ArgsInv
<1>8. LinkInv'
  <2>1. ptr \in used_regions
    BY <1>5, CurrentFrame
  <2>2. ptr' = ptr /\ idx' = idx
    BY DEF ptr, idx
  <2>3. ~is_mapping(entry)'
    BY <1>2, <2>1, <2>2 DEF entry
  <2> QED BY <1>1, <1>2, <2>3 DEF LinkInv, is_directory_empty
<1> QED BY <1>2, <1>3, <1>4, <1>6, <1>7, <1>8 DEF WalkInv

\* Those of alloc_page are zeroed.
LEMMA MapAllocDirKeepsWalk ==
  ASSUME WalkInv, MapAllocDir
  PROVE  /\ WalkInv'
         /\ \A x \in used_regions : region_view'[x] = region_view[x]
<1>1. /\ pc = "map" /\ ~is_mapping(entry) /\ EntrySize[layer] # call.pte.frame.size
      /\ pc' = "link" /\ UNCHANGED <<ghost_pt, call, layer, path>>
  BY DEF MapAllocDir
<1>2. PICK r \in Regions \ regions :
        /\ regions' = regions \cup {r}
        /\ region_view' = [region_view EXCEPT ![r] = ZeroPage]
        /\ new_dir' = r
  BY DEF MapAllocDir, alloc_page
<1>3. ZeroPage \in [EntryIndices -> PDE] /\ \A i \in EntryIndices : ~ZeroPage[i].P
  BY ConstantEntries DEF ZeroPage
<1> HIDE DEF PDE
<1> QED BY <1>1, <1>2, <1>3, NewDirKeepsWalk

\* It is one of the pages kept ready.
LEMMA MapAllocDirKeepsInv ==
  ASSUME IInv, MapAllocDir
  PROVE  IInv'
<1>1. /\ pc = "map" /\ ~is_mapping(entry) /\ EntrySize[layer] # call.pte.frame.size
      /\ pc' = "link" /\ UNCHANGED <<ghost_pt, call, layer, path, old>>
  BY DEF MapAllocDir
<1>2. PICK r \in Regions \ regions :
        /\ regions' = regions \cup {r}
        /\ region_view' = [region_view EXCEPT ![r] = ZeroPage]
        /\ new_dir' = r
  BY DEF MapAllocDir, alloc_page
<1>3. /\ used_regions' = used_regions /\ used_regions \subseteq regions
      /\ regions \subseteq Regions /\ r \notin used_regions
  BY <1>1, <1>2 DEF used_regions, IInv, TypeOK
<1>4. WalkInv' /\ \A x \in used_regions : region_view'[x] = region_view[x]
  BY InvWalks, MapAllocDirKeepsWalk
<1>5. CallInv'
  BY <1>1, <1>4 DEF IInv, RunInv, CallInv, WalkInv
<1>6. NoEmptyDirectories'
  <2> SUFFICES ASSUME NEW x \in used_regions' \ {CR3}, is_directory_empty(x)'
               PROVE  \E l \in 1 .. layer : path[l].ptr = x
    BY <1>1 DEF NoEmptyDirectories
  <2>1. is_directory_empty(x)
    BY <1>3, <1>4 DEF is_directory_empty
  <2> QED BY <1>3, <2>1 DEF IInv, RunInv, NoEmptyDirectories
<1>7. BufferInv'
  <2>1. IsFiniteSet(Regions \ regions) /\ Cardinality(Regions \ regions) \in Nat
    BY ImplAssumption, FS_Difference, FS_CardinalityType
  <2>2. Regions \ regions' = (Regions \ regions) \ {r}
    BY <1>2
  <2>3. Cardinality(Regions \ regions') = Cardinality(Regions \ regions) - 1
    BY <1>2, <2>1, <2>2, FS_RemoveElement
  <2>4. Cardinality(Regions \ regions) + layer >= LastLayer /\ layer \in Nat /\ LastLayer \in Nat
    BY <1>1, SizeFacts DEF IInv, RunInv, BufferInv, TypeOK
  <2> QED BY <1>1, <2>1, <2>3, <2>4 DEF BufferInv
<1>8. NothingWritten'
  BY <1>1 DEF NothingWritten
<1> QED BY <1>4, <1>5, <1>6, <1>7, <1>8 DEF IInv, RunInv, WalkInv

\* map_frame_aux links the new directory and goes down into it; the directory
\* above it is not empty any more.
LEMMA MapLinkDirKeepsWalk ==
  ASSUME WalkInv, MapLinkDir
  PROVE  /\ WalkInv'
         /\ new_dir \in Regions \ used_regions /\ \A i \in EntryIndices : ~region_view'[new_dir][i].P
         /\ used_regions' = used_regions \cup {new_dir}
         /\ layer' = layer + 1 /\ path'[layer + 1].ptr = new_dir
         /\ \A x \in used_regions' \ {new_dir} :
              is_directory_empty(x)' => /\ x \in used_regions /\ x # ptr
                                        /\ is_directory_empty(x)
<1> DEFINE d == new_dir
           e == new_dir_entry(layer, d)
           b == entry_base(layer, path[layer].base, idx)
<1>1. /\ pc = "link" /\ write(ptr, idx, e)
      /\ ghost_pt' = map_insert(ghost_pt, d, [layer |-> layer + 1, base |-> b])
      /\ Enter(d) /\ pc' = "map" /\ new_dir' = CR3
      /\ UNCHANGED <<regions, call>>
  BY DEF MapLinkDir
<1>2. call.vaddr \in Nat /\ call.vaddr < UpperVaddr /\ layer # LastLayer
  BY <1>1, MapFrame
<1>3. /\ ptr \in used_regions /\ idx \in EntryIndices /\ layer \in Layers
      /\ path[layer].base \in Nat
      /\ ghost_pt[ptr] = [layer |-> layer, base |-> path[layer].base]
  BY <1>1, <1>2, CurrentFrame
<1>4. /\ d \in regions \ used_regions /\ is_directory_empty(d)
      /\ ~is_mapping(view_at(ptr, idx))
  BY <1>1 DEF WalkInv, LinkInv, entry
<1>5. /\ used_regions \subseteq regions /\ regions \subseteq Regions
      /\ d \in Regions /\ d # ptr
  BY <1>3, <1>4 DEF WalkInv, TypeOK
<1>6. e \in PDE /\ e.P /\ (layer # LastLayer => ~e.PS) /\ e.addr = d
  BY <1>5 DEF PDE, PageDirectoryEntry, new_dir_entry, new_entry
<1> HIDE DEF e
<1>7. TreeInv'
  <2>1. /\ ghost_pt[ptr].layer = layer /\ ghost_pt[ptr].base = path[layer].base
    BY <1>3
  <2>2. /\ write(ptr, idx, new_dir_entry(ghost_pt[ptr].layer, d))
        /\ ghost_pt' = map_insert(ghost_pt, d,
                       [layer |-> ghost_pt[ptr].layer + 1,
                        base |-> entry_base(ghost_pt[ptr].layer, ghost_pt[ptr].base, idx)])
    BY <1>1, <2>1 DEF e
  <2> HIDE DEF d
  <2> QED BY <1>2, <1>3, <1>4, <2>1, <2>2, LinkKeepsTree DEF WalkInv
<1>8. /\ region_view' \in [Regions -> [EntryIndices -> PDE]]
      /\ \A r \in Regions : \A i \in EntryIndices :
           region_view'[r][i] = IF r = ptr /\ i = idx THEN e ELSE region_view[r][i]
  BY <1>1, <1>3, <1>5, <1>6, WriteEntry DEF WalkInv
<1>9. /\ used_regions' = used_regions \cup {d}
      /\ \A r \in used_regions : r \in used_regions' /\ ghost_pt'[r] = ghost_pt[r]
      /\ ghost_pt'[d] = [layer |-> layer + 1, base |-> b]
      /\ ghost_pt' = [r \in used_regions' |-> ghost_pt'[r]]
  BY <1>1, <1>4 DEF map_insert, used_regions
<1>10. \A r \in Regions \ {ptr} : region_view'[r] = region_view[r]
  BY <1>1 DEF write, WalkInv, TypeOK
<1>11. b \in Nat /\ layer + 1 \in Layers
  BY <1>2, <1>3, SizeFacts, EntryInSpan
<1> HIDE DEF d, b
<1>12. /\ PathIsChain'
       /\ layer' = layer + 1 /\ layer' \in Layers
       /\ path' \in [Layers -> [ptr : Regions, base : Nat]]
       /\ path'[layer + 1] = [ptr |-> d, base |-> b]
  <2>1. contains_pair(ghost_pt', d, [layer |-> layer + 1, base |-> b])
    BY <1>9 DEF contains_pair, used_regions
  <2>2. \A l \in 0 .. (layer - 1) : region_view'[path[l].ptr] = region_view[path[l].ptr]
    <3>1. \A l \in 0 .. (layer - 1) : path[l].ptr \in used_regions /\ path[l].ptr # ptr
      BY <1>1, <1>2, UpperFrame
    <3> QED BY <1>5, <1>10, <3>1
  <2>3. region_view'[ptr][idx].P /\ ~region_view'[ptr][idx].PS /\ region_view'[ptr][idx].addr = d
    BY <1>2, <1>3, <1>5, <1>6, <1>8
  <2> QED BY <1>1, <1>2, <1>5, <1>9, <2>1, <2>2, <2>3, EnterKeepsChain DEF b
<1>13. TypeOK'
  <2>1. ghost_pt' \in [used_regions' -> [layer : Layers, base : Nat]]
    <3>1. \A r \in used_regions : ghost_pt[r] \in [layer : Layers, base : Nat]
      BY DEF WalkInv, TypeOK
    <3> QED BY <1>9, <1>11, <3>1
  <2>2. used_regions' \in SUBSET regions' /\ regions' \in SUBSET Regions
    BY <1>1, <1>4, <1>5, <1>9
  <2> QED BY <1>1, <1>8, <1>12, <2>1, <2>2, ImplAssumption DEF TypeOK, PDE
<1>14. ArgsInv'
  <2>1. PICK l \in Layers \ {0} : call.pte.frame.size = EntrySize[l] /\ l > layer
    BY <1>1 DEF WalkInv, ArgsInv
  <2>2. l >= layer + 1
    BY <1>3, <2>1, SizeFacts
  <2> QED BY <1>1, <1>12, <2>1, <2>2 DEF WalkInv, ArgsInv
<1>15. LinkInv'
  BY <1>1 DEF LinkInv
<1>16. ASSUME NEW x \in used_regions' \ {d}, is_directory_empty(x)'
       PROVE  x \in used_regions /\ x # ptr /\ is_directory_empty(x)
  <2>1. x \in used_regions
    BY <1>9
  <2>2. x # ptr
    BY <1>3, <1>5, <1>6, <1>8, <1>16 DEF is_directory_empty
  <2>3. is_directory_empty(x)
    BY <1>5, <1>10, <1>16, <2>1, <2>2 DEF is_directory_empty
  <2> QED BY <2>1, <2>2, <2>3
<1>17. d \in Regions \ used_regions /\ \A i \in EntryIndices : ~region_view'[d][i].P
  BY <1>4, <1>5, <1>10 DEF is_directory_empty
<1>18. WalkInv'
  BY <1>7, <1>12, <1>13, <1>14, <1>15 DEF WalkInv
<1> QED BY <1>9, <1>12, <1>16, <1>17, <1>18 DEF d, b

\* The new directory is the only empty one.
LEMMA MapLinkDirKeepsInv ==
  ASSUME IInv, MapLinkDir
  PROVE  IInv'
<1> DEFINE d == new_dir
<1>1. pc = "link" /\ pc' = "map" /\ UNCHANGED <<regions, call, old>>
  BY DEF MapLinkDir
<1>2. /\ WalkInv'
      /\ \A i \in EntryIndices : ~region_view'[d][i].P
      /\ layer' = layer + 1 /\ path'[layer + 1].ptr = d
      /\ \A x \in used_regions' \ {d} :
           is_directory_empty(x)' => x \in used_regions /\ x # ptr /\ is_directory_empty(x)
  BY InvWalks, MapLinkDirKeepsWalk
<1> HIDE DEF d
<1>3. layer \in Nat /\ layer \in Layers
  BY SizeFacts DEF IInv, TypeOK
<1>4. CallInv'
  BY <1>1, <1>2 DEF IInv, RunInv, CallInv, WalkInv
<1>5. NoEmptyDirectories'
  <2> SUFFICES ASSUME NEW x \in used_regions' \ {CR3}, is_directory_empty(x)'
               PROVE  x = d
    <3>1. layer + 1 \in 1 .. layer' /\ path'[layer + 1].ptr = d
      BY <1>2, <1>3
    <3> QED BY <1>1, <3>1 DEF NoEmptyDirectories
  <2> SUFFICES ASSUME x # d PROVE FALSE
    OBVIOUS
  <2> QED BY <1>2, OnlyCurrentEmpty
<1>6. BufferInv'
  <2>1. Cardinality(Regions \ regions) \in Nat /\ layer \in Nat /\ LastLayer \in Nat
    BY <1>3, SizeFacts, ImplAssumption, FS_Difference, FS_CardinalityType
  <2>2. Cardinality(Regions \ regions) + layer + 1 >= LastLayer
    BY <1>1 DEF IInv, RunInv, BufferInv
  <2> QED BY <1>1, <1>2, <2>1, <2>2 DEF BufferInv
<1>7. NothingWritten'
  <2>1. ptr' = d
    BY <1>2 DEF ptr
  <2> QED BY <1>1, <1>2, <2>1 DEF NothingWritten, is_directory_empty
<1> QED BY <1>2, <1>4, <1>5, <1>6, <1>7 DEF IInv, RunInv, WalkInv

(***************************************************************************)
(* The steps of unmap on its way back up.                                  *)
(***************************************************************************)

\* A call at layer 0 stands in the root directory.
LEMMA CurrentIsRoot ==
  ASSUME WalkInv, pc # "idle", layer = 0
  PROVE  ptr = CR3
BY DEF WalkInv, PathIsChain, ptr, RootFrame

\* unmap_aux clears the page entry.
LEMMA ClearEntryKeepsTree ==
  ASSUME WalkInv, pc = "unmap", is_page(layer, entry),
         write(ptr, idx, ZeroEntry), UNCHANGED <<regions, ghost_pt>>
  PROVE  /\ TreeInv' /\ used_regions' = used_regions
         /\ region_view' \in [Regions -> [EntryIndices -> PDE]]
         /\ ptr \in used_regions
         /\ \A r \in Regions \ {ptr} : region_view'[r] = region_view[r]
<1>1. call.vaddr \in Nat /\ call.vaddr < UpperVaddr
  BY CallInRange
<1>2. /\ ptr \in used_regions /\ idx \in EntryIndices /\ layer \in Layers
      /\ ghost_pt[ptr].layer = layer
  BY <1>1, CurrentFrame
<1>3. ~IsDirAt(ptr, idx)
  BY <1>2 DEF entry
<1>4. TreeInv'
  <2>1. UNCHANGED ghost_pt
    OBVIOUS
  <2> QED BY <1>2, <1>3, <2>1, ConstantEntries, LeafWriteKeepsTree DEF WalkInv
<1>5. /\ used_regions' = used_regions /\ used_regions \subseteq Regions
      /\ region_view' \in [Regions -> [EntryIndices -> PDE]]
      /\ \A r \in Regions \ {ptr} : region_view'[r] = region_view[r]
  <2>1. used_regions' = used_regions /\ used_regions \subseteq Regions
    BY DEF used_regions, WalkInv, TypeOK
  <2>2. \A r \in Regions \ {ptr} : region_view'[r] = region_view[r]
    BY DEF write, WalkInv, TypeOK
  <2> QED BY <1>2, <2>1, <2>2, ConstantEntries, WriteEntry DEF WalkInv
<1> QED BY <1>2, <1>4, <1>5

\* The frames above are as they were.
LEMMA ClearEntryKeepsWalk ==
  ASSUME WalkInv, pc = "unmap", is_page(layer, entry),
         write(ptr, idx, ZeroEntry), UNCHANGED <<regions, ghost_pt>>,
         pc' = "cleanup", UNCHANGED <<call, layer, path, new_dir>>
  PROVE  WalkInv'
<1>1. call.vaddr \in Nat /\ call.vaddr < UpperVaddr
  BY CallInRange
<1>2. /\ TreeInv' /\ used_regions' = used_regions /\ used_regions \subseteq Regions
      /\ region_view' \in [Regions -> [EntryIndices -> PDE]]
      /\ \A r \in Regions \ {ptr} : region_view'[r] = region_view[r]
  BY ClearEntryKeepsTree DEF WalkInv, TypeOK
<1>3. TypeOK'
  BY <1>2 DEF WalkInv, TypeOK, PDE
<1>4. PathIsChain'
  <2>1. \A r \in used_regions : r \in used_regions' /\ ghost_pt'[r] = ghost_pt[r]
    BY <1>2
  <2>2. \A l \in 0 .. (layer - 1) : region_view'[path[l].ptr] = region_view[path[l].ptr]
    <3>1. \A l \in 0 .. (layer - 1) : path[l].ptr \in used_regions /\ path[l].ptr # ptr
      BY <1>1, UpperFrame
    <3> QED BY <1>2, <3>1
  <2> QED BY <2>1, <2>2, SameFramesKeepChain
<1>5. ArgsInv' /\ LinkInv'
  BY DEF WalkInv, ArgsInv, LinkInv
<1> QED BY <1>2, <1>3, <1>4, <1>5 DEF WalkInv

\* Its directory may be empty now.
LEMMA UnmapPageKeepsInv ==
  ASSUME IInv, UnmapPage
  PROVE  IInv'
<1>1. /\ pc = "unmap" /\ is_page(layer, entry) /\ write(ptr, idx, ZeroEntry)
      /\ pc' = "cleanup"
      /\ UNCHANGED <<regions, ghost_pt, call, layer, path, new_dir, old>>
  BY DEF UnmapPage
<1>2. WalkInv'
  BY <1>1, InvWalks, ClearEntryKeepsWalk
<1>3. layer \in Layers
  BY DEF IInv, TypeOK
<1>4. /\ used_regions' = used_regions /\ used_regions \subseteq Regions
      /\ \A r \in Regions \ {ptr} : region_view'[r] = region_view[r]
  BY <1>1, InvWalks, ClearEntryKeepsTree DEF IInv, TypeOK
<1>5. NoEmptyDirectories'
  <2> SUFFICES ASSUME NEW x \in used_regions' \ {CR3}, is_directory_empty(x)'
               PROVE  \E l \in 1 .. layer : path[l].ptr = x
    BY <1>1 DEF NoEmptyDirectories
  <2>1. CASE x # ptr
    <3>1. is_directory_empty(x)
      BY <1>4, <2>1 DEF is_directory_empty
    <3> QED BY <1>1, <1>4, <3>1, OnlyCurrentEmpty
  <2>2. CASE x = ptr
    <3>1. layer \in Nat /\ layer # 0
      BY <1>1, <1>3, <2>2, InvWalks, CurrentIsRoot, SizeFacts
    <3>2. layer \in 1 .. layer /\ path[layer].ptr = x
      BY <2>2, <3>1 DEF ptr
    <3> QED BY <3>2
  <2> QED BY <2>1, <2>2
<1>6. CallInv' /\ BufferInv' /\ NothingWritten'
  BY <1>1, <1>2 DEF IInv, RunInv, CallInv, WalkInv, BufferInv, NothingWritten
<1> QED BY <1>2, <1>5, <1>6 DEF IInv, RunInv, WalkInv

\* unmap_aux returns to the frame above.
LEMMA UpKeepsWalk ==
  ASSUME WalkInv, pc = "cleanup", layer > 0, layer' = layer - 1,
         UNCHANGED <<regions, pc, call, path, new_dir>>,
         region_view' \in [Regions -> [EntryIndices -> PDE]],
         TreeInv', used_regions' \subseteq used_regions,
         \A r \in used_regions \ {ptr} : r \in used_regions',
         \A r \in used_regions' : ghost_pt'[r] = ghost_pt[r],
         ghost_pt' = [r \in used_regions' |-> ghost_pt'[r]],
         \A r \in used_regions' : region_view'[r] = region_view[r] \/ r = path[layer - 1].ptr
  PROVE  WalkInv'
<1>1. call.vaddr \in Nat /\ call.vaddr < UpperVaddr
  BY CallInRange
<1>2. layer \in Nat /\ layer \in Layers /\ layer - 1 \in Layers /\ layer - 1 \in Nat
  BY SizeFacts, ArchInv DEF WalkInv, TypeOK, Layers
<1>3. TypeOK'
  <2>1. ghost_pt' \in [used_regions' -> [layer : Layers, base : Nat]]
    <3>1. \A r \in used_regions : ghost_pt[r] \in [layer : Layers, base : Nat]
      BY DEF WalkInv, TypeOK
    <3> QED BY <3>1
  <2> QED BY <1>2, <2>1 DEF WalkInv, TypeOK, PDE
<1>4. PathIsChain'
  <2>1. \A l \in 0 .. (layer - 1) :
          /\ path[l].ptr \in used_regions' /\ ghost_pt'[path[l].ptr] = ghost_pt[path[l].ptr]
          /\ ghost_pt[path[l].ptr] = [layer |-> l, base |-> path[l].base]
    BY <1>1, UpperFrame
  <2>2. path'[0] = RootFrame
    BY DEF WalkInv, PathIsChain
  <2>3. ASSUME NEW l \in 0 .. layer'
        PROVE  /\ contains_pair(ghost_pt', path'[l].ptr, [layer |-> l, base |-> path'[l].base])
               /\ between(call'.vaddr, path'[l].base, path'[l].base + NumEntries * EntrySize[l])
    <3>1. l \in 0 .. (layer - 1) /\ l \in 0 .. layer
      BY <1>2
    <3>2. between(call.vaddr, path[l].base, path[l].base + NumEntries * EntrySize[l])
      BY <1>1, <3>1 DEF WalkInv, PathIsChain
    <3>3. contains_pair(ghost_pt', path[l].ptr, [layer |-> l, base |-> path[l].base])
      BY <2>1, <3>1 DEF contains_pair, used_regions
    <3> QED BY <3>2, <3>3
  <2>4. ASSUME NEW l \in 0 .. (layer' - 1)
        PROVE  LET p == path'[l].ptr
                   i == index_for_vaddr(l, path'[l].base, call'.vaddr)
               IN  /\ region_view'[p][i].P
                   /\ ~(ghost_pt'[p].layer = LastLayer \/ region_view'[p][i].PS)
                   /\ region_view'[p][i].addr = path'[l + 1].ptr
    <3> DEFINE i == index_for_vaddr(l, path[l].base, call.vaddr)
    <3>1. l \in 0 .. (layer - 1) /\ l # layer - 1 /\ layer - 1 \in 0 .. (layer - 1)
      BY <1>2
    <3>2. /\ IsDirAt(path[l].ptr, i) /\ view_at(path[l].ptr, i).addr = path[l + 1].ptr
      BY <1>1, <3>1, UpperFrame
    <3>3. path[l].ptr # path[layer - 1].ptr
      <4> DEFINE k == layer - 1
      <4>0. k \in 0 .. (layer - 1) /\ k # l
        BY <3>1
      <4> HIDE DEF k
      <4>1. ghost_pt[path[l].ptr] = [layer |-> l, base |-> path[l].base]
        BY <2>1, <3>1
      <4>2. ghost_pt[path[k].ptr] = [layer |-> k, base |-> path[k].base]
        BY <2>1, <4>0
      <4>3. path[l].ptr # path[k].ptr
        BY <4>0, <4>1, <4>2
      <4> QED BY <4>3 DEF k
    <3>4. region_view'[path[l].ptr] = region_view[path[l].ptr]
      BY <2>1, <3>1, <3>3
    <3> QED BY <2>1, <3>1, <3>2, <3>4
  <2> QED BY <2>2, <2>3, <2>4 DEF PathIsChain
<1>5. ArgsInv' /\ LinkInv'
  BY DEF WalkInv, ArgsInv, LinkInv
<1> QED BY <1>3, <1>4, <1>5 DEF WalkInv

\* The directory below is gone, or is not empty.
LEMMA UpKeepsInv ==
  ASSUME IInv, pc = "cleanup", layer > 0, layer' = layer - 1,
         UNCHANGED <<regions, pc, call, path, new_dir, old>>,
         ptr \notin used_regions' \/ ~is_directory_empty(ptr),
         region_view' \in [Regions -> [EntryIndices -> PDE]],
         TreeInv', used_regions' \subseteq used_regions,
         \A r \in used_regions \ {ptr} : r \in used_regions',
         \A r \in used_regions' : ghost_pt'[r] = ghost_pt[r],
         ghost_pt' = [r \in used_regions' |-> ghost_pt'[r]],
         \A r \in used_regions' : region_view'[r] = region_view[r] \/ r = path[layer - 1].ptr
  PROVE  IInv'
<1>1. WalkInv'
  BY InvWalks, UpKeepsWalk
<1>2. layer \in Nat /\ layer \in Layers /\ layer - 1 \in Layers /\ layer - 1 \in Nat
  BY SizeFacts, ArchInv DEF IInv, TypeOK, Layers
<1>3. NoEmptyDirectories'
  <2> SUFFICES ASSUME NEW x \in used_regions' \ {CR3}, is_directory_empty(x)'
               PROVE  \E l \in 1 .. layer' : path'[l].ptr = x
    BY DEF NoEmptyDirectories
  <2>1. x = path[layer - 1].ptr
    <3> SUFFICES ASSUME x # path[layer - 1].ptr PROVE FALSE
      OBVIOUS
    <3>1. is_directory_empty(x)
      BY DEF is_directory_empty
    <3> QED BY <3>1, OnlyCurrentEmpty
  <2>2. layer - 1 # 0
    BY <2>1 DEF IInv, RunInv, PathIsChain, RootFrame
  <2>3. layer - 1 \in 1 .. layer' /\ path'[layer - 1].ptr = x
    BY <1>2, <2>1, <2>2
  <2> QED BY <2>3
<1>4. CallInv' /\ BufferInv' /\ NothingWritten'
  BY <1>1 DEF IInv, RunInv, CallInv, WalkInv, BufferInv, NothingWritten
<1> QED BY <1>1, <1>3, <1>4 DEF IInv, RunInv, WalkInv

\* unmap_aux unlinks and frees a directory that has become empty.
LEMMA UnlinkedIsGone ==
  ASSUME WalkInv, UnlinkDir
  PROVE  /\ region_view' \in [Regions -> [EntryIndices -> PDE]]
         /\ TreeInv' /\ used_regions' = used_regions \ {ptr}
         /\ \A r \in used_regions' : ghost_pt'[r] = ghost_pt[r]
         /\ ghost_pt' = [r \in used_regions' |-> ghost_pt'[r]]
         /\ \A r \in used_regions' : region_view'[r] = region_view[r] \/ r = path[layer - 1].ptr
<1> DEFINE p == path[layer - 1].ptr
           n == index_for_vaddr(layer - 1, path[layer - 1].base, call.vaddr)
<1>1. /\ pc = "cleanup" /\ layer > 0 /\ is_directory_empty(ptr)
      /\ write(p, n, ZeroEntry) /\ ghost_pt' = map_remove(ghost_pt, ptr)
      /\ layer' = layer - 1
      /\ UNCHANGED <<regions, pc, call, path, new_dir, old>>
  BY DEF UnlinkDir
<1>2. call.vaddr \in Nat /\ call.vaddr < UpperVaddr
  BY <1>1, CallInRange
<1>3. layer \in Nat /\ layer - 1 \in 0 .. (layer - 1) /\ layer - 1 + 1 = layer
  <2>1. layer \in Nat
    BY SizeFacts DEF WalkInv, TypeOK
  <2> QED BY <1>1, <2>1
<1>4. /\ p \in used_regions /\ p # ptr /\ n \in EntryIndices /\ IsDirAt(p, n)
      /\ view_at(p, n).addr = ptr
  BY <1>1, <1>2, <1>3, UpperFrame DEF ptr
<1>5. p \in Regions
  BY <1>4 DEF WalkInv, TypeOK
<1> HIDE DEF p, n
<1>6. TreeInv'
  BY <1>1, <1>4, UnlinkKeepsTree DEF WalkInv
<1>7. region_view' \in [Regions -> [EntryIndices -> PDE]]
  BY <1>1, <1>4, <1>5, ConstantEntries, WriteEntry DEF WalkInv
<1>8. \A r \in Regions \ {p} : region_view'[r] = region_view[r]
  BY <1>1 DEF write, WalkInv, TypeOK
<1>9. /\ used_regions' = used_regions \ {ptr}
      /\ \A r \in used_regions' : ghost_pt'[r] = ghost_pt[r]
      /\ ghost_pt' = [r \in used_regions' |-> ghost_pt'[r]]
  <2>1. /\ DOMAIN map_remove(ghost_pt, ptr) = DOMAIN ghost_pt \ {ptr}
        /\ \A x \in DOMAIN ghost_pt \ {ptr} : map_remove(ghost_pt, ptr)[x] = ghost_pt[x]
    BY RemoveFacts
  <2>2. ghost_pt' = [r \in DOMAIN ghost_pt' |-> ghost_pt'[r]]
    BY <1>1 DEF map_remove, Restrict
  <2> QED BY <1>1, <2>1, <2>2 DEF used_regions
<1>10. \A r \in used_regions' : region_view'[r] = region_view[r] \/ r = path[layer - 1].ptr
  BY <1>8, <1>9 DEF WalkInv, TypeOK, p
<1> QED BY <1>6, <1>7, <1>9, <1>10

\* The frame above still stands in its directory.
LEMMA UnlinkDirKeepsWalk ==
  ASSUME WalkInv, UnlinkDir
  PROVE  WalkInv'
<1>1. /\ pc = "cleanup" /\ layer > 0 /\ layer' = layer - 1
      /\ UNCHANGED <<regions, pc, call, path, new_dir>>
  BY DEF UnlinkDir
<1> QED BY <1>1, UnlinkedIsGone, UpKeepsWalk

\* No other directory has become empty but the one above.
LEMMA UnlinkDirKeepsInv ==
  ASSUME IInv, UnlinkDir
  PROVE  IInv'
<1>1. /\ pc = "cleanup" /\ layer > 0 /\ layer' = layer - 1
      /\ UNCHANGED <<regions, pc, call, path, new_dir, old>>
  BY DEF UnlinkDir
<1> QED BY <1>1, InvWalks, UnlinkedIsGone, UpKeepsInv

\* unmap_aux leaves a directory that is not empty where it is.
LEMMA KeepDirKeepsWalk ==
  ASSUME WalkInv, KeepDir
  PROVE  WalkInv'
<1>1. /\ pc = "cleanup" /\ layer > 0 /\ ~is_directory_empty(ptr) /\ layer' = layer - 1
      /\ UNCHANGED <<region_view, regions, ghost_pt, pc, call, path, new_dir>>
      /\ UNCHANGED memVars
  BY DEF KeepDir, memVars
<1>2. TreeInv'
  BY <1>1, ReadOnlyKeepsTree DEF WalkInv
<1>3. used_regions' = used_regions /\ ghost_pt' = [r \in used_regions' |-> ghost_pt'[r]]
  BY <1>1 DEF used_regions, WalkInv, TypeOK
<1>4. region_view' \in [Regions -> [EntryIndices -> PDE]]
  BY <1>1 DEF WalkInv, TypeOK, PDE
<1> QED BY <1>1, <1>2, <1>3, <1>4, UpKeepsWalk

\* What is left there keeps it from being empty.
LEMMA KeepDirKeepsInv ==
  ASSUME IInv, KeepDir
  PROVE  IInv'
<1>1. /\ pc = "cleanup" /\ layer > 0 /\ ~is_directory_empty(ptr) /\ layer' = layer - 1
      /\ UNCHANGED <<region_view, regions, ghost_pt, pc, call, path, new_dir, old>>
      /\ UNCHANGED memVars
  BY DEF KeepDir, memVars
<1>2. TreeInv'
  BY <1>1, ReadOnlyKeepsTree DEF IInv
<1>3. used_regions' = used_regions /\ ghost_pt' = [r \in used_regions' |-> ghost_pt'[r]]
  BY <1>1 DEF used_regions, IInv, TypeOK
<1>4. region_view' \in [Regions -> [EntryIndices -> PDE]]
  BY <1>1 DEF IInv, TypeOK, PDE
<1> QED BY <1>1, <1>2, <1>3, <1>4, UpKeepsInv

(***************************************************************************)
(* The inductive invariant.                                                *)
(***************************************************************************)

\* The steps that return without a write.
LEMMA ReturnsKeepInv ==
  ASSUME IInv, MapOverlap \/ UnmapMissing \/ UnmapReturn \/ ResolvePage \/ ResolveEmpty
  PROVE  IInv'
<1>1. Return /\ UNCHANGED memVars
  BY DEF MapOverlap, UnmapMissing, UnmapReturn, ResolvePage, ResolveEmpty, memVars
<1>2. CASE MapOverlap
  <2>1. pc = "map" /\ is_mapping(entry)
    BY <1>2 DEF MapOverlap
  <2>2. idx \in EntryIndices
    BY <2>1, InvWalks, CallInRange, CurrentFrame
  <2>3. ~is_directory_empty(ptr)
    BY <2>1, <2>2 DEF is_directory_empty, entry
  <2> QED BY <1>1, <2>3, QuietReturnKeepsInv
<1>3. CASE UnmapReturn
  <2>1. ptr = CR3
    BY <1>3, InvWalks, CurrentIsRoot DEF UnmapReturn
  <2> QED BY <1>1, <2>1, QuietReturnKeepsInv
<1>4. CASE UnmapMissing \/ ResolvePage \/ ResolveEmpty
  <2>1. pc \notin {"map", "link", "cleanup"}
    BY <1>4 DEF UnmapMissing, ResolvePage, ResolveEmpty
  <2> QED BY <1>1, <2>1, QuietReturnKeepsInv
<1> QED BY <1>2, <1>3, <1>4

\* A step of something else.
LEMMA StutterKeepsInv ==
  ASSUME IInv, UNCHANGED vars
  PROVE  IInv'
<1>1. /\ UNCHANGED <<region_view, regions, ghost_pt>> /\ UNCHANGED memVars
      /\ UNCHANGED <<pc, call, layer, path, new_dir, old>>
  BY DEF vars, memVars, callVars
<1>2. TypeOK' /\ TreeInv'
  BY <1>1, ReadOnlyKeepsTree DEF IInv, TypeOK, used_regions
<1>3. CallInv' /\ BufferInv'
  BY <1>1 DEF IInv, RunInv, CallInv, ArgsInv, BufferInv
<1>4. LinkInv' /\ NothingWritten'
  BY <1>1 DEF IInv, RunInv, LinkInv, NothingWritten, is_directory_empty, used_regions,
              entry, ptr, idx
<1>5. PathIsChain' /\ NoEmptyDirectories'
  BY <1>1 DEF IInv, RunInv, PathIsChain, NoEmptyDirectories, is_directory_empty, used_regions
<1> QED BY <1>2, <1>3, <1>4, <1>5 DEF IInv, RunInv

\* Every step of the implementation keeps the inductive invariant.
LEMMA StepKeepsInv ==
  ASSUME IInv, [Next]_vars
  PROVE  IInv'
<1>1. CASE Call
  BY <1>1, CallMapKeepsInv, CallUnmapKeepsInv, CallResolveKeepsInv DEF Call
<1>2. CASE MapDescend \/ MapPage \/ MapAllocDir \/ MapLinkDir
  BY <1>2, MapDescendKeepsInv, MapPageKeepsInv, MapAllocDirKeepsInv, MapLinkDirKeepsInv
<1>3. CASE UnmapDescend \/ UnmapPage \/ UnlinkDir \/ KeepDir
  BY <1>3, UnmapDescendKeepsInv, UnmapPageKeepsInv, UnlinkDirKeepsInv, KeepDirKeepsInv
<1>4. CASE ResolveDescend
  BY <1>4, ResolveDescendKeepsInv
<1>5. CASE MapOverlap \/ UnmapMissing \/ UnmapReturn \/ ResolvePage \/ ResolveEmpty
  BY <1>5, ReturnsKeepInv
<1>6. CASE UNCHANGED vars
  BY <1>6, StutterKeepsInv
<1> QED BY <1>1, <1>2, <1>3, <1>4, <1>5, <1>6 DEF Next, Step

\* The inductive invariant holds between any two memory writes of any calls:
\* the linked directories form a tree placed over the address space, and a
\* running call holds a chain of them.
THEOREM InductiveInvariant == Spec => []IInv
<1>1. Init => IInv
  BY InitEstablishes
<1>2. IInv /\ [Next]_vars => IInv'
  BY StepKeepsInv
<1> QED BY <1>1, <1>2, PTL DEF Spec

(***************************************************************************)
(* What follows from it.                                                   *)
(***************************************************************************)

\* The directory entries in memory are exactly the tree that ghost_pt records,
\* each directory with one parent (PageTable::inv).
THEOREM TreeCorrect == Spec => []DirectoriesFormTree
<1>1. IInv => DirectoriesFormTree
  BY DEF IInv, TreeInv
<1> QED BY <1>1, InductiveInvariant, PTL

\* No page is in the root directory, and the frame of every page is aligned to
\* the size its layer gives it (l2_impl.rs:1384 and 1389 assume as much).
THEOREM PagesCorrect == Spec => []PagesAreWellPlaced
<1>1. IInv => PagesAreWellPlaced
  BY DEF IInv, TreeInv
<1> QED BY <1>1, InductiveInvariant, PTL

\* Between calls no directory but the root is empty: unmap frees what it
\* empties, map_frame leaves no directory without a page (empty directories,
\* l2_impl.rs:2170-2186).
THEOREM EmptyAreUnlinked == Spec => []NoEmptyDirectories
<1>1. IInv => NoEmptyDirectories
  BY DEF IInv, RunInv
<1> QED BY <1>1, InductiveInvariant, PTL

\* A call that reads within the page has an address inside the address space.
LEMMA IndexMeansInRange ==
  ASSUME IInv, pc # "idle", ReadInBounds
  PROVE  call.vaddr \in Nat /\ call.vaddr < UpperVaddr
<1>1. CASE pc = "resolve"
  <2>1. call.vaddr \in Nat
    BY <1>1, ImplAssumption DEF IInv, RunInv, CallInv, ArgsInv
  <2> QED BY <1>1, <2>1, InvWalks, ReadPastEnd, GeometryFacts DEF ReadInBounds
<1>2. CASE pc # "resolve"
  BY <1>2, InvWalks, CallInRange
<1> QED BY <1>1, <1>2

\* A running call stands in linked directories from the root down, whatever was
\* written since it passed them (the ghost arguments of the recursion stay
\* true).
THEOREM PathStaysLinked == Spec => []PathIsLinked
<1>1. IInv => PathIsLinked
  BY IndexMeansInRange DEF IInv, RunInv, PathIsChain, PathIsLinked
<1> QED BY <1>1, InductiveInvariant, PTL

\* alloc_page never finds the buffer of pages empty: one page for each layer
\* below the root is enough for a map_frame.
THEOREM BufferSuffices == Spec => []AllocNeverFails
<1>1. IInv => AllocNeverFails
  <2> SUFFICES ASSUME IInv, pc = "map", EntrySize[layer] # call.pte.frame.size,
                      Regions \ regions = {}
               PROVE  FALSE
    BY DEF AllocNeverFails
  <2>1. PICK l \in Layers \ {0} : call.pte.frame.size = EntrySize[l] /\ l >= layer
    BY DEF IInv, RunInv, CallInv, ArgsInv
  <2>2. layer \in Nat /\ l \in Nat /\ l <= LastLayer /\ LastLayer \in Nat /\ l # layer
    BY <2>1, SizeFacts DEF IInv, TypeOK
  <2>3. Cardinality(Regions \ regions) = 0
    BY FS_EmptySet
  <2>4. Cardinality(Regions \ regions) + layer >= LastLayer
    BY DEF IInv, RunInv, BufferInv
  <2> QED BY <2>1, <2>2, <2>3, <2>4
<1> QED BY <1>1, InductiveInvariant, PTL

\* No call reads beyond a directory page, if resolve is asked for addresses
\* inside the address space only; MMU and caller guarantee that, the code does
\* not.
THEOREM ReadsAreInBounds ==
  ASSUME ResolveVAddrs \subseteq 0 .. (UpperVaddr - 1)
  PROVE  Spec => []ReadsStayInPage
<1>1. IInv => ReadsStayInPage
  <2> SUFFICES ASSUME IInv, pc # "idle" PROVE ReadInBounds
    BY DEF ReadsStayInPage
  <2>1. call.vaddr \in Nat /\ call.vaddr < UpperVaddr
    <3>1. CASE pc = "resolve"
      <4>1. call.vaddr \in ResolveVAddrs
        BY <3>1 DEF IInv, RunInv, CallInv, ArgsInv
      <4>2. call.vaddr \in 0 .. (UpperVaddr - 1)
        BY <4>1
      <4> QED BY <4>2, GeometryFacts
    <3>2. CASE pc # "resolve"
      BY <3>2, InvWalks, CallInRange
    <3> QED BY <3>1, <3>2
  <2> QED BY <2>1, InvWalks, CurrentFrame DEF ReadInBounds
<1> QED BY <1>1, InductiveInvariant, PTL

\* A map_frame or unmap that fails has written nothing and allocated nothing
\* since it was called.
THEOREM FailuresLeaveMemory == Spec => FailedCallLeavesMemory
<1> DEFINE A == (pc \in {"map", "unmap"} /\ obs' # obs /\ obs'.result # PT!Ok)
                   => (region_view' = old.region_view /\ regions' = old.regions)
<1>1. ASSUME IInv, [Next]_vars PROVE [A]_vars
  <2> SUFFICES ASSUME Next, pc \in {"map", "unmap"}, obs' # obs, obs'.result # PT!Ok
               PROVE  region_view' = old.region_view /\ regions' = old.regions
    BY <1>1
  <2>1. MapOverlap \/ UnmapMissing
    <3>1. ~MapPage /\ ~UnmapPage
      BY DEF MapPage, UnmapPage, PT!MapObs, PT!UnmapObs
    <3>2. ~Call
      BY DEF Call, CallMap, CallUnmap, CallResolve, Begin
    <3>3. ~(MapDescend \/ MapAllocDir \/ MapLinkDir \/ UnmapDescend \/ UnlinkDir \/ KeepDir)
      BY DEF MapDescend, MapAllocDir, MapLinkDir, UnmapDescend, UnlinkDir, KeepDir
    <3>4. ~(UnmapReturn \/ ResolveDescend \/ ResolvePage \/ ResolveEmpty)
      BY DEF UnmapReturn, ResolveDescend, ResolvePage, ResolveEmpty
    <3> QED BY <3>1, <3>2, <3>3, <3>4 DEF Next, Step
  <2>2. UNCHANGED <<region_view, regions>>
    BY <2>1 DEF MapOverlap, UnmapMissing, memVars
  <2>3. CASE MapOverlap
    <3>1. pc = "map" /\ entry.P
      BY <2>3 DEF MapOverlap
    <3>2. idx \in EntryIndices
      BY <1>1, <3>1, InvWalks, CallInRange, CurrentFrame
    <3>3. ~is_directory_empty(ptr)
      BY <3>1, <3>2 DEF entry, is_directory_empty
    <3> QED BY <1>1, <2>2, <3>1, <3>3 DEF IInv, RunInv, NothingWritten
  <2>4. CASE UnmapMissing
    BY <1>1, <2>2, <2>4 DEF IInv, RunInv, NothingWritten, UnmapMissing
  <2> QED BY <2>1, <2>3, <2>4
<1>2. Spec => [][Next]_vars
  BY DEF Spec
<1> QED BY <1>1, <1>2, InductiveInvariant, PTL DEF FailedCallLeavesMemory

(***************************************************************************)
(* The implementation implements the page table specification, the         *)
(* counterpart of impl_u/l2_refinement.rs, and a walk of the MMU finds     *)
(* what its interpreted map says, which hardware.rs takes as an axiom.     *)
(***************************************************************************)


(***************************************************************************)
(* The walk as a recursive function.                                       *)
(***************************************************************************)

\* The recursive function of a walk exists, so that it can be reasoned about by
\* its equation.
LEMMA ReadFacts ==
  ASSUME NEW v
  PROVE  mmu_read(v) =
           [l \in Layers |->
              IF l = 0 THEN view_at(CR3, mmu_index(0, v))
              ELSE IF /\ is_mapping(mmu_read(v)[l - 1])
                      /\ is_dir(l - 1, mmu_read(v)[l - 1])
                   THEN view_at(mmu_read(v)[l - 1].addr, mmu_index(l, v))
                   ELSE mmu_read(v)[l - 1]]
<1> DEFINE First == view_at(CR3, mmu_index(0, v))
           Down(up, l) == IF is_mapping(up) /\ is_dir(l - 1, up)
                          THEN view_at(up.addr, mmu_index(l, v)) ELSE up
           Upto(n, f) == f = [l \in 0 .. n |-> IF l = 0 THEN First ELSE Down(f[l - 1], l)]
           Bad == {n \in Layers : ~\E f : Upto(n, f)}
<1>1. Bad = {}
  <2> HIDE DEF First, Down
  <2> SUFFICES ASSUME Bad # {} PROVE FALSE
    OBVIOUS
  <2>1. Bad \in SUBSET Nat
    BY SizeFacts
  <2>2. PICK k \in Bad : \A j \in Bad : k <= j
    <3> HIDE DEF Bad
    <3> QED BY <2>1, LeastElement
  <2>3. k # 0
    <3> DEFINE f == [l \in 0 .. 0 |-> First]
    <3>1. f = [l \in 0 .. 0 |-> IF l = 0 THEN First ELSE Down(f[l - 1], l)]
      OBVIOUS
    <3>2. Upto(0, f)
      BY <3>1
    <3> HIDE DEF f, Upto
    <3> QED BY <3>2, <2>2
  <2>4. k \in Nat /\ k - 1 \in Nat /\ k - 1 \in Layers /\ k - 1 < k
    BY <2>2, <2>3, SizeFacts, ArchInv DEF Layers
  <2>5. PICK f : Upto(k - 1, f)
    <3> HIDE DEF Upto
    <3>1. k - 1 \notin Bad
      BY <2>1, <2>2, <2>4
    <3> QED BY <2>4, <3>1
  <2> DEFINE g == [l \in 0 .. k |-> IF l = k THEN Down(f[k - 1], k) ELSE f[l]]
  <2>6. ASSUME NEW l \in 0 .. k
        PROVE  g[l] = IF l = 0 THEN First ELSE Down(g[l - 1], l)
    <3>1. l \in Nat /\ (l # 0 => l - 1 \in 0 .. k /\ l - 1 # k)
      BY <2>4
    <3>2. CASE l = k
      BY <2>3, <2>4, <3>1, <3>2
    <3>3. CASE l # k
      <4>1. l \in 0 .. (k - 1) /\ g[l] = f[l]
        BY <2>4, <3>3
      <4>2. f[l] = IF l = 0 THEN First ELSE Down(f[l - 1], l)
        BY <2>5, <4>1
      <4>3. l # 0 => g[l - 1] = f[l - 1]
        BY <2>4, <3>1
      <4> QED BY <4>1, <4>2, <4>3
    <3> QED BY <3>2, <3>3
  <2>7. g = [l \in 0 .. k |-> IF l = 0 THEN First ELSE Down(g[l - 1], l)]
    <3>1. g = [l \in 0 .. k |-> g[l]]
      OBVIOUS
    <3> HIDE DEF g
    <3> QED BY <2>6, <3>1
  <2>8. Upto(k, g)
    <3> HIDE DEF g
    <3> QED BY <2>7
  <2> HIDE DEF Upto, g
  <2> QED BY <2>2, <2>8
<1>2. PICK f : Upto(LastLayer, f)
  <2>1. LastLayer \in Layers
    BY ArchInv DEF Layers
  <2> HIDE DEF Upto
  <2> QED BY <1>1, <2>1
<1>3. f = [l \in Layers |-> IF l = 0 THEN view_at(CR3, mmu_index(0, v))
                            ELSE IF is_mapping(f[l - 1]) /\ is_dir(l - 1, f[l - 1])
                                 THEN view_at(f[l - 1].addr, mmu_index(l, v))
                                 ELSE f[l - 1]]
  BY <1>2 DEF Layers
<1> QED BY <1>3 DEF mmu_read

\* The bit field of the address that the MMU takes for an index is the index
\* the implementation computes from the base of the directory.
LEMMA IndexIsBitField ==
  ASSUME NEW l \in Layers, NEW b \in Nat, NEW v \in Nat,
         aligned(b, NumEntries * EntrySize[l]),
         between(v, b, b + NumEntries * EntrySize[l])
  PROVE  mmu_index(l, v) = index_for_vaddr(l, b, v)
<1> DEFINE S == EntrySize[l]
           i == (v - b) \div S
           r == (v - b) % S
<1>1. S \in Nat \ {0} /\ NumEntries \in Nat \ {0} /\ v - b \in Nat
  BY SizeFacts DEF between
<1>2. i \in Nat /\ r \in Nat /\ r < S /\ v - b = S * i + r
  BY <1>1, DivMod
<1>3. i \in EntryIndices
  BY IndexInSpan DEF index_for_vaddr
<1>4. i < NumEntries
  BY <1>1, <1>2, <1>3 DEF EntryIndices
<1>5. NumEntries * S \in Nat \ {0}
  BY <1>1
<1>6. PICK k \in Nat : b = k * (NumEntries * S)
  BY <1>5, AlignedIsMultiple
<1> HIDE DEF S, i, r
<1> DEFINE q == k * NumEntries + i
<1>7. q \in Nat /\ v = q * S + r
  BY <1>1, <1>2, <1>6
<1>8. (q * S + r) \div S = q
  <2> HIDE DEF q
  <2> QED BY <1>1, <1>2, <1>7, DivUnique
<1>9. v \div S = q
  BY <1>7, <1>8
<1>10. (k * NumEntries + i) % NumEntries = i
  BY <1>1, <1>2, <1>4, DivUnique
<1>11. (v \div S) % NumEntries = i
  BY <1>9, <1>10
<1> QED BY <1>11 DEF mmu_index, index_for_vaddr, S, i

\* Rounding an address down to the size of the entry it falls into gives the
\* base of the entry.
LEMMA EntryBaseIsRounding ==
  ASSUME NEW n \in Nat \ {0}, NEW b \in Nat, NEW v \in Nat,
         aligned(b, n), between(v, b, b + n)
  PROVE  v - (v % n) = b
<1>1. PICK k \in Nat : b = k * n
  BY AlignedIsMultiple
<1>2. v - b \in Nat /\ v - b < n /\ v = k * n + (v - b)
  BY <1>1 DEF between
<1>3. v % n = v - b
  BY <1>2, DivUnique
<1> QED BY <1>3

\* Expanded wherever they occur, to the end of the module.
USE DEF view_at, IsDirAt, IsPageAt, is_mapping, is_dir, is_page

(***************************************************************************)
(* The interpreted map and the page entries in memory.                     *)
(***************************************************************************)

\* interp holds exactly what the page entries of the linked directories say.
InterpMatches ==
  /\ interp = [b \in DOMAIN interp |-> interp[b]]
  /\ \A b : b \in DOMAIN interp <=> \E s \in Slots : b = SlotBase(s)
  /\ \A s \in Slots : interp[SlotBase(s)] = SlotPTE(s)
  /\ \A s, t \in Slots : SlotBase(s) = SlotBase(t) => s = t

\* A page entry of a linked directory, and the words it maps.
LEMMA SlotFacts ==
  ASSUME TypeOK, TreeInv, NEW s \in Slots
  PROVE  /\ s[1] \in used_regions /\ s[2] \in EntryIndices /\ s = <<s[1], s[2]>>
         /\ IsPageAt(s[1], s[2]) /\ ~IsDirAt(s[1], s[2])
         /\ ghost_pt[s[1]].layer \in Layers \ {0}
         /\ SlotBase(s) \in Nat
         /\ EntrySize[ghost_pt[s[1]].layer] \in Nat \ {0}
         /\ SlotBase(s) + EntrySize[ghost_pt[s[1]].layer] <= UpperVaddr
         /\ aligned(SlotBase(s), EntrySize[ghost_pt[s[1]].layer])
         /\ SlotPTE(s).frame.size = EntrySize[ghost_pt[s[1]].layer]
         /\ \A v : InEntry(v, s[1], s[2]) <=>
              between(v, SlotBase(s), SlotBase(s) + EntrySize[ghost_pt[s[1]].layer])
<1> DEFINE l == ghost_pt[s[1]].layer
<1>1. /\ s[1] \in used_regions /\ s[2] \in EntryIndices /\ s = <<s[1], s[2]>>
      /\ IsPageAt(s[1], s[2]) /\ ~IsDirAt(s[1], s[2])
  BY DEF Slots, used_regions
<1>2. l \in Layers /\ ghost_pt[s[1]].base \in Nat /\ EntrySize[l] \in Nat \ {0}
  BY <1>1, PlacedDirectory
<1>3. l # 0
  BY <1>2, SizeFacts DEF TreeInv, PagesAreWellPlaced
<1>4. /\ SlotBase(s) \in Nat
      /\ SlotBase(s) + EntrySize[l] <= ghost_pt[s[1]].base + NumEntries * EntrySize[l]
  BY <1>1, <1>2, EntryInSpan DEF SlotBase
<1>5. /\ aligned(ghost_pt[s[1]].base, NumEntries * EntrySize[l])
      /\ ghost_pt[s[1]].base + NumEntries * EntrySize[l] <= UpperVaddr
  BY <1>1 DEF TreeInv, DirectoriesSpan
<1>6. aligned(SlotBase(s), EntrySize[l])
  BY <1>1, <1>2, <1>5, EntryAligned DEF SlotBase
<1>7. SlotBase(s) + EntrySize[l] <= UpperVaddr
  <2>1. NumEntries * EntrySize[l] \in Nat
    BY <1>2, SizeFacts
  <2> QED BY <1>2, <1>4, <1>5, <2>1, GeometryFacts
<1>8. SlotPTE(s).frame.size = EntrySize[l]
  BY DEF SlotPTE, EntryPTE, MemRegion
<1>9. \A v : InEntry(v, s[1], s[2]) <=> between(v, SlotBase(s), SlotBase(s) + EntrySize[l])
  BY DEF InEntry, SlotBase
<1> QED BY <1>1, <1>2, <1>3, <1>4, <1>6, <1>7, <1>8, <1>9

\* The page entry whose words include v is the only leaf there.
LEMMA OneLeaf ==
  ASSUME TypeOK, TreeInv, NEW s \in Slots, NEW v \in Nat,
         between(v, SlotBase(s), SlotBase(s) + EntrySize[ghost_pt[s[1]].layer]),
         NEW r \in used_regions, NEW i \in EntryIndices, ~IsDirAt(r, i), InEntry(v, r, i)
  PROVE  s = <<r, i>>
<1>1. /\ s[1] \in used_regions /\ s[2] \in EntryIndices /\ s = <<s[1], s[2]>>
      /\ ~IsDirAt(s[1], s[2]) /\ InEntry(v, s[1], s[2])
  BY SlotFacts
<1>2. s[1] = r /\ s[2] = i
  BY <1>1, OneWalkEnd
<1> QED BY <1>1, <1>2

\* No two page entries map the same base address.
LEMMA SlotBaseInjective ==
  ASSUME TypeOK, TreeInv, NEW s \in Slots, NEW t \in Slots, SlotBase(s) = SlotBase(t)
  PROVE  s = t
<1>1. between(SlotBase(s), SlotBase(s), SlotBase(s) + EntrySize[ghost_pt[s[1]].layer])
  BY SlotFacts DEF between
<1>2. InEntry(SlotBase(s), t[1], t[2])
  <2>1. /\ SlotBase(t) \in Nat /\ EntrySize[ghost_pt[t[1]].layer] \in Nat \ {0}
        /\ \A v : InEntry(v, t[1], t[2]) <=>
              between(v, SlotBase(t), SlotBase(t) + EntrySize[ghost_pt[t[1]].layer])
    BY SlotFacts
  <2>2. between(SlotBase(t), SlotBase(t), SlotBase(t) + EntrySize[ghost_pt[t[1]].layer])
    BY <2>1 DEF between
  <2> QED BY <2>1, <2>2
<1> QED BY <1>1, <1>2, SlotFacts, OneLeaf

\* The interpreted map is well defined: one pair for each page entry.
LEMMA InterpFacts == TypeOK /\ TreeInv => InterpMatches
<1> SUFFICES ASSUME TypeOK, TreeInv PROVE InterpMatches
  OBVIOUS
<1> DEFINE D == {SlotBase(s) : s \in Slots}
           E(b) == SlotPTE(CHOOSE s \in Slots : SlotBase(s) = b)
<1>1. interp = [b \in D |-> E(b)]
  BY DEF interp
<1>2. \A b : b \in D <=> \E s \in Slots : b = SlotBase(s)
  OBVIOUS
<1>3. ASSUME NEW s \in Slots
      PROVE  SlotBase(s) \in D /\ E(SlotBase(s)) = SlotPTE(s)
  <2> DEFINE t == CHOOSE x \in Slots : SlotBase(x) = SlotBase(s)
  <2>1. t \in Slots /\ SlotBase(t) = SlotBase(s)
    OBVIOUS
  <2>2. t = s
    BY <2>1, SlotBaseInjective
  <2> QED BY <2>2
<1> HIDE DEF D, E
<1>4. DOMAIN interp = D /\ \A b \in D : interp[b] = E(b)
  BY <1>1
<1>5. interp = [b \in DOMAIN interp |-> interp[b]]
  BY <1>1
<1>6. \A s, t \in Slots : SlotBase(s) = SlotBase(t) => s = t
  BY SlotBaseInjective
<1> QED BY <1>2, <1>3, <1>4, <1>5, <1>6 DEF InterpMatches

\* The same in the state after a step.
LEMMA InterpFactsNext == TypeOK' /\ TreeInv' => InterpMatches'
BY InterpFacts, PTL

(***************************************************************************)
(* The steps that leave the interpreted map alone.                         *)
(***************************************************************************)

\* A step after which the page entries are the same leaves the interpreted map
\* alone.
LEMMA SameSlots ==
  ASSUME WalkInv, WalkInv',
         Slots' = Slots, \A s \in Slots : SlotBase(s)' = SlotBase(s) /\ SlotPTE(s)' = SlotPTE(s)
  PROVE  interp' = interp
<1>1. InterpMatches /\ InterpMatches'
  BY InterpFacts, InterpFactsNext DEF WalkInv
<1>2. DOMAIN interp' = DOMAIN interp
  BY <1>1 DEF InterpMatches
<1>3. \A b \in DOMAIN interp : interp'[b] = interp[b]
  BY <1>1 DEF InterpMatches
<1>4. /\ interp = [b \in DOMAIN interp |-> interp[b]]
      /\ interp' = [b \in DOMAIN interp' |-> interp'[b]]
  BY <1>1 DEF InterpMatches
<1> QED BY <1>2, <1>3, <1>4

\* A step that leaves memory alone leaves the interpreted map alone.
LEMMA SameMemory ==
  ASSUME WalkInv, WalkInv', UNCHANGED memVars
  PROVE  interp' = interp
<1>1. Slots' = Slots
  BY DEF memVars, Slots
<1>2. \A s \in Slots : SlotBase(s)' = SlotBase(s) /\ SlotPTE(s)' = SlotPTE(s)
  BY DEF memVars, SlotBase, SlotPTE
<1> QED BY <1>1, <1>2, SameSlots

\* A write outside the linked directories maps nothing.
LEMMA OtherPagesKeepInterp ==
  ASSUME WalkInv, WalkInv', UNCHANGED ghost_pt,
         \A r \in used_regions : region_view'[r] = region_view[r]
  PROVE  interp' = interp
<1>1. Slots' = Slots
  BY DEF Slots, used_regions
<1>2. \A s \in Slots : SlotBase(s)' = SlotBase(s) /\ SlotPTE(s)' = SlotPTE(s)
  BY DEF SlotBase, SlotPTE, Slots, used_regions
<1> QED BY <1>1, <1>2, SameSlots

\* Allocating a directory maps nothing.
LEMMA AllocKeepsInterp ==
  ASSUME WalkInv, WalkInv', MapAllocDir
  PROVE  interp' = interp
<1>1. UNCHANGED ghost_pt
  BY DEF MapAllocDir
<1>2. \A r \in used_regions : region_view'[r] = region_view[r]
  BY DEF MapAllocDir, alloc_page, WalkInv, TypeOK
<1> QED BY <1>1, <1>2, OtherPagesKeepInterp

\* Linking an empty directory maps nothing, so that the MMU may walk in
\* between.
LEMMA LinkKeepsInterp ==
  ASSUME WalkInv, WalkInv', MapLinkDir
  PROVE  interp' = interp
<1> DEFINE d == new_dir
           e == new_dir_entry(layer, d)
<1>1. /\ pc = "link" /\ write(ptr, idx, e)
      /\ ghost_pt' = map_insert(ghost_pt, d,
           [layer |-> layer + 1, base |-> entry_base(layer, path[layer].base, idx)])
  BY DEF MapLinkDir
<1>2. call.vaddr \in Nat /\ call.vaddr < UpperVaddr /\ layer # LastLayer
  BY <1>1, MapFrame
<1>3. /\ ptr \in used_regions /\ idx \in EntryIndices /\ ghost_pt[ptr].layer = layer
  BY <1>1, <1>2, CurrentFrame
<1>4. /\ d \in Regions \ used_regions /\ is_directory_empty(d)
      /\ ~is_mapping(view_at(ptr, idx)) /\ used_regions \subseteq Regions
  BY <1>1 DEF WalkInv, LinkInv, entry, TypeOK
<1>5. e \in PDE /\ e.P /\ ~e.PS
  BY <1>2, <1>4 DEF PDE, PageDirectoryEntry, new_dir_entry, new_entry
<1> HIDE DEF e, d
<1>6. \A r \in Regions : \A i \in EntryIndices :
        region_view'[r][i] = IF r = ptr /\ i = idx THEN e ELSE region_view[r][i]
  BY <1>1, <1>3, <1>4, <1>5, WriteEntry DEF WalkInv
<1>7. /\ used_regions' = used_regions \cup {d}
      /\ \A r \in used_regions : ghost_pt'[r] = ghost_pt[r]
  BY <1>1, <1>4 DEF map_insert, used_regions
<1>8. \A i \in EntryIndices : ~region_view'[d][i].P
  BY <1>3, <1>4, <1>6 DEF is_directory_empty
<1>9. \A r \in used_regions : \A i \in EntryIndices : 
        /\ IsPageAt(r, i)' <=> IsPageAt(r, i)
        /\ IsPageAt(r, i) => region_view'[r][i] = region_view[r][i]
  BY <1>2, <1>3, <1>4, <1>5, <1>6, <1>7
<1>10. Slots' = Slots
  BY <1>7, <1>8, <1>9 DEF Slots, used_regions
<1>11. \A s \in Slots : SlotBase(s)' = SlotBase(s) /\ SlotPTE(s)' = SlotPTE(s)
  BY <1>7, <1>9 DEF SlotBase, SlotPTE, Slots, used_regions
<1> QED BY <1>10, <1>11, SameSlots

\* Unlinking an empty directory unmaps nothing.
LEMMA UnlinkKeepsInterp ==
  ASSUME WalkInv, WalkInv', UnlinkDir
  PROVE  interp' = interp
<1> DEFINE p == path[layer - 1].ptr
           n == index_for_vaddr(layer - 1, path[layer - 1].base, call.vaddr)
<1>1. /\ pc = "cleanup" /\ layer > 0 /\ is_directory_empty(ptr)
      /\ write(p, n, ZeroEntry) /\ ghost_pt' = map_remove(ghost_pt, ptr)
  BY DEF UnlinkDir
<1>2. call.vaddr \in Nat /\ call.vaddr < UpperVaddr
  BY <1>1, CallInRange
<1>3. layer \in Nat /\ layer - 1 \in 0 .. (layer - 1)
  <2>1. layer \in Nat
    BY SizeFacts DEF WalkInv, TypeOK
  <2> QED BY <1>1, <2>1
<1>4. p \in used_regions /\ n \in EntryIndices /\ IsDirAt(p, n) /\ used_regions \subseteq Regions
  BY <1>1, <1>2, <1>3, UpperFrame DEF WalkInv, TypeOK
<1> HIDE DEF p, n
<1>5. \A r \in Regions : \A i \in EntryIndices :
        region_view'[r][i] = IF r = p /\ i = n THEN ZeroEntry ELSE region_view[r][i]
  BY <1>1, <1>4, ConstantEntries, WriteEntry DEF WalkInv
<1>6. /\ used_regions' = used_regions \ {ptr}
      /\ \A r \in used_regions \ {ptr} : ghost_pt'[r] = ghost_pt[r]
  BY <1>1, RemoveFacts DEF used_regions
<1>7. \A i \in EntryIndices : ~IsPageAt(ptr, i)
  BY <1>1 DEF is_directory_empty
<1>8. \A r \in used_regions \ {ptr} : \A i \in EntryIndices : 
        /\ IsPageAt(r, i)' <=> IsPageAt(r, i)
        /\ IsPageAt(r, i) => region_view'[r][i] = region_view[r][i]
  BY <1>4, <1>5, <1>6, ConstantEntries
<1>9. Slots' = Slots
  BY <1>6, <1>7, <1>8 DEF Slots, used_regions
<1>10. \A s \in Slots : SlotBase(s)' = SlotBase(s) /\ SlotPTE(s)' = SlotPTE(s)
  BY <1>6, <1>7, <1>8 DEF SlotBase, SlotPTE, Slots, used_regions
<1> QED BY <1>9, <1>10, SameSlots

(***************************************************************************)
(* Overlaps and leaves.                                                    *)
(***************************************************************************)

\* The instance of PageTableSpec speaks of the same operators.
LEMMA SpecVocabulary ==
  ASSUME NEW m, NEW b, NEW pte
  PROVE  /\ PT!map_insert(m, b, pte) = map_insert(m, b, pte)
         /\ PT!map_remove(m, b) = map_remove(m, b)
         /\ PT!Covers(m, b, pte) <=> Covers(m, b, pte)
         /\ PT!candidate_mapping_overlaps_existing_vmem(m, b, pte)
              <=> candidate_mapping_overlaps_existing_vmem(m, b, pte)
         /\ PT!EmptyMap = EmptyMap
<1>1. PT!map_insert(m, b, pte) = map_insert(m, b, pte)
  BY DEF PT!map_insert, map_insert
<1>2. PT!map_remove(m, b) = map_remove(m, b)
  BY DEF PT!map_remove, map_remove, PT!Restrict, Restrict
<1>3. PT!Covers(m, b, pte) <=> Covers(m, b, pte)
  BY DEF PT!Covers, Covers, PT!between, between
<1>4. PT!candidate_mapping_overlaps_existing_vmem(m, b, pte)
        <=> candidate_mapping_overlaps_existing_vmem(m, b, pte)
  BY DEF PT!candidate_mapping_overlaps_existing_vmem,
         candidate_mapping_overlaps_existing_vmem, PT!overlap, overlap,
         PT!MemRegion, MemRegion
<1>5. PT!EmptyMap = EmptyMap
  BY DEF PT!EmptyMap, EmptyMap
<1> QED BY <1>1, <1>2, <1>3, <1>4, <1>5

\* Two regions that overlap share a word.
LEMMA OverlapSharesWord ==
  ASSUME NEW b1 \in Nat, NEW s1 \in Nat \ {0}, NEW b2 \in Nat, NEW s2 \in Nat \ {0},
         overlap(MemRegion(b1, s1), MemRegion(b2, s2))
  PROVE  \E x \in Nat : between(x, b1, b1 + s1) /\ between(x, b2, b2 + s2)
<1>1. \/ b1 <= b2 /\ b2 < b1 + s1
      \/ b2 < b1 /\ b1 < b2 + s2
  BY DEF overlap, MemRegion
<1>2. CASE b1 <= b2 /\ b2 < b1 + s1
  <2>1. between(b2, b1, b1 + s1) /\ between(b2, b2, b2 + s2)
    BY <1>2 DEF between
  <2> QED BY <2>1
<1>3. CASE b2 < b1 /\ b1 < b2 + s2
  <2>1. between(b1, b1, b1 + s1) /\ between(b1, b2, b2 + s2)
    BY <1>3 DEF between
  <2> QED BY <2>1
<1> QED BY <1>1, <1>2, <1>3

\* A mapping overlaps with what is mapped if and only if it shares a word with
\* a page entry.
LEMMA OverlapMeansSlot ==
  ASSUME WalkInv, NEW vaddr \in Nat, NEW pte, pte.frame.size \in Nat \ {0}
  PROVE  candidate_mapping_overlaps_existing_vmem(interp, vaddr, pte) <=>
           \E s \in Slots : \E x \in Nat :
             /\ between(x, vaddr, vaddr + pte.frame.size)
             /\ InEntry(x, s[1], s[2])
<1>1. InterpMatches
  BY InterpFacts DEF WalkInv
<1>2. ASSUME NEW s \in Slots
      PROVE  /\ SlotBase(s) \in DOMAIN interp /\ SlotBase(s) \in Nat
             /\ interp[SlotBase(s)].frame.size = EntrySize[ghost_pt[s[1]].layer]
             /\ EntrySize[ghost_pt[s[1]].layer] \in Nat \ {0}
             /\ \A x : InEntry(x, s[1], s[2]) <=>
                  between(x, SlotBase(s), SlotBase(s) + EntrySize[ghost_pt[s[1]].layer])
  BY <1>1, SlotFacts DEF InterpMatches, WalkInv
<1>3. ASSUME NEW b \in DOMAIN interp,
             overlap(MemRegion(vaddr, pte.frame.size), MemRegion(b, interp[b].frame.size))
      PROVE  \E s \in Slots : \E x \in Nat :
               /\ between(x, vaddr, vaddr + pte.frame.size)
               /\ InEntry(x, s[1], s[2])
  <2>1. PICK s \in Slots : b = SlotBase(s)
    BY <1>1 DEF InterpMatches
  <2> DEFINE n == EntrySize[ghost_pt[s[1]].layer]
  <2>2. b \in Nat /\ n \in Nat \ {0} /\ interp[b].frame.size = n
    BY <1>2, <2>1
  <2>3. PICK x \in Nat : between(x, vaddr, vaddr + pte.frame.size) /\ between(x, b, b + n)
    <3> HIDE DEF n
    <3> QED BY <1>3, <2>2, OverlapSharesWord
  <2>4. InEntry(x, s[1], s[2])
    BY <1>2, <2>1, <2>3
  <2> QED BY <2>3, <2>4
<1>4. ASSUME NEW s \in Slots, NEW x \in Nat,
             between(x, vaddr, vaddr + pte.frame.size), InEntry(x, s[1], s[2])
      PROVE  candidate_mapping_overlaps_existing_vmem(interp, vaddr, pte)
  <2> DEFINE n == EntrySize[ghost_pt[s[1]].layer]
             b == SlotBase(s)
  <2>1. b \in DOMAIN interp /\ b \in Nat /\ n \in Nat /\ interp[b].frame.size = n
    BY <1>2
  <2>2. between(x, b, b + n)
    BY <1>2, <1>4
  <2> HIDE DEF n, b
  <2>3. overlap(MemRegion(vaddr, pte.frame.size), MemRegion(b, n))
    BY <1>4, <2>1, <2>2, SharedWordOverlaps
  <2> QED BY <2>1, <2>3 DEF candidate_mapping_overlaps_existing_vmem
<1> QED BY <1>3, <1>4 DEF candidate_mapping_overlaps_existing_vmem

\* Below an entry that refers to a directory there is a page entry, when no
\* directory is empty: the reason why map_frame may report an overlap without
\* looking further (l2_impl.rs:1424-1428, 1447-1451).
LEMMA DirectoryHoldsPage ==
  ASSUME TypeOK, TreeInv, NEW r \in used_regions, NEW i \in EntryIndices, IsDirAt(r, i),
         \A q \in used_regions \ {CR3} :
           ghost_pt[q].layer > ghost_pt[r].layer /\ InEntry(ghost_pt[q].base, r, i)
             => ~is_directory_empty(q)
  PROVE  \E s \in Slots : InEntry(SlotBase(s), r, i) /\ InEntry(SlotBase(s), s[1], s[2])
<1> DEFINE lo == entry_base(ghost_pt[r].layer, ghost_pt[r].base, i)
           hi == lo + EntrySize[ghost_pt[r].layer]
           Span(q) == NumEntries * EntrySize[ghost_pt[q].layer]
           Inside(q) == lo <= ghost_pt[q].base /\ ghost_pt[q].base + Span(q) <= hi
           Below(q) == ghost_pt[q].layer > ghost_pt[r].layer
           In == {q \in used_regions \ {CR3} : Inside(q) /\ Below(q)}
           T == {LastLayer - ghost_pt[q].layer : q \in In}
<1>0. /\ ghost_pt[r].layer \in Layers /\ ghost_pt[r].base \in Nat
      /\ EntrySize[ghost_pt[r].layer] \in Nat \ {0}
  BY PlacedDirectory
<1>1. lo \in Nat /\ hi \in Nat
  <2>1. lo \in Nat
    BY <1>0, EntryInSpan
  <2> HIDE DEF lo
  <2> QED BY <1>0, <2>1
<1>2. view_at(r, i).addr \in In
  <2> DEFINE d == view_at(r, i).addr
  <2>1. /\ d \in used_regions /\ d # CR3
        /\ ghost_pt[d].layer = ghost_pt[r].layer + 1 /\ ghost_pt[d].base = lo
        /\ ghost_pt[r].layer # LastLayer /\ ghost_pt[r].layer \in Layers
    <3>1. /\ d \in used_regions /\ d # CR3
          /\ ghost_pt[d] = [layer |-> ghost_pt[r].layer + 1, base |-> SlotBase(<<r, i>>)]
          /\ SlotBase(<<r, i>>) = lo
          /\ ghost_pt[r].layer # LastLayer
      BY DirEntry
    <3> HIDE DEF d, lo
    <3> QED BY <1>0, <3>1
  <2>2. Span(d) = EntrySize[ghost_pt[r].layer]
    BY <2>1, SizeFacts
  <2>3. Below(d)
    BY <2>1, SizeFacts
  <2> QED BY <1>1, <2>1, <2>2, <2>3
<1>3. T \in SUBSET Nat /\ T # {}
  <2>1. \A q \in In : LastLayer - ghost_pt[q].layer \in Nat
    <3> SUFFICES ASSUME NEW q \in used_regions PROVE LastLayer - ghost_pt[q].layer \in Nat
      OBVIOUS
    <3>1. ghost_pt[q].layer \in Layers
      BY PlacedDirectory
    <3>2. ghost_pt[q].layer \in Nat /\ ghost_pt[q].layer <= LastLayer /\ LastLayer \in Nat
      BY <3>1, SizeFacts
    <3> QED BY <3>2
  <2> QED BY <1>2, <2>1
<1>4. PICK n \in T : \A k \in T : n <= k
  <2> HIDE DEF T
  <2> QED BY <1>3, LeastElement
<1>5. PICK q \in In : n = LastLayer - ghost_pt[q].layer
  BY <1>4
<1>6. /\ q \in used_regions /\ q # CR3 /\ Inside(q) /\ Below(q)
      /\ ghost_pt[q].layer \in Layers /\ ghost_pt[q].base \in Nat
      /\ EntrySize[ghost_pt[q].layer] \in Nat \ {0} /\ Span(q) \in Nat
  <2>1. q \in used_regions /\ q # CR3 /\ Inside(q) /\ Below(q)
    BY <1>5
  <2>2. /\ ghost_pt[q].layer \in Layers /\ ghost_pt[q].base \in Nat
        /\ EntrySize[ghost_pt[q].layer] \in Nat \ {0}
    BY <2>1, PlacedDirectory
  <2>3. Span(q) \in Nat
    BY <2>2, SizeFacts
  <2> QED BY <2>1, <2>2, <2>3
<1>7. PICK j \in EntryIndices : is_mapping(view_at(q, j))
  <2>1. Span(q) \in Nat \ {0}
    BY <1>6, SizeFacts
  <2>2. between(ghost_pt[q].base, lo, hi)
    <3> HIDE DEF lo, hi, Span
    <3> QED BY <1>1, <1>6, <2>1 DEF between
  <2>3. InEntry(ghost_pt[q].base, r, i)
    BY <2>2 DEF InEntry
  <2>4. ~is_directory_empty(q)
    BY <1>6, <2>3
  <2> QED BY <2>4 DEF is_directory_empty
<1> DEFINE b == entry_base(ghost_pt[q].layer, ghost_pt[q].base, j)
<1>8. /\ b \in Nat /\ ghost_pt[q].base <= b
      /\ b + EntrySize[ghost_pt[q].layer] <= ghost_pt[q].base + Span(q)
  BY <1>6, EntryInSpan
<1>9. lo <= b /\ b + EntrySize[ghost_pt[q].layer] <= hi
  <2> HIDE DEF lo, hi, Span, b
  <2> QED BY <1>1, <1>6, <1>8
<1>10. ~IsDirAt(q, j)
  <2> SUFFICES ASSUME IsDirAt(q, j) PROVE FALSE
    OBVIOUS
  <2> DEFINE d == view_at(q, j).addr
  <2>1. /\ d \in used_regions /\ d # CR3
        /\ ghost_pt[d].layer = ghost_pt[q].layer + 1 /\ ghost_pt[d].base = b
        /\ ghost_pt[q].layer # LastLayer
    <3>1. /\ d \in used_regions /\ d # CR3
          /\ ghost_pt[d] = [layer |-> ghost_pt[q].layer + 1, base |-> SlotBase(<<q, j>>)]
          /\ SlotBase(<<q, j>>) = b
          /\ ghost_pt[q].layer # LastLayer
      BY <1>6, DirEntry
    <3> HIDE DEF d, b
    <3> QED BY <1>6, <3>1
  <2>2. Span(d) = EntrySize[ghost_pt[q].layer]
    BY <1>6, <2>1, SizeFacts
  <2>6. Below(d)
    BY <1>0, <1>6, <2>1, SizeFacts
  <2>3. d \in In
    BY <1>9, <2>1, <2>2, <2>6
  <2>4. LastLayer - (ghost_pt[q].layer + 1) \in T
    BY <2>1, <2>3
  <2>5. LastLayer \in Nat /\ ghost_pt[q].layer \in Nat
    BY <1>6, SizeFacts
  <2> HIDE DEF T, In, d
  <2> QED BY <1>4, <1>5, <2>4, <2>5
<1>11. <<q, j>> \in Slots /\ SlotBase(<<q, j>>) = b
  BY <1>6, <1>7, <1>10 DEF Slots, used_regions, SlotBase
<1>12. InEntry(b, r, i) /\ InEntry(b, q, j)
  <2>1. between(b, lo, hi)
    <3> HIDE DEF lo, hi, b
    <3> QED BY <1>1, <1>6, <1>8, <1>9 DEF between
  <2>2. between(b, b, b + EntrySize[ghost_pt[q].layer])
    <3> HIDE DEF b
    <3> QED BY <1>6, <1>8 DEF between
  <2> QED BY <2>1, <2>2 DEF InEntry
<1> QED BY <1>11, <1>12

(***************************************************************************)
(* The steps that decide a call.                                           *)
(***************************************************************************)

\* An aligned address is the base of the entry the walk found for it.
LEMMA EntryIsAtAddress ==
  ASSUME WalkInv, pc # "idle", call.vaddr \in Nat, call.vaddr < UpperVaddr,
         aligned(call.vaddr, EntrySize[layer])
  PROVE  entry_base(layer, path[layer].base, idx) = call.vaddr
<1> DEFINE b == entry_base(layer, path[layer].base, idx)
<1>1. /\ ptr \in used_regions /\ idx \in EntryIndices
      /\ layer \in Layers /\ path[layer].base \in Nat
      /\ ghost_pt[ptr] = [layer |-> layer, base |-> path[layer].base]
      /\ InEntry(call.vaddr, ptr, idx)
  BY CurrentFrame
<1>2. ghost_pt[ptr].layer = layer /\ ghost_pt[ptr].base = path[layer].base
  BY <1>1
<1>3. between(call.vaddr, b, b + EntrySize[layer])
  BY <1>1, <1>2 DEF InEntry
<1>4. aligned(path[layer].base, NumEntries * EntrySize[layer])
  <2>1. aligned(ghost_pt[ptr].base, NumEntries * EntrySize[ghost_pt[ptr].layer])
    BY <1>1 DEF WalkInv, TreeInv, DirectoriesSpan
  <2> QED BY <1>2, <2>1
<1>5. aligned(b, EntrySize[layer]) /\ b \in Nat
  BY <1>1, <1>4, EntryAligned, EntryInSpan
<1>6. EntrySize[layer] \in Nat \ {0}
  BY <1>1, SizeFacts
<1> HIDE DEF b
<1>7. call.vaddr = b
  BY <1>3, <1>5, <1>6, AlignedInEntry
<1> QED BY <1>7 DEF b

\* The entry a call looks at, among the page entries.
LEMMA CurrentSlot ==
  ASSUME WalkInv, pc # "idle", call.vaddr \in Nat, call.vaddr < UpperVaddr
  PROVE  /\ <<ptr, idx>> \in Slots <=> is_mapping(entry) /\ is_page(layer, entry)
         /\ SlotBase(<<ptr, idx>>) = entry_base(layer, path[layer].base, idx)
         /\ SlotPTE(<<ptr, idx>>) = EntryPTE(layer, entry)
         /\ is_mapping(entry) /\ is_dir(layer, entry) <=> IsDirAt(ptr, idx)
<1>1. /\ ptr \in used_regions /\ idx \in EntryIndices
      /\ ghost_pt[ptr] = [layer |-> layer, base |-> path[layer].base]
  BY CurrentFrame
<1>2. ghost_pt[ptr].layer = layer /\ ghost_pt[ptr].base = path[layer].base
  BY <1>1
<1>3. /\ SlotBase(<<ptr, idx>>) = entry_base(layer, path[layer].base, idx)
      /\ SlotPTE(<<ptr, idx>>) = EntryPTE(layer, entry)
  BY <1>2 DEF SlotBase, SlotPTE, entry
<1> QED BY <1>1, <1>2, <1>3 DEF Slots, used_regions, entry

\* A call that has found a leaf for its address has found the only one.
LEMMA OnlyCurrentSlot ==
  ASSUME WalkInv, pc # "idle", call.vaddr \in Nat, call.vaddr < UpperVaddr,
         ~(is_mapping(entry) /\ is_dir(layer, entry)),
         NEW s \in Slots, NEW v \in Nat, InEntry(v, ptr, idx), InEntry(v, s[1], s[2])
  PROVE  s = <<ptr, idx>>
<1>1. ptr \in used_regions /\ idx \in EntryIndices /\ ~IsDirAt(ptr, idx)
  BY CurrentFrame, CurrentSlot
<1>2. between(v, SlotBase(s), SlotBase(s) + EntrySize[ghost_pt[s[1]].layer])
  BY SlotFacts DEF WalkInv
<1> QED BY <1>1, <1>2, OneLeaf DEF WalkInv

\* The write of map_frame's page entry inserts the mapping asked for and
\* nothing else, where nothing was mapped.
LEMMA MapPageInserts ==
  ASSUME WalkInv, WalkInv', MapPage
  PROVE  /\ interp' = map_insert(interp, call.vaddr, call.pte)
         /\ ~candidate_mapping_overlaps_existing_vmem(interp, call.vaddr, call.pte)
<1> DEFINE e == new_page_entry(layer, call.pte)
<1>1. /\ pc = "map" /\ ~is_mapping(entry) /\ EntrySize[layer] = call.pte.frame.size
      /\ write(ptr, idx, e) /\ UNCHANGED <<regions, ghost_pt>>
  BY DEF MapPage
<1>2. /\ call.vaddr \in Nat /\ call.vaddr < UpperVaddr
      /\ call.pte \in PageTableEntry
      /\ aligned(call.vaddr, EntrySize[layer])
  BY <1>1, MapFrame
<1>3. /\ ptr \in used_regions /\ idx \in EntryIndices /\ layer \in Layers
      /\ ghost_pt[ptr] = [layer |-> layer, base |-> path[layer].base]
      /\ path[layer].base \in Nat
  BY <1>1, <1>2, CurrentFrame
<1>4. entry_base(layer, path[layer].base, idx) = call.vaddr
  BY <1>1, <1>2, EntryIsAtAddress
<1>5. e \in PDE /\ e.P /\ (e.PS <=> layer # LastLayer) /\ e.addr = call.pte.frame.base
      /\ flags(e) = call.pte.flags
  BY <1>2, PageEntry
<1> HIDE DEF e
<1>6. /\ used_regions' = used_regions /\ used_regions \subseteq Regions
      /\ \A r \in used_regions : \A i \in EntryIndices :
           region_view'[r][i] = IF r = ptr /\ i = idx THEN e ELSE region_view[r][i]
  <2>1. used_regions' = used_regions /\ used_regions \subseteq Regions
    BY <1>1 DEF used_regions, WalkInv, TypeOK
  <2> QED BY <1>1, <1>3, <1>5, <2>1, WriteEntry DEF WalkInv
<1>7. <<ptr, idx>> \notin Slots
  BY <1>1, <1>2, CurrentSlot
<1>8. PICK s : s = <<ptr, idx>>
  OBVIOUS
<1>9. s[1] = ptr /\ s[2] = idx
  BY <1>8
<1>10. Slots' = Slots \cup {s}
  BY <1>1, <1>3, <1>5, <1>6, <1>8, <1>9 DEF Slots, used_regions
<1>11. SlotBase(s)' = call.vaddr /\ SlotPTE(s)' = call.pte
  <2>1. region_view'[s[1]][s[2]] = e /\ ghost_pt'[s[1]] = [layer |-> layer, base |-> path[layer].base]
    BY <1>1, <1>3, <1>6, <1>9
  <2>2. SlotBase(s)' = entry_base(layer, path[layer].base, idx)
    BY <1>9, <2>1 DEF SlotBase
  <2>3. SlotPTE(s)' = [frame |-> MemRegion(e.addr, EntrySize[layer]), flags |-> flags(e)]
    BY <2>1 DEF SlotPTE, EntryPTE
  <2>4. call.pte = [frame |-> MemRegion(call.pte.frame.base, call.pte.frame.size), flags |-> call.pte.flags]
    BY <1>2 DEF PageTableEntry, MemRegion
  <2> QED BY <1>1, <1>4, <1>5, <2>2, <2>3, <2>4
<1>12. \A t \in Slots : SlotBase(t)' = SlotBase(t) /\ SlotPTE(t)' = SlotPTE(t)
  <2> SUFFICES ASSUME NEW t \in Slots
               PROVE  SlotBase(t)' = SlotBase(t) /\ SlotPTE(t)' = SlotPTE(t)
    OBVIOUS
  <2>1. t # s /\ t \in used_regions \X EntryIndices
    BY <1>7, <1>8 DEF Slots, used_regions
  <2>2. region_view'[t[1]][t[2]] = region_view[t[1]][t[2]]
    BY <1>6, <1>8, <2>1
  <2> QED BY <1>1, <2>2 DEF SlotBase, SlotPTE
<1>13. interp' = map_insert(interp, call.vaddr, call.pte)
  <2> DEFINE m == map_insert(interp, call.vaddr, call.pte)
  <2>1. InterpMatches /\ InterpMatches'
    BY InterpFacts, InterpFactsNext DEF WalkInv
  <2>2. /\ DOMAIN m = DOMAIN interp \cup {call.vaddr}
        /\ m = [b \in DOMAIN m |-> m[b]]
        /\ m[call.vaddr] = call.pte
        /\ \A b \in DOMAIN interp : b # call.vaddr => m[b] = interp[b]
    BY DEF map_insert
  <2> HIDE DEF m
  <2>3. DOMAIN interp' = DOMAIN m
    <3>1. \A b : b \in DOMAIN interp' <=> \E t \in Slots' : b = SlotBase(t)'
      BY <2>1 DEF InterpMatches
    <3>2. \A b : b \in DOMAIN interp <=> \E t \in Slots : b = SlotBase(t)
      BY <2>1 DEF InterpMatches
    <3> QED BY <1>10, <1>11, <1>12, <2>2, <3>1, <3>2
  <2>4. ASSUME NEW t \in Slots' PROVE interp'[SlotBase(t)'] = m[SlotBase(t)']
    <3>1. interp'[SlotBase(t)'] = SlotPTE(t)'
      BY <2>1 DEF InterpMatches
    <3>2. CASE t = s
      BY <1>11, <2>2, <3>1, <3>2
    <3>3. CASE t # s
      <4>1. t \in Slots /\ SlotBase(t) \in DOMAIN interp /\ interp[SlotBase(t)] = SlotPTE(t)
        BY <1>10, <2>1, <3>3 DEF InterpMatches
      <4>2. SlotBase(t) # call.vaddr
        <5>1. s \in Slots' /\ t \in Slots'
          BY <1>10
        <5>2. SlotBase(t)' = SlotBase(s)' => t = s
          BY <2>1, <5>1 DEF InterpMatches
        <5> QED BY <1>11, <1>12, <3>3, <4>1, <5>2
      <4> QED BY <1>12, <2>2, <3>1, <4>1, <4>2
    <3> QED BY <3>2, <3>3
  <2>5. \A b \in DOMAIN interp' : interp'[b] = m[b]
    BY <2>1, <2>4 DEF InterpMatches
  <2>6. interp' = [b \in DOMAIN interp' |-> interp'[b]]
    BY <2>1 DEF InterpMatches
  <2>7. interp' = m
    BY <2>2, <2>3, <2>5, <2>6
  <2> QED BY <2>7 DEF m
<1>14. ~candidate_mapping_overlaps_existing_vmem(interp, call.vaddr, call.pte)
  <2>1. call.pte.frame.size \in Nat \ {0}
    BY <1>1, <1>3, SizeFacts
  <2> SUFFICES ASSUME NEW t \in Slots, NEW x \in Nat,
                      between(x, call.vaddr, call.vaddr + call.pte.frame.size),
                      InEntry(x, t[1], t[2])
               PROVE  FALSE
    BY <1>2, <2>1, OverlapMeansSlot
  <2>2. InEntry(x, ptr, idx)
    BY <1>1, <1>3, <1>4 DEF InEntry
  <2> QED BY <1>1, <1>2, <1>7, <2>2, OnlyCurrentSlot
<1> QED BY <1>13, <1>14

\* The first write of unmap removes the mapping at the address and nothing
\* else.
LEMMA ClearEntryRemoves ==
  ASSUME WalkInv, WalkInv',
         pc = "unmap", is_mapping(entry), is_page(layer, entry),
         aligned(call.vaddr, EntrySize[layer]),
         write(ptr, idx, ZeroEntry), UNCHANGED <<regions, ghost_pt>>
  PROVE  /\ interp' = map_remove(interp, call.vaddr)
         /\ call.vaddr \in DOMAIN interp /\ interp[call.vaddr] = EntryPTE(layer, entry)
<1>1. call.vaddr \in Nat /\ call.vaddr < UpperVaddr
  BY CallInRange
<1>2. ptr \in used_regions /\ idx \in EntryIndices
  BY <1>1, CurrentFrame
<1>3. /\ <<ptr, idx>> \in Slots
      /\ SlotBase(<<ptr, idx>>) = call.vaddr
  BY <1>1, CurrentSlot, EntryIsAtAddress
<1>4. /\ used_regions' = used_regions /\ used_regions \subseteq Regions
      /\ \A r \in used_regions : \A i \in EntryIndices :
           region_view'[r][i] = IF r = ptr /\ i = idx THEN ZeroEntry ELSE region_view[r][i]
  <2>1. used_regions' = used_regions /\ used_regions \subseteq Regions
    BY DEF used_regions, WalkInv, TypeOK
  <2> QED BY <1>2, <2>1, ConstantEntries, WriteEntry DEF WalkInv
<1>5. PICK s : s = <<ptr, idx>>
  OBVIOUS
<1>6. s[1] = ptr /\ s[2] = idx
  BY <1>5
<1>7. Slots' = Slots \ {s}
  BY <1>2, <1>4, <1>5, <1>6, ConstantEntries DEF Slots, used_regions
<1>8. \A t \in Slots \ {s} : SlotBase(t)' = SlotBase(t) /\ SlotPTE(t)' = SlotPTE(t)
  <2> SUFFICES ASSUME NEW t \in Slots \ {s}
               PROVE  SlotBase(t)' = SlotBase(t) /\ SlotPTE(t)' = SlotPTE(t)
    OBVIOUS
  <2>1. t \in used_regions \X EntryIndices
    BY DEF Slots, used_regions
  <2>2. region_view'[t[1]][t[2]] = region_view[t[1]][t[2]]
    BY <1>4, <1>5, <2>1
  <2> QED BY <2>2 DEF SlotBase, SlotPTE
<1> DEFINE m == map_remove(interp, call.vaddr)
<1>9. InterpMatches /\ InterpMatches'
  BY InterpFacts, InterpFactsNext DEF WalkInv
<1>10. /\ DOMAIN m = DOMAIN interp \ {call.vaddr}
       /\ m = [b \in DOMAIN m |-> m[b]]
       /\ \A b \in DOMAIN m : m[b] = interp[b]
  <2>1. m = [b \in DOMAIN m |-> m[b]]
    BY DEF map_remove, Restrict
  <2>2. /\ DOMAIN m = DOMAIN interp \ {call.vaddr}
        /\ \A x \in DOMAIN interp \ {call.vaddr} : m[x] = interp[x]
    BY RemoveFacts
  <2> HIDE DEF m
  <2> QED BY <2>1, <2>2
<1> HIDE DEF m
<1>11. \A t \in Slots \ {s} : SlotBase(t) # call.vaddr
  BY <1>3, <1>5, <1>9 DEF InterpMatches
<1>12. DOMAIN interp' = DOMAIN m
  <2>1. \A b : b \in DOMAIN interp' <=> \E t \in Slots' : b = SlotBase(t)'
    BY <1>9 DEF InterpMatches
  <2>2. \A b : b \in DOMAIN interp <=> \E t \in Slots : b = SlotBase(t)
    BY <1>9 DEF InterpMatches
  <2>3. s \in Slots /\ SlotBase(s) = call.vaddr
    BY <1>3, <1>5
  <2>4. \A b : b \in DOMAIN interp' <=> b \in DOMAIN interp /\ b # call.vaddr
    BY <1>7, <1>8, <1>11, <2>1, <2>2, <2>3
  <2> QED BY <1>10, <2>4
<1>13. ASSUME NEW t \in Slots' PROVE interp'[SlotBase(t)'] = m[SlotBase(t)']
  <2>1. interp'[SlotBase(t)'] = SlotPTE(t)'
    BY <1>9 DEF InterpMatches
  <2>2. /\ t \in Slots /\ t # s /\ SlotBase(t) \in DOMAIN interp
        /\ interp[SlotBase(t)] = SlotPTE(t)
    BY <1>7, <1>9 DEF InterpMatches
  <2> QED BY <1>8, <1>10, <1>11, <2>1, <2>2
<1>14. \A b \in DOMAIN interp' : interp'[b] = m[b]
  BY <1>9, <1>13 DEF InterpMatches
<1>15. interp' = m
  <2>1. interp' = [b \in DOMAIN interp' |-> interp'[b]]
    BY <1>9 DEF InterpMatches
  <2> QED BY <1>10, <1>12, <1>14, <2>1
<1>16. call.vaddr \in DOMAIN interp /\ interp[call.vaddr] = EntryPTE(layer, entry)
  <2>1. SlotPTE(<<ptr, idx>>) = EntryPTE(layer, entry)
    BY <1>1, CurrentSlot
  <2> QED BY <1>3, <1>9, <2>1 DEF InterpMatches
<1> QED BY <1>15, <1>16 DEF m

\* So does that of PageTable::unmap.
LEMMA UnmapPageRemoves ==
  ASSUME WalkInv, WalkInv', UnmapPage
  PROVE  /\ interp' = map_remove(interp, call.vaddr)
         /\ call.vaddr \in DOMAIN interp
BY ClearEntryRemoves DEF UnmapPage

\* No other step changes what is mapped: neither allocations, links and
\* unlinks, nor calls and returns.
LEMMA InterpUnchanged ==
  ASSUME IInv, IInv', [Next]_vars, ~MapPage, ~UnmapPage
  PROVE  interp' = interp
<1>1. CASE MapAllocDir \/ MapLinkDir \/ UnlinkDir
  BY <1>1, InvWalks, AllocKeepsInterp, LinkKeepsInterp, UnlinkKeepsInterp
<1>2. CASE MapDescend \/ MapOverlap \/ UnmapDescend \/ UnmapMissing
           \/ KeepDir \/ UnmapReturn \/ ResolveDescend \/ ResolvePage \/ ResolveEmpty
  <2>1. UNCHANGED memVars
    BY <1>2 DEF MapDescend, MapOverlap, UnmapDescend, UnmapMissing,
                KeepDir, UnmapReturn, ResolveDescend, ResolvePage, ResolveEmpty
  <2> QED BY <2>1, InvWalks, SameMemory
<1>3. CASE Call \/ UNCHANGED vars
  <2>1. UNCHANGED memVars
    BY <1>3 DEF Call, CallMap, CallUnmap, CallResolve, Begin, vars
  <2> QED BY <2>1, InvWalks, SameMemory
<1> QED BY <1>1, <1>2, <1>3 DEF Next, Step

\* What the caller promised stays true while the call runs.
LEMMA EnabledStep ==
  ASSUME IInv, IInv', EnabledInv, [Next]_vars
  PROVE  EnabledInv'
<1>1. CASE \E vaddr \in VAddrs : \E pte \in PTEs : CallMap(vaddr, pte)
  <2>1. PICK vaddr \in VAddrs, pte \in PTEs : CallMap(vaddr, pte)
    BY <1>1
  <2>2. /\ PT!step_Map_enabled(interp, vaddr, pte)
        /\ pc' = "map" /\ call'.vaddr = vaddr /\ call'.pte = pte /\ UNCHANGED memVars
    BY <2>1 DEF CallMap, Begin
  <2>3. interp' = interp
    BY <2>2, InvWalks, SameMemory
  <2> QED BY <2>2, <2>3 DEF EnabledInv
<1>2. CASE \E vaddr \in VAddrs : CallUnmap(vaddr)
  BY <1>2 DEF EnabledInv, CallUnmap, Begin
<1>3. CASE \E vaddr \in ResolveVAddrs : CallResolve(vaddr)
  BY <1>3 DEF EnabledInv, CallResolve, Begin
<1>4. CASE MapPage \/ MapOverlap \/ UnmapMissing \/ UnmapPage \/ UnlinkDir \/ KeepDir
           \/ UnmapReturn \/ ResolveDescend \/ ResolvePage \/ ResolveEmpty
  <2>1. pc' \notin {"map", "link", "unmap"}
    BY <1>4 DEF MapPage, MapOverlap, UnmapMissing, UnmapPage, UnlinkDir, KeepDir,
                UnmapReturn, ResolveDescend, ResolvePage, ResolveEmpty, Return
  <2> QED BY <2>1 DEF EnabledInv
<1>5. CASE MapDescend \/ MapAllocDir \/ MapLinkDir \/ UnmapDescend \/ UNCHANGED vars
  <2>1. ~MapPage /\ ~UnmapPage
    BY <1>5 DEF MapDescend, MapAllocDir, MapLinkDir, UnmapDescend, MapPage, UnmapPage,
                Return, vars, callVars
  <2>2. interp' = interp
    BY <2>1, InterpUnchanged
  <2>3. /\ call' = call
        /\ pc' \in {"map", "link"} => pc \in {"map", "link"}
        /\ pc' = "unmap" => pc = "unmap"
    BY <1>5 DEF MapDescend, MapAllocDir, MapLinkDir, UnmapDescend, vars, callVars
  <2> QED BY <2>2, <2>3 DEF EnabledInv
<1> QED BY <1>1, <1>2, <1>3, <1>4, <1>5 DEF Next, Step, Call

\* A page at the entry for the address is in the way of map_frame.
LEMMA PageIsInTheWay ==
  ASSUME WalkInv, pc = "map", is_mapping(entry), is_page(layer, entry)
  PROVE  candidate_mapping_overlaps_existing_vmem(interp, call.vaddr, call.pte)
<1>1. call.vaddr \in Nat /\ call.vaddr < UpperVaddr
  BY MapFrame
<1>2. call.pte.frame.size \in Nat \ {0}
  <2>1. \E l \in Layers : call.pte.frame.size = EntrySize[l]
    BY DEF WalkInv, ArgsInv
  <2> QED BY <2>1, SizeFacts
<1>3. InEntry(call.vaddr, ptr, idx) /\ <<ptr, idx>> \in Slots
  BY <1>1, CurrentFrame, CurrentSlot
<1>4. between(call.vaddr, call.vaddr, call.vaddr + call.pte.frame.size)
  BY <1>1, <1>2 DEF between
<1>5. <<ptr, idx>>[1] = ptr /\ <<ptr, idx>>[2] = idx
  OBVIOUS
<1> QED BY <1>1, <1>2, <1>3, <1>4, <1>5, OverlapMeansSlot

\* map_frame reports an overlap only when there is one.
LEMMA OverlapIsReal ==
  ASSUME IInv, MapOverlap
  PROVE  candidate_mapping_overlaps_existing_vmem(interp, call.vaddr, call.pte)
<1>1. /\ pc = "map" /\ is_mapping(entry)
      /\ is_dir(layer, entry) => EntrySize[layer] = call.pte.frame.size
  BY DEF MapOverlap
<1>2. /\ call.vaddr \in Nat /\ call.vaddr < UpperVaddr
      /\ aligned(call.vaddr, call.pte.frame.size)
  BY <1>1, InvWalks, MapFrame
<1>3. call.pte.frame.size \in Nat \ {0}
  <2>1. \E l \in Layers : call.pte.frame.size = EntrySize[l]
    BY <1>1 DEF IInv, RunInv, CallInv, ArgsInv
  <2> QED BY <2>1, SizeFacts
<1>4. /\ ptr \in used_regions /\ idx \in EntryIndices
      /\ ghost_pt[ptr] = [layer |-> layer, base |-> path[layer].base]
      /\ InEntry(call.vaddr, ptr, idx)
  BY <1>1, <1>2, InvWalks, CurrentFrame
<1>5. CASE is_page(layer, entry)
  BY <1>1, <1>5, InvWalks, PageIsInTheWay
<1>6. CASE is_dir(layer, entry)
  <2>1. \A q \in used_regions \ {CR3} : ~is_directory_empty(q)
    BY <1>1, <1>4, OnlyCurrentEmpty DEF is_directory_empty, entry
  <2>2. IsDirAt(ptr, idx)
    BY <1>1, <1>2, <1>6, InvWalks, CurrentSlot
  <2>3. PICK s \in Slots : InEntry(SlotBase(s), ptr, idx) /\ InEntry(SlotBase(s), s[1], s[2])
    BY <1>4, <2>1, <2>2, DirectoryHoldsPage DEF IInv
  <2>4. EntrySize[layer] = call.pte.frame.size
    BY <1>1, <1>6
  <2>5. entry_base(layer, path[layer].base, idx) = call.vaddr
    BY <1>1, <1>2, <2>4, InvWalks, EntryIsAtAddress
  <2>6. between(SlotBase(s), call.vaddr, call.vaddr + call.pte.frame.size)
    BY <1>4, <2>3, <2>4, <2>5 DEF InEntry
  <2>7. SlotBase(s) \in Nat
    BY SlotFacts DEF IInv
  <2> QED BY <1>2, <1>3, <2>3, <2>6, <2>7, InvWalks, OverlapMeansSlot
<1> QED BY <1>5, <1>6

\* unmap reports that there is no such mapping only when there is none at
\* exactly that address.
LEMMA MissingIsReal ==
  ASSUME WalkInv, UnmapMissing
  PROVE  call.vaddr \notin DOMAIN interp
<1>1. /\ pc = "unmap"
      /\ is_mapping(entry) => is_page(layer, entry) /\ ~aligned(call.vaddr, EntrySize[layer])
  BY DEF UnmapMissing
<1>2. call.vaddr \in Nat /\ call.vaddr < UpperVaddr
  BY <1>1, CallInRange
<1> SUFFICES ASSUME call.vaddr \in DOMAIN interp PROVE FALSE
  OBVIOUS
<1>3. PICK s \in Slots : call.vaddr = SlotBase(s)
  BY InterpFacts DEF WalkInv, InterpMatches
<1>4. InEntry(call.vaddr, s[1], s[2])
  <2>1. /\ EntrySize[ghost_pt[s[1]].layer] \in Nat \ {0}
        /\ \A v : InEntry(v, s[1], s[2]) <=>
              between(v, SlotBase(s), SlotBase(s) + EntrySize[ghost_pt[s[1]].layer])
    BY SlotFacts DEF WalkInv
  <2>2. between(call.vaddr, call.vaddr, call.vaddr + EntrySize[ghost_pt[s[1]].layer])
    BY <1>2, <2>1 DEF between
  <2> QED BY <1>3, <2>1, <2>2
<1>5. InEntry(call.vaddr, ptr, idx) /\ ghost_pt[ptr].layer = layer
  BY <1>1, <1>2, CurrentFrame
<1>6. s = <<ptr, idx>>
  BY <1>1, <1>2, <1>4, <1>5, OnlyCurrentSlot
<1>7. is_mapping(entry)
  BY <1>1, <1>2, <1>6, CurrentSlot
<1>8. aligned(call.vaddr, EntrySize[layer])
  <2>1. aligned(SlotBase(s), EntrySize[ghost_pt[s[1]].layer])
    BY SlotFacts DEF WalkInv
  <2> QED BY <1>3, <1>5, <1>6, <2>1
<1> QED BY <1>1, <1>7, <1>8

(***************************************************************************)
(* The refinement.                                                         *)
(***************************************************************************)

\* resolve returns the mapping that covers the address, and reports ErrUnmapped
\* only when there is none.
LEMMA ResolveIsReal ==
  ASSUME IInv, IInv', ResolvePage \/ ResolveEmpty,
         ResolveVAddrs \subseteq 0 .. (UpperVaddr - 1)
  PROVE  PT!step_Resolve(call.vaddr) /\ call.vaddr \in ResolveVAddrs
<1>1. pc = "resolve" /\ UNCHANGED memVars
  BY DEF ResolvePage, ResolveEmpty
<1>2. call.vaddr \in ResolveVAddrs
  BY <1>1 DEF IInv, RunInv, CallInv, ArgsInv
<1>3. call.vaddr \in Nat /\ call.vaddr < UpperVaddr
  <2>1. call.vaddr \in 0 .. (UpperVaddr - 1)
    BY <1>2
  <2> QED BY <2>1, GeometryFacts
<1>4. /\ ptr \in used_regions /\ idx \in EntryIndices
      /\ ghost_pt[ptr] = [layer |-> layer, base |-> path[layer].base]
      /\ InEntry(call.vaddr, ptr, idx)
  BY <1>1, <1>3, InvWalks, CurrentFrame
<1>5. read_entries = {entry}
  BY <1>4 DEF read_entries, ReadInBounds
<1>6. interp' = interp
  BY <1>1, InvWalks, SameMemory
<1>7. InterpMatches
  BY InterpFacts DEF IInv
<1>8. ASSUME NEW s \in Slots
      PROVE  /\ SlotBase(s) \in DOMAIN interp
             /\ Covers(interp, SlotBase(s), call.vaddr) <=> InEntry(call.vaddr, s[1], s[2])
  BY <1>7, SlotFacts DEF InterpMatches, IInv, Covers
<1>9. CASE ResolvePage
  <2>1. /\ is_mapping(entry) /\ is_page(layer, entry)
        /\ obs' = PT!ResolveObs(call.vaddr,
                   PT!Resolved(entry_base(layer, path[layer].base, idx),
                               EntryPTE(layer, entry)))
    BY <1>5, <1>9 DEF ResolvePage
  <2> DEFINE b == entry_base(layer, path[layer].base, idx)
  <2>2. /\ <<ptr, idx>> \in Slots /\ SlotBase(<<ptr, idx>>) = b
        /\ SlotPTE(<<ptr, idx>>) = EntryPTE(layer, entry)
    BY <1>1, <1>3, <2>1, InvWalks, CurrentSlot
  <2>3. <<ptr, idx>>[1] = ptr /\ <<ptr, idx>>[2] = idx
    OBVIOUS
  <2>4. b \in DOMAIN interp /\ Covers(interp, b, call.vaddr) /\ interp[b] = EntryPTE(layer, entry)
    BY <1>4, <1>7, <1>8, <2>2, <2>3 DEF InterpMatches
  <2> HIDE DEF b
  <2>5. PT!Covers(interp, b, call.vaddr)
    BY <2>4, SpecVocabulary
  <2> QED BY <1>2, <1>6, <2>1, <2>4, <2>5 DEF PT!step_Resolve, b
<1>10. CASE ResolveEmpty
  <2>1. /\ ~is_mapping(entry)
        /\ obs' = PT!ResolveObs(call.vaddr, PT!ErrUnmapped)
    BY <1>5, <1>10 DEF ResolveEmpty
  <2>2. ASSUME NEW b \in DOMAIN interp PROVE ~PT!Covers(interp, b, call.vaddr)
    <3> SUFFICES ASSUME PT!Covers(interp, b, call.vaddr) PROVE FALSE
      OBVIOUS
    <3>1. Covers(interp, b, call.vaddr)
      BY SpecVocabulary
    <3>2. PICK s \in Slots : b = SlotBase(s)
      BY <1>7 DEF InterpMatches
    <3>3. s = <<ptr, idx>>
      BY <1>1, <1>3, <1>4, <1>8, <2>1, <3>1, <3>2, InvWalks, OnlyCurrentSlot
    <3> QED BY <1>1, <1>3, <2>1, <3>3, InvWalks, CurrentSlot
  <2> QED BY <1>2, <1>6, <2>1, <2>2 DEF PT!step_Resolve
<1> QED BY <1>9, <1>10

\* Every step of the implementation is a step of the page table specification
\* or leaves its variables alone.
LEMMA StepRefines ==
  ASSUME IInv, IInv', EnabledInv, [Next]_vars,
         ResolveVAddrs \subseteq 0 .. (UpperVaddr - 1)
  PROVE  [PT!Next]_PT!vars
<1>1. CASE MapPage
  <2>1. /\ pc = "map" /\ obs' = PT!MapObs(call.vaddr, call.pte, PT!Ok)
    BY <1>1 DEF MapPage
  <2>2. /\ PT!step_Map_enabled(interp, call.vaddr, call.pte)
        /\ call.vaddr \in VAddrs /\ call.pte \in PTEs
    BY <2>1 DEF EnabledInv, IInv, RunInv, CallInv, ArgsInv
  <2>3. /\ interp' = PT!map_insert(interp, call.vaddr, call.pte)
        /\ ~PT!candidate_mapping_overlaps_existing_vmem(interp, call.vaddr, call.pte)
    BY <1>1, InvWalks, MapPageInserts, SpecVocabulary
  <2>4. PT!step_Map(call.vaddr, call.pte)
    BY <2>1, <2>2, <2>3 DEF PT!step_Map
  <2> QED BY <2>2, <2>4 DEF PT!Next
<1>2. CASE MapOverlap
  <2>1. /\ pc = "map" /\ obs' = PT!MapObs(call.vaddr, call.pte, PT!ErrOverlap)
        /\ UNCHANGED memVars
    BY <1>2 DEF MapOverlap
  <2>2. /\ PT!step_Map_enabled(interp, call.vaddr, call.pte)
        /\ call.vaddr \in VAddrs /\ call.pte \in PTEs
    BY <2>1 DEF EnabledInv, IInv, RunInv, CallInv, ArgsInv
  <2>3. /\ interp' = interp
        /\ PT!candidate_mapping_overlaps_existing_vmem(interp, call.vaddr, call.pte)
    BY <1>2, <2>1, InvWalks, SameMemory, OverlapIsReal, SpecVocabulary
  <2>4. PT!step_Map(call.vaddr, call.pte)
    BY <2>1, <2>2, <2>3 DEF PT!step_Map
  <2> QED BY <2>2, <2>4 DEF PT!Next
<1>3. CASE UnmapPage
  <2>1. pc = "unmap" /\ obs' = PT!UnmapObs(call.vaddr, PT!Ok)
    BY <1>3 DEF UnmapPage
  <2>2. PT!step_Unmap_enabled(call.vaddr) /\ call.vaddr \in VAddrs
    BY <2>1 DEF EnabledInv, IInv, RunInv, CallInv, ArgsInv
  <2>3. interp' = PT!map_remove(interp, call.vaddr) /\ call.vaddr \in DOMAIN interp
    BY <1>3, InvWalks, UnmapPageRemoves, SpecVocabulary
  <2>4. PT!step_Unmap(call.vaddr)
    BY <2>1, <2>2, <2>3 DEF PT!step_Unmap
  <2> QED BY <2>2, <2>4 DEF PT!Next
<1>4. CASE UnmapMissing
  <2>1. pc = "unmap" /\ obs' = PT!UnmapObs(call.vaddr, PT!ErrNoSuchMapping) /\ UNCHANGED memVars
    BY <1>4 DEF UnmapMissing
  <2>2. PT!step_Unmap_enabled(call.vaddr) /\ call.vaddr \in VAddrs
    BY <2>1 DEF EnabledInv, IInv, RunInv, CallInv, ArgsInv
  <2>3. interp' = interp /\ call.vaddr \notin DOMAIN interp
    BY <1>4, <2>1, InvWalks, SameMemory, MissingIsReal
  <2>4. PT!step_Unmap(call.vaddr)
    BY <2>1, <2>2, <2>3 DEF PT!step_Unmap
  <2> QED BY <2>2, <2>4 DEF PT!Next
<1>5. CASE ResolvePage \/ ResolveEmpty
  <2>1. PT!step_Resolve(call.vaddr) /\ call.vaddr \in ResolveVAddrs
    BY <1>5, ResolveIsReal
  <2> QED BY <2>1 DEF PT!Next
<1>6. CASE ~(MapPage \/ MapOverlap \/ UnmapPage \/ UnmapMissing \/ ResolvePage \/ ResolveEmpty)
  <2>1. interp' = interp
    BY <1>6, InterpUnchanged
  <2>2. obs' = obs
    BY <1>6 DEF Next, Step, Call, CallMap, CallUnmap, CallResolve, Begin,
                MapDescend, MapAllocDir, MapLinkDir, UnmapDescend,
                UnlinkDir, KeepDir, UnmapReturn, ResolveDescend, vars
  <2> QED BY <2>1, <2>2 DEF PT!vars
<1> QED BY <1>1, <1>2, <1>3, <1>4, <1>5, <1>6

\* The empty page table is the empty map.
LEMMA InitRefines == Init => PT!Init
<1> SUFFICES ASSUME Init PROVE PT!Init
  OBVIOUS
<1>1. IInv
  BY InitEstablishes
<1>2. InterpMatches
  BY <1>1, InterpFacts DEF IInv
<1>3. Slots = {}
  <2>1. \A i \in EntryIndices : ~region_view[CR3][i].P
    BY ConstantEntries, ImplAssumption DEF Init, InitWith, ZeroPage
  <2>2. DOMAIN ghost_pt = {CR3}
    BY DEF Init, InitWith
  <2> QED BY <2>1, <2>2 DEF Slots
<1>4. DOMAIN interp = {} /\ interp = [b \in DOMAIN interp |-> interp[b]]
  BY <1>2, <1>3 DEF InterpMatches
<1>5. interp = EmptyMap
  BY <1>4 DEF EmptyMap
<1>6. interp = PT!EmptyMap
  BY <1>5, SpecVocabulary
<1> QED BY <1>6 DEF PT!Init, Init, InitWith

\* map_frame, unmap and resolve implement the page table specification
\* (impl_u/l2_refinement.rs), for every geometry, any mappings and any order of
\* calls: each takes effect in one of its writes.
THEOREM ImplementsSpecification ==
  ASSUME ResolveVAddrs \subseteq 0 .. (UpperVaddr - 1)
  PROVE  Spec => ImplementsPageTableSpec
<1>1. Init => IInv /\ EnabledInv
  BY InitEstablishes DEF Init, InitWith, EnabledInv
<1>2. IInv /\ EnabledInv /\ [Next]_vars => (IInv /\ EnabledInv)'
  BY StepKeepsInv, EnabledStep
<1>3. IInv /\ IInv' /\ EnabledInv /\ [Next]_vars => [PT!Next]_PT!vars
  BY StepRefines
<1>4. Init => PT!Init
  BY InitRefines
<1> QED BY <1>1, <1>2, <1>3, <1>4, PTL DEF Spec, ImplementsPageTableSpec, PT!Spec

(***************************************************************************)
(* The MMU's walk.                                                         *)
(***************************************************************************)

\* An entry that refers to a directory, as the walk finds it at layer l.
WalkGoesDown(v, l) == is_mapping(mmu_read(v)[l]) /\ is_dir(l, mmu_read(v)[l])

\* Where a walk ends: at the first layer whose entry is not a directory.
LEMMA LastFacts ==
  ASSUME NEW v
  PROVE  /\ mmu_last(v) \in Layers
         /\ ~WalkGoesDown(v, mmu_last(v))
         /\ \A k \in 0 .. (mmu_last(v) - 1) : WalkGoesDown(v, k)
<1> DEFINE P(l) == ~WalkGoesDown(v, l) /\ \A k \in 0 .. (l - 1) : WalkGoesDown(v, k)
           E == {l \in Layers : ~WalkGoesDown(v, l)}
<1>1. \E l \in Layers : P(l)
  <2>1. LastLayer \in E /\ E \in SUBSET Nat
    BY SizeFacts, ArchInv DEF WalkGoesDown, Layers
  <2>2. PICK l \in E : \A k \in E : l <= k
    <3> HIDE DEF E
    <3> QED BY <2>1, LeastElement
  <2>3. ASSUME NEW k \in 0 .. (l - 1) PROVE WalkGoesDown(v, k)
    <3>1. k \in Layers /\ k < l
      BY <2>2, ArchInv DEF Layers
    <3>2. k \in Nat /\ l \in Nat
      BY <2>1, <2>2, <3>1, SizeFacts
    <3>3. k \notin E
      BY <2>2, <3>1, <3>2
    <3> QED BY <3>1, <3>3
  <2> QED BY <2>2, <2>3
<1>2. mmu_last(v) = CHOOSE l \in Layers : P(l)
  BY DEF mmu_last, WalkGoesDown
<1> HIDE DEF P
<1>3. mmu_last(v) \in Layers /\ P(mmu_last(v))
  BY <1>1, <1>2
<1> QED BY <1>3 DEF P

\* The entry of a directory that a walk reads is the one that holds the
\* address.
LEMMA WalkReadsEntry ==
  ASSUME TypeOK, TreeInv, NEW r \in used_regions, NEW v \in Nat,
         between(v, ghost_pt[r].base, ghost_pt[r].base + NumEntries * EntrySize[ghost_pt[r].layer])
  PROVE  /\ mmu_index(ghost_pt[r].layer, v) \in EntryIndices
         /\ InEntry(v, r, mmu_index(ghost_pt[r].layer, v))
<1> DEFINE l == ghost_pt[r].layer
           b == ghost_pt[r].base
<1>1. l \in Layers /\ b \in Nat
  BY PlacedDirectory
<1>2. aligned(b, NumEntries * EntrySize[l])
  BY DEF TreeInv, DirectoriesSpan
<1>3. mmu_index(l, v) = index_for_vaddr(l, b, v)
  BY <1>1, <1>2, IndexIsBitField
<1>4. /\ index_for_vaddr(l, b, v) \in EntryIndices
      /\ between(v, entry_base(l, b, index_for_vaddr(l, b, v)),
                    entry_base(l, b, index_for_vaddr(l, b, v)) + EntrySize[l])
  BY <1>1, IndexInSpan
<1> QED BY <1>3, <1>4 DEF InEntry

\* A walk that has gone down to some layer stands in a linked directory of that
\* layer, and reads the entry for the address there.
LEMMA WalkFollowsTree ==
  ASSUME TypeOK, TreeInv, NEW v \in Nat, v < UpperVaddr,
         NEW last \in Layers, \A k \in 0 .. (last - 1) : WalkGoesDown(v, k)
  PROVE  \E r \in used_regions :
           /\ ghost_pt[r].layer = last
           /\ mmu_index(last, v) \in EntryIndices
           /\ mmu_read(v)[last] = view_at(r, mmu_index(last, v))
           /\ InEntry(v, r, mmu_index(last, v))
<1> DEFINE At(l) == \E r \in used_regions :
                      /\ ghost_pt[r].layer = l
                      /\ mmu_index(l, v) \in EntryIndices
                      /\ mmu_read(v)[l] = view_at(r, mmu_index(l, v))
                      /\ InEntry(v, r, mmu_index(l, v))
           Bad == {l \in 0 .. last : ~At(l)}
<1> SUFFICES ASSUME Bad # {} PROVE FALSE
  BY SizeFacts
<1>1. PICK k \in Bad : \A j \in Bad : k <= j
  <2>1. Bad \in SUBSET Nat
    OBVIOUS
  <2> HIDE DEF Bad
  <2> QED BY <2>1, LeastElement
<1>2. k \in Nat /\ k \in Layers /\ k <= last /\ last \in Nat /\ ~At(k)
  BY <1>1, SizeFacts, ArchInv DEF Layers
<1>3. CASE k = 0
  <2>1. CR3 \in used_regions /\ ghost_pt[CR3] = [layer |-> 0, base |-> 0]
    BY DEF TreeInv, DirectoriesFormTree, contains_pair, used_regions
  <2>2. mmu_read(v)[0] = view_at(CR3, mmu_index(0, v))
    BY <1>2, <1>3, ReadFacts
  <2>3. between(v, 0, 0 + NumEntries * EntrySize[0])
    BY SizeFacts, GeometryFacts DEF between
  <2>4. ghost_pt[CR3].layer = 0 /\ ghost_pt[CR3].base = 0
    BY <2>1
  <2>5. mmu_index(0, v) \in EntryIndices /\ InEntry(v, CR3, mmu_index(0, v))
    BY <2>1, <2>3, <2>4, WalkReadsEntry
  <2> QED BY <1>2, <1>3, <2>1, <2>2, <2>4, <2>5
<1>4. CASE k # 0
  <2>1. k - 1 \in 0 .. last /\ k - 1 \in Layers /\ k - 1 < k /\ k - 1 \in 0 .. (last - 1) /\ k - 1 + 1 = k
    BY <1>2, <1>4, ArchInv DEF Layers
  <2>2. At(k - 1)
    <3>1. k - 1 \notin Bad
      BY <1>1, <1>2, <2>1
    <3> QED BY <2>1, <3>1
  <2> DEFINE i == mmu_index(k - 1, v)
  <2>3. PICK r \in used_regions :
          /\ ghost_pt[r].layer = k - 1 /\ i \in EntryIndices
          /\ mmu_read(v)[k - 1] = view_at(r, i)
          /\ InEntry(v, r, i)
    BY <2>2
  <2> HIDE DEF At, Bad, i
  <2>4. WalkGoesDown(v, k - 1)
    BY <2>1
  <2>5. IsDirAt(r, i)
    BY <2>3, <2>4 DEF WalkGoesDown
  <2>6. PICK d \in used_regions :
          /\ d = view_at(r, i).addr
          /\ ghost_pt[d].layer = k
          /\ ghost_pt[d].base = entry_base(k - 1, ghost_pt[r].base, i)
    <3>1. /\ view_at(r, i).addr \in used_regions
          /\ ghost_pt[view_at(r, i).addr] =
               [layer |-> ghost_pt[r].layer + 1, base |-> SlotBase(<<r, i>>)]
          /\ SlotBase(<<r, i>>) = entry_base(ghost_pt[r].layer, ghost_pt[r].base, i)
      BY <2>3, <2>5, DirEntry
    <3> QED BY <2>1, <2>3, <3>1
  <2>7. between(v, ghost_pt[d].base, ghost_pt[d].base + NumEntries * EntrySize[k])
    <3>1. between(v, ghost_pt[d].base, ghost_pt[d].base + EntrySize[k - 1])
      BY <2>3, <2>6 DEF InEntry
    <3>2. EntrySize[k - 1] = NumEntries * EntrySize[k]
      <4>1. k - 1 # LastLayer
        BY <1>2, <2>1, SizeFacts
      <4> QED BY <2>1, <4>1, SizeFacts
    <3> QED BY <3>1, <3>2
  <2>8. mmu_index(k, v) \in EntryIndices /\ InEntry(v, d, mmu_index(k, v))
    BY <2>6, <2>7, WalkReadsEntry
  <2>9. mmu_read(v)[k] = view_at(d, mmu_index(k, v))
    <3>1. mmu_read(v)[k] = view_at(mmu_read(v)[k - 1].addr, mmu_index(k, v))
      BY <1>2, <1>4, <2>4, ReadFacts DEF WalkGoesDown
    <3> QED BY <2>3, <2>6, <3>1
  <2>10. At(k)
    BY <2>6, <2>8, <2>9 DEF At
  <2> QED BY <1>2, <2>10
<1> QED BY <1>3, <1>4

\* What a walk finds at v is what the interpreted map says of v: the same base,
\* frame and access rights.
LEMMA WalkFindsInterp ==
  ASSUME TypeOK, TreeInv, NEW v \in 0 .. (UpperVaddr - 1)
  PROVE  mmu_walk(v) =
           {[base |-> b, frame |-> interp[b].frame, flags |-> interp[b].flags] :
              b \in {x \in DOMAIN interp : Covers(interp, x, v)}}
<1> DEFINE read == mmu_read(v)
           last == mmu_last(v)
           size == EntrySize[last]
           i == mmu_index(last, v)
<1>1. v \in Nat /\ v < UpperVaddr
  BY GeometryFacts
<1>2. last \in Layers /\ ~WalkGoesDown(v, last) /\ \A k \in 0 .. (last - 1) : WalkGoesDown(v, k)
  BY LastFacts
<1>3. PICK r \in used_regions :
        /\ ghost_pt[r].layer = last /\ i \in EntryIndices
        /\ read[last] = view_at(r, i) /\ InEntry(v, r, i)
  BY <1>1, <1>2, WalkFollowsTree
<1> HIDE DEF i, read, last
<1>4. ~IsDirAt(r, i)
  BY <1>2, <1>3 DEF WalkGoesDown, read
<1>5. InterpMatches
  BY InterpFacts
<1>6. ASSUME NEW s \in Slots
      PROVE  /\ SlotBase(s) \in DOMAIN interp
             /\ Covers(interp, SlotBase(s), v) <=> InEntry(v, s[1], s[2])
  BY <1>5, SlotFacts DEF InterpMatches, Covers
<1>7. ASSUME NEW s \in Slots, InEntry(v, s[1], s[2]) PROVE s = <<r, i>>
  <2>1. between(v, SlotBase(s), SlotBase(s) + EntrySize[ghost_pt[s[1]].layer])
    BY <1>7, SlotFacts
  <2> QED BY <1>1, <1>3, <1>4, <2>1, OneLeaf
<1>8. CASE ~is_mapping(read[last])
  <2>1. <<r, i>> \notin Slots
    BY <1>3, <1>8 DEF Slots
  <2>2. ~\E x \in DOMAIN interp : Covers(interp, x, v)
    BY <1>5, <1>6, <1>7, <2>1 DEF InterpMatches
  <2>3. mmu_walk(v) = {}
    BY <1>8 DEF mmu_walk, read, last
  <2> QED BY <2>2, <2>3
<1>9. CASE is_mapping(read[last])
  <2> DEFINE s == <<r, i>>
             b == SlotBase(s)
             e == view_at(r, i)
  <2>1. s \in Slots /\ s[1] = r /\ s[2] = i
    BY <1>3, <1>4, <1>9 DEF Slots, used_regions
  <2>2. /\ b \in Nat /\ size \in Nat \ {0} /\ aligned(b, size) /\ between(v, b, b + size)
    BY <1>3, <2>1, SlotFacts
  <2>3. v - (v % size) = b
    <3> HIDE DEF b, size
    <3> QED BY <1>1, <2>2, EntryBaseIsRounding
  <2>4. /\ b \in DOMAIN interp /\ Covers(interp, b, v)
        /\ interp[b] = [frame |-> MemRegion(e.addr, size), flags |-> flags(e)]
    <3>1. b \in DOMAIN interp /\ Covers(interp, b, v)
      BY <1>3, <1>6, <2>1
    <3>2. interp[b] = SlotPTE(s)
      BY <1>5, <2>1 DEF InterpMatches
    <3>3. SlotPTE(s) = [frame |-> MemRegion(e.addr, size), flags |-> flags(e)]
      BY <1>3, <2>1 DEF SlotPTE, EntryPTE
    <3> QED BY <3>1, <3>2, <3>3
  <2>5. ASSUME NEW x \in DOMAIN interp, Covers(interp, x, v) PROVE x = b
    BY <1>5, <1>6, <1>7, <2>5 DEF InterpMatches
  <2>6. ASSUME NEW k \in 0 .. (last - 1)
        PROVE  read[k].RW /\ read[k].US /\ ~read[k].XD
    <3>1. k \in Layers /\ \A j \in 0 .. (k - 1) : WalkGoesDown(v, j)
      BY <1>2, ArchInv DEF Layers
    <3>2. PICK q \in used_regions :
            /\ ghost_pt[q].layer = k /\ mmu_index(k, v) \in EntryIndices
            /\ mmu_read(v)[k] = view_at(q, mmu_index(k, v))
      BY <1>1, <3>1, WalkFollowsTree
    <3>3. WalkGoesDown(v, k)
      BY <1>2
    <3>4. IsDirAt(q, mmu_index(k, v))
      BY <3>2, <3>3 DEF WalkGoesDown
    <3> QED BY <3>2, <3>4 DEF TreeInv, EntriesAreFilled, read
  <2>7. /\ (\A l \in 0 .. last : read[l].RW) = e.RW
        /\ (\E l \in 0 .. last : ~read[l].US) = ~e.US
        /\ (\E l \in 0 .. last : read[l].XD) = e.XD
    <3>1. last \in 0 .. last /\ \A l \in 0 .. last : l = last \/ l \in 0 .. (last - 1)
      BY <1>2, SizeFacts
    <3>2. e.RW \in BOOLEAN /\ e.US \in BOOLEAN /\ e.XD \in BOOLEAN
      <4>1. r \in Regions
        BY DEF TypeOK
      <4>2. e \in PDE
        <5>1. region_view \in [Regions -> [EntryIndices -> PDE]]
          BY DEF TypeOK, PDE
        <5> QED BY <1>3, <4>1, <5>1
      <4> QED BY <4>2 DEF PDE, PageDirectoryEntry
    <3>3. read[last] = e
      BY <1>3
    <3> HIDE DEF e
    <3> QED BY <2>6, <3>1, <3>2, <3>3
  <2>8. mmu_walk(v) = {[base |-> b, frame |-> MemRegion(e.addr, size), flags |-> flags(e)]}
    <3>1. mmu_walk(v) =
            {[base  |-> v - (v % size),
              frame |-> MemRegion(read[last].addr, size),
              flags |->
                [is_writable     |-> \A l \in 0 .. last : read[l].RW,
                 is_supervisor   |-> \E l \in 0 .. last : ~read[l].US,
                 disable_execute |-> \E l \in 0 .. last : read[l].XD]]}
      BY <1>9 DEF mmu_walk, read, last
    <3>2. flags(e) = [is_writable |-> e.RW, is_supervisor |-> ~e.US, disable_execute |-> e.XD]
      BY DEF flags
    <3> HIDE DEF e, b, size
    <3> QED BY <1>3, <2>3, <2>7, <3>1, <3>2 DEF e
  <2> HIDE DEF e, b
  <2>9. {[base |-> x, frame |-> interp[x].frame, flags |-> interp[x].flags] :
           x \in {y \in DOMAIN interp : Covers(interp, y, v)}}
          = {[base |-> b, frame |-> interp[b].frame, flags |-> interp[b].flags]}
    BY <2>4, <2>5
  <2> QED BY <2>4, <2>8, <2>9
<1> QED BY <1>8, <1>9

\* An MMU that walks the memory between any two writes of map_frame and unmap
\* finds what the interpreted map says, for every address: the axiom of
\* hardware.rs:36 is a theorem of this implementation.
THEOREM WalksFindInterp == Spec => []MMUWalkFindsInterp
<1>1. IInv => MMUWalkFindsInterp
  BY WalkFindsInterp DEF IInv, MMUWalkFindsInterp
<1> QED BY <1>1, InductiveInvariant, PTL
=============================================================================
