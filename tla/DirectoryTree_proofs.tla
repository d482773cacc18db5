------------------------ MODULE DirectoryTree_proofs ------------------------
(***************************************************************************)
(* What a page table holds, as a tree of directories and as a map.  The    *)
(* operations on directory trees do what the operations on their flat      *)
(* contents do, for every geometry and every tree, which impl_u/l1.rs      *)
(* proves of the same definitions; and the invariants of PageTableSpec,    *)
(* which changes the flat contents, hold for every geometry and any        *)
(* inputs.                                                                 *)
(***************************************************************************)
EXTENDS DirectoryTree, PageTableSpec, PageTableContents_proofs

(***************************************************************************)
(* The recursive functions exist, so that they can be reasoned about by    *)
(* their equations.                                                        *)
(***************************************************************************)

\* Induction from the last layer up to the root.
LEMMA LayerInduction ==
  ASSUME NEW S, LastLayer + 1 \in S,
         \A l \in Layers : l + 1 \in S => l \in S
  PROVE  \A l \in Levels : l \in S
<1> DEFINE Good == {n \in Nat : n <= LastLayer + 1 /\ (LastLayer + 1) - n \notin S}
<1>1. ASSUME Good # {} PROVE FALSE
  <2>1. PICK n \in Good : \A k \in Good : n <= k
    BY <1>1, LeastElement
  <2>2. n # 0 /\ LastLayer \in Nat
    BY <2>1, SizeFacts
  <2>3. n - 1 \in Nat /\ n - 1 \notin Good
    BY <2>1, <2>2
  <2>4. (LastLayer + 1) - (n - 1) \in S
    BY <2>1, <2>2, <2>3
  <2>5. (LastLayer + 1) - n \in Layers
    BY <2>1, <2>2 DEF Layers
  <2>6. (LastLayer + 1) - (n - 1) = ((LastLayer + 1) - n) + 1
    BY <2>1, <2>2
  <2> QED BY <2>1, <2>4, <2>5, <2>6
<1>2. ASSUME NEW l \in Levels, l \notin S PROVE FALSE
  <2>1. l \in Nat /\ LastLayer \in Nat /\ l <= LastLayer + 1
    BY SizeFacts DEF Levels
  <2>2. (LastLayer + 1) - l \in Nat /\ (LastLayer + 1) - ((LastLayer + 1) - l) = l
    BY <2>1
  <2>3. (LastLayer + 1) - l \in Good
    BY <1>2, <2>1, <2>2
  <2> QED BY <1>1, <2>3
<1> QED BY <1>2

\* Each level is a layer or the one past the last.
LEMMA LevelFacts ==
  /\ LastLayer + 1 \in Levels /\ LastLayer + 1 \notin Layers
  /\ \A l \in Layers : l \in Levels /\ l + 1 \in Levels /\ l \in Nat
  /\ \A l \in Levels : l \in Layers \/ l = LastLayer + 1
  /\ \A l \in Levels : l \in Nat
BY SizeFacts DEF Levels, Layers

\* The levels from l on.
LEMMA LevelsFrom ==
  ASSUME NEW l \in Layers
  PROVE  /\ l .. (LastLayer + 1) = {l} \cup ((l + 1) .. (LastLayer + 1))
         /\ l \notin (l + 1) .. (LastLayer + 1)
         /\ l + 1 \in (l + 1) .. (LastLayer + 1)
         /\ \A j \in (l + 1) .. (LastLayer + 1) :
              j = LastLayer + 1 \/ (j \in Layers /\ j + 1 \in (l + 1) .. (LastLayer + 1))
BY SizeFacts DEF Layers

\* The directories of each layer, given those of the next one.
LEMMA DirsFacts ==
  /\ Dirs[LastLayer + 1] = {}
  /\ \A l \in Layers :
       Dirs[l] = [entries : [EntryIndices -> NodeEntries(Dirs[l + 1])],
                  layer : {l}, base_vaddr : Nat]
<1> DEFINE B(x, l) == IF l \notin Layers THEN {}
                      ELSE [entries : [EntryIndices -> NodeEntries(x)],
                            layer : {l}, base_vaddr : Nat]
           From(k, f) == f = [l \in k .. (LastLayer + 1) |-> B(f[l + 1], l)]
           Good == {k \in Levels : \E f : From(k, f)}
<1>1. \A x, y : B(x, LastLayer + 1) = B(y, LastLayer + 1)
  BY LevelFacts
<1>2. B(0, LastLayer + 1) = {}
  BY LevelFacts
<1>3. Dirs = CHOOSE f : From(0, f)
  BY DEF Dirs, Levels
<1> HIDE DEF B
<1>4. LastLayer + 1 \in Good
  <2> DEFINE f == [l \in (LastLayer + 1) .. (LastLayer + 1) |-> B(0, l)]
  <2>1. f = [l \in (LastLayer + 1) .. (LastLayer + 1) |-> B(f[l + 1], l)]
    <3>1. \A l \in (LastLayer + 1) .. (LastLayer + 1) : l = LastLayer + 1
      BY SizeFacts
    <3> HIDE DEF f
    <3>2. \A l \in (LastLayer + 1) .. (LastLayer + 1) : B(0, l) = B(f[l + 1], l)
      BY <1>1, <3>1
    <3> QED BY <3>2 DEF f
  <2>2. From(LastLayer + 1, f)
    BY <2>1
  <2> HIDE DEF f, From
  <2> QED BY <2>2, LevelFacts
<1>5. ASSUME NEW l \in Layers, l + 1 \in Good PROVE l \in Good
  <2>1. PICK f : From(l + 1, f)
    BY <1>5
  <2> DEFINE g == [j \in l .. (LastLayer + 1) |-> IF j = l THEN B(f[l + 1], l) ELSE f[j]]
  <2>2. ASSUME NEW j \in l .. (LastLayer + 1) PROVE g[j] = B(g[j + 1], j)
    <3>1. CASE j = l
      BY <3>1, LevelsFrom
    <3>2. CASE j = LastLayer + 1
      <4>1. g[j] = f[j] /\ f[j] = B(f[j + 1], j)
        BY <2>1, <3>2, LevelsFrom, LevelFacts
      <4> HIDE DEF g, From
      <4> QED BY <4>1, <3>2, <1>1
    <3>3. CASE j # l /\ j # LastLayer + 1
      <4>1. g[j] = f[j] /\ g[j + 1] = f[j + 1] /\ f[j] = B(f[j + 1], j)
        BY <2>1, <3>3, LevelsFrom
      <4> QED BY <4>1
    <3> QED BY <3>1, <3>2, <3>3
  <2>3. From(l, g)
    <3>1. g = [j \in l .. (LastLayer + 1) |-> g[j]]
      OBVIOUS
    <3> HIDE DEF g
    <3> QED BY <2>2, <3>1
  <2> HIDE DEF From, g
  <2> QED BY <2>3, LevelFacts
<1>6. 0 \in Good
  <2> HIDE DEF Good
  <2> QED BY <1>4, <1>5, LayerInduction, SizeFacts, LevelFacts
<1>7. From(0, Dirs)
  <2> HIDE DEF From
  <2> QED BY <1>3, <1>6
<1>8. \A l \in Levels : Dirs[l] = B(Dirs[l + 1], l)
  BY <1>7 DEF Levels
<1> QED BY <1>1, <1>2, <1>8, LevelFacts DEF B

\* The functions that are defined by recursion on the layer: all of them at
\* once, as the fields of one table.
LEMMA Recursion ==
  ASSUME NEW base, NEW pte, NEW m
  PROVE  \A l \in Layers :
           /\ \A d \in Dirs[l] :
                /\ Interp[l][d] = interp_aux(Interp[l + 1], d)
                /\ Inv[l][d] = inv_in(Inv[l + 1], d)
                /\ map_frames(base, pte)[l][d] =
                     map_frame_in(map_frames(base, pte)[l + 1], d, base, pte)
                /\ unmaps(base)[l][d] = unmap_in(unmaps(base)[l + 1], d, base)
                /\ resolves(base)[l][d] = resolve_in(resolves(base)[l + 1], d, base)
           /\ \A b \in Nat :
                canonicals(m)[l][b] = canonical_in(canonicals(m)[l + 1], m, l, b)
<1> DEFINE I(x, l) == [d \in Dirs[l] |-> interp_aux(x, d)]
           V(x, l) == [d \in Dirs[l] |-> inv_in(x, d)]
           M(x, l) == [d \in Dirs[l] |-> map_frame_in(x, d, base, pte)]
           U(x, l) == [d \in Dirs[l] |-> unmap_in(x, d, base)]
           R(x, l) == [d \in Dirs[l] |-> resolve_in(x, d, base)]
           C(x, l) == [b \in {b \in Nat : l \in Layers} |-> canonical_in(x, m, l, b)]
           B(x, l) ==
             [interp |-> I(x.interp, l), inv |-> V(x.inv, l), map_frame |-> M(x.map_frame, l),
              unmap |-> U(x.unmap, l), resolve |-> R(x.resolve, l),
              canonical |-> C(x.canonical, l)]
           From(k, f) == f = [l \in k .. (LastLayer + 1) |-> B(f[l + 1], l)]
           Good == {k \in Levels : \E f : From(k, f)}
<1>1. \A x, y : B(x, LastLayer + 1) = B(y, LastLayer + 1)
  BY DirsFacts, LevelFacts
<1> HIDE DEF I, V, M, U, R, C
<1>2. ASSUME NEW x, NEW l
      PROVE  /\ B(x, l).interp = I(x.interp, l) /\ B(x, l).inv = V(x.inv, l)
             /\ B(x, l).map_frame = M(x.map_frame, l)
             /\ B(x, l).unmap = U(x.unmap, l) /\ B(x, l).resolve = R(x.resolve, l)
             /\ B(x, l).canonical = C(x.canonical, l)
  OBVIOUS
<1> HIDE DEF B
<1>4. LastLayer + 1 \in Good
  <2> DEFINE f == [l \in (LastLayer + 1) .. (LastLayer + 1) |-> B(0, l)]
  <2>1. f = [l \in (LastLayer + 1) .. (LastLayer + 1) |-> B(f[l + 1], l)]
    <3>1. \A l \in (LastLayer + 1) .. (LastLayer + 1) : l = LastLayer + 1
      BY SizeFacts
    <3> HIDE DEF f
    <3>2. \A l \in (LastLayer + 1) .. (LastLayer + 1) : B(0, l) = B(f[l + 1], l)
      BY <1>1, <3>1
    <3> QED BY <3>2 DEF f
  <2>2. From(LastLayer + 1, f)
    BY <2>1
  <2> HIDE DEF f, From
  <2> QED BY <2>2, LevelFacts
<1>5. ASSUME NEW l \in Layers, l + 1 \in Good PROVE l \in Good
  <2>1. PICK f : From(l + 1, f)
    BY <1>5
  <2> DEFINE g == [j \in l .. (LastLayer + 1) |-> IF j = l THEN B(f[l + 1], l) ELSE f[j]]
  <2>2. ASSUME NEW j \in l .. (LastLayer + 1) PROVE g[j] = B(g[j + 1], j)
    <3>1. CASE j = l
      BY <3>1, LevelsFrom
    <3>2. CASE j = LastLayer + 1
      <4>1. g[j] = f[j] /\ f[j] = B(f[j + 1], j)
        BY <2>1, <3>2, LevelsFrom, LevelFacts
      <4> HIDE DEF g, From
      <4> QED BY <4>1, <3>2, <1>1
    <3>3. CASE j # l /\ j # LastLayer + 1
      <4>1. g[j] = f[j] /\ g[j + 1] = f[j + 1] /\ f[j] = B(f[j + 1], j)
        BY <2>1, <3>3, LevelsFrom
      <4> QED BY <4>1
    <3> QED BY <3>1, <3>2, <3>3
  <2>3. From(l, g)
    <3>1. g = [j \in l .. (LastLayer + 1) |-> g[j]]
      OBVIOUS
    <3> HIDE DEF g
    <3> QED BY <2>2, <3>1
  <2> HIDE DEF From, g
  <2> QED BY <2>3, LevelFacts
<1>6. PICK t : From(0, t)
  <2>1. 0 \in Good
    <3> HIDE DEF Good
    <3> QED BY <1>4, <1>5, LayerInduction, SizeFacts, LevelFacts
  <2> HIDE DEF From
  <2> QED BY <2>1
<1>7. \A l \in Levels : t[l] = B(t[l + 1], l)
  BY <1>6 DEF Levels
<1> HIDE DEF From, Good
<1>8. \A l \in Layers : Interp[l] = I(Interp[l + 1], l)
  <2> DEFINE f == [l \in Levels |-> t[l].interp]
  <2>1. ASSUME NEW l \in Levels
        PROVE  f[l] = I(f[l + 1], l)
    <3>1. t[l].interp = I(t[l + 1].interp, l)
      BY <1>2, <1>7
    <3>2. CASE l \in Layers
      BY <3>1, <3>2, LevelFacts
    <3>3. CASE l = LastLayer + 1
      BY <3>1, <3>3, DirsFacts, LevelFacts DEF I
    <3> QED BY <3>2, <3>3, LevelFacts
  <2>2. f = [l \in Levels |-> I(f[l + 1], l)]
    BY <2>1
  <2> HIDE DEF f
  <2>3. Interp = [l \in Levels |-> I(Interp[l + 1], l)]
    BY <2>2 DEF Interp, I
  <2> QED BY <2>3, LevelFacts
<1>9. \A l \in Layers : Inv[l] = V(Inv[l + 1], l)
  <2> DEFINE f == [l \in Levels |-> t[l].inv]
  <2>1. ASSUME NEW l \in Levels
        PROVE  f[l] = V(f[l + 1], l)
    <3>1. t[l].inv = V(t[l + 1].inv, l)
      BY <1>2, <1>7
    <3>2. CASE l \in Layers
      BY <3>1, <3>2, LevelFacts
    <3>3. CASE l = LastLayer + 1
      BY <3>1, <3>3, DirsFacts, LevelFacts DEF V
    <3> QED BY <3>2, <3>3, LevelFacts
  <2>2. f = [l \in Levels |-> V(f[l + 1], l)]
    BY <2>1
  <2> HIDE DEF f
  <2>3. Inv = [l \in Levels |-> V(Inv[l + 1], l)]
    BY <2>2 DEF Inv, V
  <2> QED BY <2>3, LevelFacts
<1>10. \A l \in Layers : map_frames(base, pte)[l] = M(map_frames(base, pte)[l + 1], l)
  <2> DEFINE f == [l \in Levels |-> t[l].map_frame]
  <2>1. ASSUME NEW l \in Levels
        PROVE  f[l] = M(f[l + 1], l)
    <3>1. t[l].map_frame = M(t[l + 1].map_frame, l)
      BY <1>2, <1>7
    <3>2. CASE l \in Layers
      BY <3>1, <3>2, LevelFacts
    <3>3. CASE l = LastLayer + 1
      BY <3>1, <3>3, DirsFacts, LevelFacts DEF M
    <3> QED BY <3>2, <3>3, LevelFacts
  <2>2. f = [l \in Levels |-> M(f[l + 1], l)]
    BY <2>1
  <2> HIDE DEF f
  <2>3. map_frames(base, pte) = [l \in Levels |-> M(map_frames(base, pte)[l + 1], l)]
    BY <2>2 DEF map_frames, M
  <2> QED BY <2>3, LevelFacts
<1>11. \A l \in Layers : unmaps(base)[l] = U(unmaps(base)[l + 1], l)
  <2> DEFINE f == [l \in Levels |-> t[l].unmap]
  <2>1. ASSUME NEW l \in Levels
        PROVE  f[l] = U(f[l + 1], l)
    <3>1. t[l].unmap = U(t[l + 1].unmap, l)
      BY <1>2, <1>7
    <3>2. CASE l \in Layers
      BY <3>1, <3>2, LevelFacts
    <3>3. CASE l = LastLayer + 1
      BY <3>1, <3>3, DirsFacts, LevelFacts DEF U
    <3> QED BY <3>2, <3>3, LevelFacts
  <2>2. f = [l \in Levels |-> U(f[l + 1], l)]
    BY <2>1
  <2> HIDE DEF f
  <2>3. unmaps(base) = [l \in Levels |-> U(unmaps(base)[l + 1], l)]
    BY <2>2 DEF unmaps, U
  <2> QED BY <2>3, LevelFacts
<1>12. \A l \in Layers : resolves(base)[l] = R(resolves(base)[l + 1], l)
  <2> DEFINE f == [l \in Levels |-> t[l].resolve]
  <2>1. ASSUME NEW l \in Levels
        PROVE  f[l] = R(f[l + 1], l)
    <3>1. t[l].resolve = R(t[l + 1].resolve, l)
      BY <1>2, <1>7
    <3>2. CASE l \in Layers
      BY <3>1, <3>2, LevelFacts
    <3>3. CASE l = LastLayer + 1
      BY <3>1, <3>3, DirsFacts, LevelFacts DEF R
    <3> QED BY <3>2, <3>3, LevelFacts
  <2>2. f = [l \in Levels |-> R(f[l + 1], l)]
    BY <2>1
  <2> HIDE DEF f
  <2>3. resolves(base) = [l \in Levels |-> R(resolves(base)[l + 1], l)]
    BY <2>2 DEF resolves, R
  <2> QED BY <2>3, LevelFacts
<1>13. \A l \in Layers : canonicals(m)[l] = C(canonicals(m)[l + 1], l)
  <2> DEFINE f == [l \in Levels |-> t[l].canonical]
  <2>1. ASSUME NEW l \in Levels
        PROVE  f[l] = C(f[l + 1], l)
    <3>1. t[l].canonical = C(t[l + 1].canonical, l)
      BY <1>2, <1>7
    <3>2. CASE l \in Layers
      BY <3>1, <3>2, LevelFacts
    <3>3. CASE l = LastLayer + 1
      BY <3>1, <3>3, LevelFacts DEF C
    <3> QED BY <3>2, <3>3, LevelFacts
  <2>2. f = [l \in Levels |-> C(f[l + 1], l)]
    BY <2>1
  <2> HIDE DEF f
  <2>3. canonicals(m) = [l \in Levels |-> C(canonicals(m)[l + 1], l)]
    BY <2>2 DEF canonicals, C
  <2> QED BY <2>3, LevelFacts
<1> SUFFICES ASSUME NEW l \in Layers
             PROVE  /\ \A d \in Dirs[l] :
                         /\ Interp[l][d] = interp_aux(Interp[l + 1], d)
                         /\ Inv[l][d] = inv_in(Inv[l + 1], d)
                         /\ map_frames(base, pte)[l][d] =
                              map_frame_in(map_frames(base, pte)[l + 1], d, base, pte)
                         /\ unmaps(base)[l][d] = unmap_in(unmaps(base)[l + 1], d, base)
                         /\ resolves(base)[l][d] =
                              resolve_in(resolves(base)[l + 1], d, base)
                    /\ \A b \in Nat :
                         canonicals(m)[l][b] = canonical_in(canonicals(m)[l + 1], m, l, b)
  OBVIOUS
<1>14. ASSUME NEW x, NEW d \in Dirs[l]
       PROVE  /\ I(x, l)[d] = interp_aux(x, d) /\ V(x, l)[d] = inv_in(x, d)
              /\ M(x, l)[d] = map_frame_in(x, d, base, pte)
              /\ U(x, l)[d] = unmap_in(x, d, base)
              /\ R(x, l)[d] = resolve_in(x, d, base)
  BY DEF I, V, M, U, R
<1>15. ASSUME NEW x, NEW b \in Nat PROVE C(x, l)[b] = canonical_in(x, m, l, b)
  BY DEF C
<1> QED BY <1>8, <1>9, <1>10, <1>11, <1>12, <1>13, <1>14, <1>15

(***************************************************************************)
(* Directories and their invariant.                                        *)
(***************************************************************************)

\* A directory of layer l, its fields and its bounds.
LEMMA DirFacts ==
  ASSUME NEW l \in Layers, NEW d \in Dirs[l]
  PROVE  /\ d = [entries |-> d.entries, layer |-> l, base_vaddr |-> d.base_vaddr]
         /\ d.layer = l /\ d.base_vaddr \in Nat
         /\ d.entries \in [EntryIndices -> NodeEntries(Dirs[l + 1])]
         /\ entry_size(d) = EntrySize[l]
         /\ upper_vaddr(d) = d.base_vaddr + NumEntries * EntrySize[l]
         /\ \A i : EntryBase(d, i) = entry_base(l, d.base_vaddr, i)
         /\ \A v : IndexFor(d, v) = index_for_vaddr(l, d.base_vaddr, v)
<1>1. d \in [entries : [EntryIndices -> NodeEntries(Dirs[l + 1])],
             layer : {l}, base_vaddr : Nat]
  BY DirsFacts
<1>2. d.layer = l
  BY <1>1
<1> QED BY <1>1, <1>2 DEF entry_size, upper_vaddr, EntryBase, IndexFor, entry_base

\* An entry is empty, a page or a directory of the next layer.
LEMMA EntryKinds ==
  ASSUME NEW l \in Layers, NEW d \in Dirs[l], NEW i \in EntryIndices
  PROVE  LET e == d.entries[i]
         IN  \/ e = Empty /\ is_Empty(e) /\ ~is_Page(e) /\ ~is_Directory(e)
             \/ /\ e = Page(e.pte) /\ e.pte \in PageTableEntry
                /\ is_Page(e) /\ ~is_Empty(e) /\ ~is_Directory(e)
             \/ /\ e = Directory(e.dir) /\ e.dir \in Dirs[l + 1]
                /\ l + 1 \in Layers /\ l # LastLayer
                /\ is_Directory(e) /\ ~is_Empty(e) /\ ~is_Page(e)
<1> DEFINE e == d.entries[i]
<1>1. e \in NodeEntries(Dirs[l + 1])
  BY DirFacts
<1> HIDE DEF e
<1>2. CASE e = Empty
  BY <1>2 DEF Empty, is_Empty, is_Page, is_Directory, e
<1>3. CASE e \in [tag : {"Page"}, pte : PageTableEntry]
  BY <1>3 DEF Page, is_Empty, is_Page, is_Directory, e
<1>4. CASE e \in [tag : {"Directory"}, dir : Dirs[l + 1]]
  <2>1. e.dir \in Dirs[l + 1] /\ e = Directory(e.dir) /\ e.tag = "Directory"
    BY <1>4 DEF Directory
  <2>2. l + 1 \in Layers /\ l # LastLayer
    BY <2>1, DirsFacts, LevelFacts
  <2> QED BY <2>1, <2>2 DEF is_Empty, is_Page, is_Directory, e
<1> QED BY <1>1, <1>2, <1>3, <1>4 DEF NodeEntries

\* The invariant of an entry of d.
EntryInv(l, d, i) ==
  LET e == d.entries[i]
  IN /\ is_Page(e) => /\ e.pte.frame.size = EntrySize[l]
                      /\ aligned(e.pte.frame.base, EntrySize[l])
     /\ is_Directory(e) => /\ e.dir.base_vaddr = entry_base(l, d.base_vaddr, i)
                           /\ ~empty(e.dir)
                           /\ inv(e.dir)

\* Directory::inv, entry by entry.
LEMMA InvFacts ==
  ASSUME NEW l \in Layers, NEW d \in Dirs[l]
  PROVE  inv(d) <=> /\ aligned(d.base_vaddr, NumEntries * EntrySize[l])
                    /\ \A i \in EntryIndices : EntryInv(l, d, i)
<1>1. inv(d) = inv_in(Inv[l + 1], d)
  BY Recursion, DirFacts DEF inv
<1>2. ASSUME NEW i \in EntryIndices, is_Directory(d.entries[i])
      PROVE  Inv[l + 1][d.entries[i].dir] = inv(d.entries[i].dir)
  <2>1. d.entries[i].dir \in Dirs[l + 1] /\ l + 1 \in Layers
    BY <1>2, EntryKinds
  <2> QED BY <2>1, DirFacts DEF inv
<1>3. entry_size(d) = EntrySize[l] /\ \A i : EntryBase(d, i) = entry_base(l, d.base_vaddr, i)
  BY DirFacts
<1>4. ASSUME NEW i \in EntryIndices
      PROVE  EntryInv(l, d, i) <=>
               LET e == d.entries[i]
               IN /\ is_Page(e) => /\ e.pte.frame.size = entry_size(d)
                                   /\ aligned(e.pte.frame.base, entry_size(d))
                  /\ is_Directory(e) => /\ e.dir.base_vaddr = EntryBase(d, i)
                                        /\ ~empty(e.dir)
                                        /\ Inv[l + 1][e.dir]
  <2>1. CASE is_Directory(d.entries[i])
    BY <1>2, <1>3, <2>1 DEF EntryInv
  <2>2. CASE ~is_Directory(d.entries[i])
    BY <1>3, <2>2 DEF EntryInv
  <2> QED BY <2>1, <2>2
<1> HIDE DEF EntryInv
<1> QED BY <1>1, <1>3, <1>4 DEF inv_in

\* What entry i of d contributes to the contents.
EntryMap(d, i) == interp_of_entry(Interp[d.layer + 1], d, i)

LEMMA EntryMapFacts ==
  ASSUME NEW l \in Layers, NEW d \in Dirs[l], NEW i \in EntryIndices
  PROVE  LET e == d.entries[i]
         IN  /\ is_Empty(e) => EntryMap(d, i) = EmptyMap
             /\ is_Page(e) => EntryMap(d, i) = [b \in {entry_base(l, d.base_vaddr, i)} |-> e.pte]
             /\ is_Directory(e) => EntryMap(d, i) = interp(e.dir)
<1> DEFINE e == d.entries[i]
<1>1. CASE is_Empty(e)
  BY <1>1, EntryKinds DEF EntryMap, interp_of_entry
<1>2. CASE is_Page(e)
  BY <1>2, EntryKinds, DirFacts DEF EntryMap, interp_of_entry
<1>3. CASE is_Directory(e)
  <2>1. EntryMap(d, i) = Interp[d.layer + 1][e.dir]
    BY <1>3, EntryKinds DEF EntryMap, interp_of_entry
  <2>2. e.dir.layer = l + 1 /\ d.layer = l
    BY <1>3, EntryKinds, DirFacts
  <2>3. ~is_Empty(e) /\ ~is_Page(e)
    BY <1>3, EntryKinds
  <2> QED BY <2>1, <2>2, <2>3 DEF interp
<1> QED BY <1>1, <1>2, <1>3, EntryKinds

\* An entry that is a directory.
LEMMA DirectoryEntry ==
  ASSUME NEW l \in Layers, NEW d \in Dirs[l], inv(d), NEW i \in EntryIndices,
         is_Directory(d.entries[i])
  PROVE  LET x == d.entries[i].dir
         IN  /\ x \in Dirs[l + 1] /\ l + 1 \in Layers /\ d.entries[i] = Directory(x)
             /\ inv(x) /\ ~empty(x) /\ x.base_vaddr = entry_base(l, d.base_vaddr, i)
             /\ EntryMap(d, i) = interp(x)
<1>1. EntryInv(l, d, i)
  BY InvFacts
<1>2. EntryMap(d, i) = interp(d.entries[i].dir)
  BY EntryMapFacts
<1>3. /\ d.entries[i].dir \in Dirs[l + 1] /\ l + 1 \in Layers
      /\ d.entries[i] = Directory(d.entries[i].dir)
  BY EntryKinds
<1> QED BY <1>1, <1>2, <1>3 DEF EntryInv

\* What a directory maps is what its entries map.
LEMMA InterpOfEntries ==
  ASSUME NEW l \in Layers, NEW d \in Dirs[l]
  PROVE  /\ interp(d) = [b \in DOMAIN interp(d) |-> interp(d)[b]]
         /\ \A i \in EntryIndices : DOMAIN EntryMap(d, i) \subseteq DOMAIN interp(d)
         /\ \A b \in DOMAIN interp(d) : \E i \in EntryIndices :
              b \in DOMAIN EntryMap(d, i) /\ interp(d)[b] = EntryMap(d, i)[b]
<1> DEFINE maps == [i \in EntryIndices |-> EntryMap(d, i)]
           first(b, i) == /\ b \in DOMAIN maps[i]
                          /\ \A j \in 0 .. (i - 1) : b \notin DOMAIN maps[j]
           D == UNION {DOMAIN maps[i] : i \in EntryIndices}
           r == [b \in D |-> maps[CHOOSE i \in EntryIndices : first(b, i)][b]]
<1>1. interp(d) = r
  <2>1. interp(d) = interp_aux(Interp[l + 1], d)
    BY Recursion, DirFacts DEF interp
  <2>2. d.layer = l
    BY DirFacts
  <2> QED BY <2>1, <2>2 DEF interp_aux, EntryMap
<1>2. r = [b \in DOMAIN r |-> r[b]]
  OBVIOUS
<1>3. ASSUME NEW b \in D
      PROVE  \E i \in EntryIndices : b \in DOMAIN maps[i] /\ r[b] = maps[i][b]
  <2> DEFINE Holding == {i \in EntryIndices : b \in DOMAIN maps[i]}
             i == CHOOSE i \in EntryIndices : first(b, i)
  <2>1. Holding # {} /\ Holding \in SUBSET Nat
    BY <1>3 DEF EntryIndices
  <2>2. PICK k \in Holding : \A j \in Holding : k <= j
    <3> HIDE DEF Holding
    <3> QED BY <2>1, LeastElement
  <2>3. ASSUME NEW j \in 0 .. (k - 1) PROVE j \notin Holding
    BY <2>1, <2>2
  <2>4. \A j \in 0 .. (k - 1) : j \in EntryIndices
    BY <2>2, SizeFacts DEF EntryIndices
  <2>5. first(b, k)
    BY <2>2, <2>3, <2>4
  <2> HIDE DEF first
  <2>6. i \in EntryIndices /\ first(b, i)
    BY <2>2, <2>5
  <2>7. r[b] = maps[i][b]
    BY <1>3
  <2> HIDE DEF i, maps
  <2> QED BY <2>6, <2>7 DEF first
<1>4. DOMAIN r = D /\ \A i \in EntryIndices : DOMAIN maps[i] \subseteq D /\ maps[i] = EntryMap(d, i)
  OBVIOUS
<1> HIDE DEF r, D, maps
<1> QED BY <1>1, <1>2, <1>3, <1>4

(***************************************************************************)
(* The contents of a directory are well placed: each mapping lies within   *)
(* the span of one entry.                                                  *)
(***************************************************************************)

\* The sizes of the layers from l on.
SizesFrom(l) == {EntrySize[k] : k \in l .. LastLayer}

\* All that m maps lies from lo on below hi, has the size of a layer from l
\* on, and is aligned.
PlacedMap(l, lo, hi, m) ==
  /\ m = [b \in DOMAIN m |-> m[b]]
  /\ \A b \in DOMAIN m :
       /\ b \in Nat /\ m[b] \in PageTableEntry
       /\ lo <= b /\ b + m[b].frame.size <= hi
       /\ m[b].frame.size \in SizesFrom(l)
       /\ aligned(b, m[b].frame.size)
       /\ aligned(m[b].frame.base, m[b].frame.size)

EntryPlaced(l, d, i) ==
  PlacedMap(l, entry_base(l, d.base_vaddr, i),
            entry_base(l, d.base_vaddr, i) + EntrySize[l], EntryMap(d, i))

\* Sizes are numbers, and the sizes of the next layer are sizes of this one.
LEMMA SizesFacts ==
  ASSUME NEW l \in Layers
  PROVE  /\ SizesFrom(l) \subseteq Nat \ {0}
         /\ EntrySize[l] \in SizesFrom(l)
         /\ l # LastLayer => /\ SizesFrom(l + 1) \subseteq SizesFrom(l)
                             /\ SizesFrom(l) = SizesFrom(l + 1) \cup {EntrySize[l]}
<1>1. \A k \in l .. LastLayer : k \in Layers
  BY SizeFacts DEF Layers
<1>2. l \in l .. LastLayer
  BY SizeFacts DEF Layers
<1>3. l # LastLayer => l .. LastLayer = ((l + 1) .. LastLayer) \cup {l}
  BY SizeFacts DEF Layers
<1> QED BY <1>1, <1>2, <1>3, SizeFacts DEF SizesFrom

\* An entry of a directory is aligned to its size, and so is the directory
\* below it.
LEMMA EntryFits ==
  ASSUME NEW l \in Layers, NEW d \in Dirs[l], inv(d), NEW i \in EntryIndices
  PROVE  LET b == entry_base(l, d.base_vaddr, i)
         IN  /\ b \in Nat /\ d.base_vaddr <= b
             /\ b + EntrySize[l] <= d.base_vaddr + NumEntries * EntrySize[l]
             /\ aligned(b, EntrySize[l])
             /\ l # LastLayer => EntrySize[l] = NumEntries * EntrySize[l + 1]
BY DirFacts, InvFacts, EntryInSpan, EntryAligned, SizeFacts

\* A directory holds what its entries hold, each in a span of its own.
LEMMA PlacedUnion ==
  ASSUME NEW l \in Layers, NEW d \in Dirs[l], inv(d),
         \A i \in EntryIndices : EntryPlaced(l, d, i)
  PROVE  /\ PlacedMap(l, d.base_vaddr, d.base_vaddr + NumEntries * EntrySize[l], interp(d))
         /\ \A i \in EntryIndices : \A b \in DOMAIN EntryMap(d, i) :
              /\ b \in DOMAIN interp(d)
              /\ interp(d)[b] = EntryMap(d, i)[b]
              /\ IndexFor(d, b) = i
         /\ \A b \in DOMAIN interp(d) :
              IndexFor(d, b) \in EntryIndices /\ b \in DOMAIN EntryMap(d, IndexFor(d, b))
<1> DEFINE B == d.base_vaddr
           base(i) == entry_base(l, B, i)
<1>1. ASSUME NEW i \in EntryIndices, NEW b \in DOMAIN EntryMap(d, i)
      PROVE  IndexFor(d, b) = i
  <2>1. /\ b \in Nat /\ EntryMap(d, i)[b].frame.size \in Nat \ {0}
        /\ base(i) <= b /\ b + EntryMap(d, i)[b].frame.size <= base(i) + EntrySize[l]
    BY <1>1, SizesFacts DEF EntryPlaced, PlacedMap
  <2>2. base(i) \in Nat /\ EntrySize[l] \in Nat
    BY EntryFits, SizeFacts
  <2>3. between(b, base(i), base(i) + EntrySize[l])
    BY <2>1, <2>2 DEF between
  <2> QED BY <2>1, <2>3, IndexOfEntry, DirFacts
<1>2. ASSUME NEW b \in DOMAIN interp(d)
      PROVE  /\ IndexFor(d, b) \in EntryIndices
             /\ b \in DOMAIN EntryMap(d, IndexFor(d, b))
             /\ interp(d)[b] = EntryMap(d, IndexFor(d, b))[b]
  BY <1>1, InterpOfEntries
<1>3. ASSUME NEW i \in EntryIndices, NEW b \in DOMAIN EntryMap(d, i)
      PROVE  b \in DOMAIN interp(d) /\ interp(d)[b] = EntryMap(d, i)[b]
  BY <1>1, <1>2, InterpOfEntries
<1>4. ASSUME NEW b \in DOMAIN interp(d)
      PROVE  /\ b \in Nat /\ interp(d)[b] \in PageTableEntry
             /\ B <= b /\ b + interp(d)[b].frame.size <= B + NumEntries * EntrySize[l]
             /\ interp(d)[b].frame.size \in SizesFrom(l)
             /\ aligned(b, interp(d)[b].frame.size)
             /\ aligned(interp(d)[b].frame.base, interp(d)[b].frame.size)
  <2> DEFINE i == IndexFor(d, b)
             m == EntryMap(d, i)
  <2>1. i \in EntryIndices /\ b \in DOMAIN m /\ interp(d)[b] = m[b]
    BY <1>2
  <2>2. /\ b \in Nat /\ m[b] \in PageTableEntry
        /\ base(i) <= b /\ b + m[b].frame.size <= base(i) + EntrySize[l]
        /\ m[b].frame.size \in SizesFrom(l)
        /\ aligned(b, m[b].frame.size)
        /\ aligned(m[b].frame.base, m[b].frame.size)
    BY <2>1 DEF EntryPlaced, PlacedMap
  <2>3. /\ base(i) \in Nat /\ EntrySize[l] \in Nat /\ B \in Nat /\ B <= base(i)
        /\ base(i) + EntrySize[l] <= B + NumEntries * EntrySize[l]
        /\ NumEntries * EntrySize[l] \in Nat
    BY <2>1, EntryFits, SizeFacts, DirFacts
  <2>4. m[b].frame.size \in Nat
    BY <2>2, SizesFacts
  <2> HIDE DEF i, m, B, base
  <2> QED BY <2>1, <2>2, <2>3, <2>4
<1>5. interp(d) = [b \in DOMAIN interp(d) |-> interp(d)[b]]
  BY InterpOfEntries
<1> QED BY <1>1, <1>2, <1>3, <1>4, <1>5 DEF PlacedMap

\* Every entry of every directory is placed in its span.
LEMMA EntriesPlaced ==
  ASSUME NEW l \in Layers, NEW d \in Dirs[l], inv(d), NEW i \in EntryIndices
  PROVE  EntryPlaced(l, d, i)
<1> DEFINE S == {k \in Levels : \A x \in Dirs[k] : inv(x) =>
                   \A j \in EntryIndices : EntryPlaced(k, x, j)}
<1>1. LastLayer + 1 \in S
  BY DirsFacts, LevelFacts
<1>2. ASSUME NEW k \in Layers, k + 1 \in S PROVE k \in S
  <2> SUFFICES ASSUME NEW x \in Dirs[k], inv(x), NEW j \in EntryIndices
               PROVE  EntryPlaced(k, x, j)
    BY LevelFacts
  <2> DEFINE e == x.entries[j]
             b == entry_base(k, x.base_vaddr, j)
             m == EntryMap(x, j)
  <2>1. b \in Nat /\ aligned(b, EntrySize[k]) /\ EntrySize[k] \in Nat \ {0}
    BY EntryFits, SizeFacts
  <2>2. CASE is_Empty(e)
    <3>1. m = EmptyMap
      BY <2>2, EntryMapFacts
    <3> QED BY <3>1 DEF EntryPlaced, PlacedMap, EmptyMap
  <2>3. CASE is_Page(e)
    <3>1. m = [y \in {b} |-> e.pte]
      BY <2>3, EntryMapFacts
    <3>2. e.pte.frame.size = EntrySize[k] /\ aligned(e.pte.frame.base, EntrySize[k])
      BY <2>3, InvFacts DEF EntryInv
    <3>3. e.pte \in PageTableEntry
      BY <2>3, EntryKinds
    <3>4. EntrySize[k] \in SizesFrom(k)
      BY SizesFacts
    <3> HIDE DEF b, e, m
    <3>5. PlacedMap(k, b, b + EntrySize[k], m)
      BY <2>1, <3>1, <3>2, <3>3, <3>4 DEF PlacedMap
    <3> QED BY <3>5 DEF EntryPlaced, b, m
  <2>4. CASE is_Directory(e)
    <3>1. m = interp(e.dir)
      BY <2>4, EntryMapFacts
    <3>2. /\ e.dir \in Dirs[k + 1] /\ k + 1 \in Layers /\ k # LastLayer
          /\ e.dir.base_vaddr = b /\ inv(e.dir)
      BY <2>4, EntryKinds, InvFacts DEF EntryInv
    <3>3. \A n \in EntryIndices : EntryPlaced(k + 1, e.dir, n)
      BY <1>2, <3>2
    <3>4. PlacedMap(k + 1, b, b + NumEntries * EntrySize[k + 1], m)
      BY <3>1, <3>2, <3>3, PlacedUnion
    <3>5. EntrySize[k] = NumEntries * EntrySize[k + 1] /\ SizesFrom(k + 1) \subseteq SizesFrom(k)
      BY <3>2, SizesFacts, SizeFacts
    <3> QED BY <3>4, <3>5 DEF EntryPlaced, PlacedMap
  <2> QED BY <2>2, <2>3, <2>4, EntryKinds
<1>3. l \in S
  <2> HIDE DEF S
  <2> QED BY <1>1, <1>2, LayerInduction, LevelFacts
<1> QED BY <1>3

\* The contents of a directory, entry by entry.
LEMMA InterpFacts ==
  ASSUME NEW l \in Layers, NEW d \in Dirs[l], inv(d)
  PROVE  /\ PlacedMap(l, d.base_vaddr, d.base_vaddr + NumEntries * EntrySize[l], interp(d))
         /\ \A i \in EntryIndices : \A b \in DOMAIN EntryMap(d, i) :
              /\ b \in DOMAIN interp(d)
              /\ interp(d)[b] = EntryMap(d, i)[b]
              /\ IndexFor(d, b) = i
         /\ \A b \in DOMAIN interp(d) :
              IndexFor(d, b) \in EntryIndices /\ b \in DOMAIN EntryMap(d, IndexFor(d, b))
<1>1. \A i \in EntryIndices : EntryPlaced(l, d, i)
  BY EntriesPlaced
<1> QED BY <1>1, PlacedUnion

\* A directory without mappings is empty, and the other way round.
LEMMA EmptyHoldsNothing ==
  ASSUME NEW l \in Layers, NEW d \in Dirs[l], inv(d)
  PROVE  empty(d) <=> DOMAIN interp(d) = {}
<1> DEFINE S == {k \in Levels : \A x \in Dirs[k] :
                   inv(x) => (empty(x) <=> DOMAIN interp(x) = {})}
<1>1. LastLayer + 1 \in S
  BY DirsFacts, LevelFacts
<1>2. ASSUME NEW k \in Layers, k + 1 \in S PROVE k \in S
  <2> SUFFICES ASSUME NEW x \in Dirs[k], inv(x)
               PROVE  empty(x) <=> DOMAIN interp(x) = {}
    BY LevelFacts
  <2>1. ASSUME NEW j \in EntryIndices
        PROVE  is_Empty(x.entries[j]) <=> DOMAIN EntryMap(x, j) = {}
    <3> DEFINE e == x.entries[j]
    <3>1. CASE is_Empty(e)
      BY <3>1, EntryMapFacts DEF EmptyMap
    <3>2. CASE is_Page(e)
      <4>1. ~is_Empty(e)
        BY <3>2, EntryKinds
      <4>2. DOMAIN EntryMap(x, j) = {entry_base(k, x.base_vaddr, j)}
        BY <3>2, EntryMapFacts
      <4> QED BY <4>1, <4>2
    <3>3. CASE is_Directory(e)
      <4>1. /\ e.dir \in Dirs[k + 1] /\ ~is_Empty(e)
            /\ ~empty(e.dir) /\ inv(e.dir)
        BY <3>3, EntryKinds, InvFacts DEF EntryInv
      <4>2. DOMAIN interp(e.dir) # {}
        BY <1>2, <4>1
      <4> QED BY <3>3, <4>1, <4>2, EntryMapFacts
    <3> QED BY <3>1, <3>2, <3>3, EntryKinds
  <2>2. DOMAIN interp(x) = {} <=> \A j \in EntryIndices : DOMAIN EntryMap(x, j) = {}
    BY InterpFacts
  <2> QED BY <2>1, <2>2 DEF empty
<1>3. l \in S
  <2> HIDE DEF S
  <2> QED BY <1>1, <1>2, LayerInduction, LevelFacts
<1> QED BY <1>3

(***************************************************************************)
(* Where a region lies.                                                    *)
(***************************************************************************)

\* The size of each layer is a multiple of those of the layers below it.
LEMMA SizeDivides ==
  ASSUME NEW l \in Layers, NEW s \in SizesFrom(l)
  PROVE  \E q \in Nat \ {0} : EntrySize[l] = q * s
<1> DEFINE S == {k \in Levels : k \in Layers =>
                   \A z \in SizesFrom(k) : \E q \in Nat \ {0} : EntrySize[k] = q * z}
<1>1. LastLayer + 1 \in S
  BY LevelFacts
<1>2. ASSUME NEW k \in Layers, k + 1 \in S PROVE k \in S
  <2> SUFFICES ASSUME NEW z \in SizesFrom(k)
               PROVE  \E q \in Nat \ {0} : EntrySize[k] = q * z
    BY LevelFacts
  <2>1. EntrySize[k] \in Nat \ {0}
    BY SizeFacts
  <2>2. CASE z = EntrySize[k]
    <3>1. EntrySize[k] = 1 * z
      BY <2>1, <2>2
    <3> QED BY <3>1
  <2>3. CASE z # EntrySize[k]
    <3>1. k # LastLayer /\ z \in SizesFrom(k + 1) /\ k + 1 \in Layers
      <4>1. k = LastLayer => SizesFrom(k) = {EntrySize[k]}
        BY SizeFacts DEF SizesFrom, Layers
      <4> QED BY <2>3, <4>1, SizesFacts, SizeFacts
    <3>2. PICK q \in Nat \ {0} : EntrySize[k + 1] = q * z
      BY <1>2, <3>1
    <3>3. EntrySize[k] = NumEntries * (q * z) /\ NumEntries \in Nat \ {0}
      BY <3>1, <3>2, SizeFacts
    <3>4. z \in Nat
      BY SizesFacts
    <3>5. EntrySize[k] = (NumEntries * q) * z /\ NumEntries * q \in Nat \ {0}
      BY <3>3, <3>4
    <3> QED BY <3>5
  <2> QED BY <2>2, <2>3
<1>3. l \in S
  <2> HIDE DEF S
  <2> QED BY <1>1, <1>2, LayerInduction, LevelFacts
<1> QED BY <1>3

\* Of two multiples of s, the smaller one is at least s below.
LEMMA NextMultiple ==
  ASSUME NEW s \in Nat \ {0}, NEW a \in Nat, NEW c \in Nat, a * s < c * s
  PROVE  a * s + s <= c * s
<1>1. a < c
  <2>1. c <= a => c * s <= a * s
    BY Monotone
  <2>2. a * s \in Nat /\ c * s \in Nat
    OBVIOUS
  <2> QED BY <2>1, <2>2
<1>2. (a + 1) * s <= c * s
  BY <1>1, Monotone
<1> QED BY <1>2

\* A region aligned to its size lies within the entry that holds its base
\* (lemma_index_for_vaddr_bounds).
LEMMA RegionInEntry ==
  ASSUME NEW l \in Layers, NEW d \in Dirs[l], inv(d),
         NEW v \in Nat, NEW s \in SizesFrom(l), aligned(v, s),
         d.base_vaddr <= v, v + s <= d.base_vaddr + NumEntries * EntrySize[l]
  PROVE  LET i == IndexFor(d, v)
             b == entry_base(l, d.base_vaddr, i)
         IN  /\ i \in EntryIndices
             /\ b <= v /\ v + s <= b + EntrySize[l]
             /\ s = EntrySize[l] => v = b
<1> DEFINE i == IndexFor(d, v)
           b == entry_base(l, d.base_vaddr, i)
           E == EntrySize[l]
<1>1. s \in Nat \ {0} /\ E \in Nat \ {0} /\ d.base_vaddr \in Nat /\ NumEntries * E \in Nat
  BY SizesFacts, SizeFacts, DirFacts
<1>2. i \in EntryIndices /\ between(v, b, b + E)
  <2>1. between(v, d.base_vaddr, d.base_vaddr + NumEntries * E)
    BY <1>1 DEF between
  <2> QED BY <2>1, IndexInSpan, DirFacts
<1>3. b \in Nat /\ aligned(b, E)
  BY <1>2, EntryFits
<1> HIDE DEF i, b
<1>4. PICK q \in Nat \ {0} : E = q * s
  BY SizeDivides
<1>5. PICK a \in Nat : v = a * s
  BY <1>1, AlignedIsMultiple
<1>6. PICK c \in Nat : b = c * E
  BY <1>1, <1>3, AlignedIsMultiple
<1> HIDE DEF E
<1>7. b + E = (c * q + q) * s /\ c * q + q \in Nat
  BY <1>1, <1>4, <1>6
<1>8. b <= v /\ v < b + E
  BY <1>2 DEF between
<1>9. v + s <= b + E
  BY <1>1, <1>5, <1>7, <1>8, NextMultiple
<1>10. s = E => v = b
  BY <1>1, <1>3, <1>8, <1>9
<1> QED BY <1>2, <1>8, <1>9, <1>10 DEF i, b, E

\* Different entries span different words.
LEMMA SpansDisjoint ==
  ASSUME NEW l \in Layers, NEW b \in Nat,
         NEW i \in EntryIndices, NEW j \in EntryIndices, i # j
  PROVE  \/ entry_base(l, b, i) + EntrySize[l] <= entry_base(l, b, j)
         \/ entry_base(l, b, j) + EntrySize[l] <= entry_base(l, b, i)
<1> DEFINE E == EntrySize[l]
<1>1. E \in Nat /\ i \in Nat /\ j \in Nat
  BY SizeFacts DEF EntryIndices
<1> HIDE DEF E
<1>2. i * E \in Nat /\ j * E \in Nat /\ (i + 1) * E = i * E + E /\ (j + 1) * E = j * E + E
  BY <1>1
<1>3. i < j => (i + 1) * E <= j * E
  BY <1>1, Monotone
<1>4. j < i => (j + 1) * E <= i * E
  BY <1>1, Monotone
<1> QED BY <1>1, <1>2, <1>3, <1>4 DEF entry_base, E

(***************************************************************************)
(* What a change of one entry changes.                                     *)
(***************************************************************************)

\* A directory whose entry is replaced by one that keeps the invariant.
LEMMA UpdateFacts ==
  ASSUME NEW l \in Layers, NEW d \in Dirs[l], inv(d), NEW i \in EntryIndices,
         NEW e \in NodeEntries(Dirs[l + 1]),
         is_Page(e) => /\ e.pte.frame.size = EntrySize[l]
                       /\ aligned(e.pte.frame.base, EntrySize[l]),
         is_Directory(e) => /\ e.dir.base_vaddr = entry_base(l, d.base_vaddr, i)
                            /\ ~empty(e.dir)
                            /\ inv(e.dir)
  PROVE  LET n == update(d, i, e)
         IN  /\ n \in Dirs[l] /\ inv(n) /\ n.base_vaddr = d.base_vaddr
             /\ n.entries[i] = e
             /\ \A j \in EntryIndices \ {i} :
                  n.entries[j] = d.entries[j] /\ EntryMap(n, j) = EntryMap(d, j)
<1> DEFINE n == update(d, i, e)
<1>1. /\ n.entries = [d.entries EXCEPT ![i] = e]
      /\ n.layer = l /\ n.base_vaddr = d.base_vaddr
      /\ n = [entries |-> n.entries, layer |-> l, base_vaddr |-> d.base_vaddr]
  BY DirFacts DEF update
<1> HIDE DEF n
<1>2. /\ n.entries \in [EntryIndices -> NodeEntries(Dirs[l + 1])]
      /\ n.entries[i] = e
      /\ \A j \in EntryIndices \ {i} : n.entries[j] = d.entries[j]
  BY <1>1, DirFacts
<1>3. n \in Dirs[l]
  <2>1. Dirs[l] = [entries : [EntryIndices -> NodeEntries(Dirs[l + 1])],
                   layer : {l}, base_vaddr : Nat]
    BY DirsFacts
  <2>2. n.base_vaddr \in Nat
    BY <1>1, DirFacts
  <2> QED BY <1>1, <1>2, <2>1, <2>2
<1>4. ASSUME NEW j \in EntryIndices PROVE EntryInv(l, n, j)
  <2>1. CASE j = i
    BY <1>1, <1>2, <2>1 DEF EntryInv
  <2>2. CASE j # i
    BY <1>1, <1>2, <2>2, InvFacts DEF EntryInv
  <2> QED BY <2>1, <2>2
<1>5. inv(n)
  BY <1>1, <1>3, <1>4, InvFacts
<1>6. ASSUME NEW j \in EntryIndices \ {i} PROVE EntryMap(n, j) = EntryMap(d, j)
  <2> DEFINE o == d.entries[j]
  <2>1. n.entries[j] = o /\ n.base_vaddr = d.base_vaddr
    BY <1>1, <1>2
  <2>2. is_Empty(o) \/ is_Page(o) \/ is_Directory(o)
    BY EntryKinds
  <2> HIDE DEF o
  <2>3. CASE is_Empty(o)
    BY <1>3, <2>1, <2>3, EntryMapFacts DEF o
  <2>4. CASE is_Page(o)
    <3>1. EntryMap(d, j) = [b \in {entry_base(l, d.base_vaddr, j)} |-> o.pte]
      BY <2>4, EntryMapFacts DEF o
    <3>2. EntryMap(n, j) = [b \in {entry_base(l, n.base_vaddr, j)} |-> n.entries[j].pte]
      BY <1>3, <2>1, <2>4, EntryMapFacts
    <3> QED BY <2>1, <3>1, <3>2
  <2>5. CASE is_Directory(o)
    <3>1. EntryMap(d, j) = interp(o.dir)
      BY <2>5, EntryMapFacts DEF o
    <3>2. EntryMap(n, j) = interp(n.entries[j].dir)
      BY <1>3, <2>1, <2>5, EntryMapFacts
    <3> QED BY <2>1, <3>1, <3>2
  <2> QED BY <2>2, <2>3, <2>4, <2>5
<1> QED BY <1>1, <1>2, <1>3, <1>5, <1>6 DEF n

\* An insertion into the contents of one entry is one into the directory's.
LEMMA InsertInEntry ==
  ASSUME NEW l \in Layers, NEW d \in Dirs[l], inv(d), NEW n \in Dirs[l], inv(n),
         NEW i \in EntryIndices, NEW b, NEW pte,
         \A j \in EntryIndices \ {i} : EntryMap(n, j) = EntryMap(d, j),
         EntryMap(n, i) = map_insert(EntryMap(d, i), b, pte)
  PROVE  interp(n) = map_insert(interp(d), b, pte)
<1> DEFINE M == EntryMap(n, i)
<1>1. /\ DOMAIN M = DOMAIN EntryMap(d, i) \cup {b}
      /\ M[b] = pte
      /\ \A x \in DOMAIN EntryMap(d, i) : x # b => M[x] = EntryMap(d, i)[x]
  BY DEF map_insert
<1> HIDE DEF M
<1>2. ASSUME NEW x \in DOMAIN interp(n)
      PROVE  /\ x \in DOMAIN interp(d) \cup {b}
             /\ interp(n)[x] = IF x = b THEN pte ELSE interp(d)[x]
  <2> DEFINE j == IndexFor(n, x)
  <2>1. j \in EntryIndices /\ x \in DOMAIN EntryMap(n, j) /\ interp(n)[x] = EntryMap(n, j)[x]
    BY InterpFacts
  <2>2. CASE j = i
    BY <1>1, <2>1, <2>2, InterpFacts DEF M
  <2>3. CASE j # i
    <3>1. x # b
      BY <1>1, <2>3, InterpFacts DEF M
    <3> QED BY <2>1, <2>3, <3>1, InterpFacts
  <2> QED BY <2>2, <2>3
<1>3. ASSUME NEW x \in DOMAIN interp(d) \cup {b} PROVE x \in DOMAIN interp(n)
  <2>1. CASE x = b
    BY <1>1, <2>1, InterpFacts DEF M
  <2>2. CASE x \in DOMAIN interp(d)
    <3> DEFINE j == IndexFor(d, x)
    <3>1. j \in EntryIndices /\ x \in DOMAIN EntryMap(d, j)
      BY <2>2, InterpFacts
    <3>2. x \in DOMAIN EntryMap(n, j)
      BY <1>1, <3>1 DEF M
    <3> QED BY <3>1, <3>2, InterpFacts
  <2> QED BY <2>1, <2>2
<1>4. interp(n) = [x \in DOMAIN interp(n) |-> interp(n)[x]]
  BY InterpOfEntries
<1>5. DOMAIN interp(n) = DOMAIN interp(d) \cup {b}
  BY <1>2, <1>3
<1> QED BY <1>2, <1>4, <1>5 DEF map_insert

\* A removal from the contents of one entry is one from the directory's.
LEMMA RemoveInEntry ==
  ASSUME NEW l \in Layers, NEW d \in Dirs[l], inv(d), NEW n \in Dirs[l], inv(n),
         NEW i \in EntryIndices, NEW b \in DOMAIN EntryMap(d, i),
         \A j \in EntryIndices \ {i} : EntryMap(n, j) = EntryMap(d, j),
         EntryMap(n, i) = map_remove(EntryMap(d, i), b)
  PROVE  interp(n) = map_remove(interp(d), b)
<1> DEFINE M == EntryMap(n, i)
<1>1. /\ DOMAIN M = DOMAIN EntryMap(d, i) \ {b}
      /\ \A x \in DOMAIN M : M[x] = EntryMap(d, i)[x]
  <2> DEFINE O == EntryMap(d, i)
  <2> HIDE DEF O, M
  <2>1. M = map_remove(O, b)
    BY DEF O, M
  <2>2. DOMAIN M = DOMAIN O \ {b} /\ \A x \in DOMAIN O \ {b} : M[x] = O[x]
    BY <2>1, RemoveFacts
  <2> QED BY <2>2 DEF O
<1> HIDE DEF M
<1>2. ASSUME NEW x \in DOMAIN interp(n)
      PROVE  x \in DOMAIN interp(d) \ {b} /\ interp(n)[x] = interp(d)[x]
  <2> DEFINE j == IndexFor(n, x)
  <2>1. j \in EntryIndices /\ x \in DOMAIN EntryMap(n, j) /\ interp(n)[x] = EntryMap(n, j)[x]
    BY InterpFacts
  <2>2. CASE j = i
    BY <1>1, <2>1, <2>2, InterpFacts DEF M
  <2>3. CASE j # i
    <3>1. x # b
      BY <2>1, <2>3, InterpFacts
    <3> QED BY <2>1, <2>3, <3>1, InterpFacts
  <2> QED BY <2>2, <2>3
<1>3. ASSUME NEW x \in DOMAIN interp(d) \ {b} PROVE x \in DOMAIN interp(n)
  <2> DEFINE j == IndexFor(d, x)
  <2>1. j \in EntryIndices /\ x \in DOMAIN EntryMap(d, j)
    BY <1>3, InterpFacts
  <2>2. x \in DOMAIN EntryMap(n, j)
    BY <1>1, <2>1 DEF M
  <2> QED BY <2>1, <2>2, InterpFacts
<1>4. interp(n) = [x \in DOMAIN interp(n) |-> interp(n)[x]]
  BY InterpOfEntries
<1>5. DOMAIN interp(n) = DOMAIN interp(d) \ {b}
  BY <1>2, <1>3
<1>6. /\ map_remove(interp(d), b) = [x \in DOMAIN interp(d) \ {b} |-> interp(d)[x]]
  BY DEF map_remove, Restrict
<1> QED BY <1>2, <1>4, <1>5, <1>6

\* A region within an entry overlaps what the directory maps exactly if it
\* overlaps what the entry maps.
LEMMA ValidInEntry ==
  ASSUME NEW l \in Layers, NEW d \in Dirs[l], inv(d), NEW i \in EntryIndices,
         NEW v \in Nat, NEW pte \in PageTableEntry, pte.frame.size # 0,
         entry_base(l, d.base_vaddr, i) <= v,
         v + pte.frame.size <= entry_base(l, d.base_vaddr, i) + EntrySize[l]
  PROVE  valid_mapping(interp(d), v, pte) <=> valid_mapping(EntryMap(d, i), v, pte)
<1> DEFINE s == pte.frame.size
           base(j) == entry_base(l, d.base_vaddr, j)
           E == EntrySize[l]
<1>1. s \in Nat \ {0} /\ E \in Nat
  BY EntryFacts, SizeFacts
<1>2. ASSUME NEW x \in DOMAIN interp(d), IndexFor(d, x) # i
      PROVE  ~overlap(MemRegion(v, s), MemRegion(x, interp(d)[x].frame.size))
  <2> DEFINE j == IndexFor(d, x)
             t == interp(d)[x].frame.size
  <2>1. j \in EntryIndices /\ x \in DOMAIN EntryMap(d, j) /\ interp(d)[x] = EntryMap(d, j)[x]
    BY InterpFacts
  <2>2. x \in Nat /\ base(j) <= x /\ x + t <= base(j) + E /\ t \in Nat \ {0}
    BY <2>1, EntriesPlaced, SizesFacts DEF EntryPlaced, PlacedMap
  <2>3. base(i) + E <= base(j) \/ base(j) + E <= base(i)
    BY <1>2, <2>1, SpansDisjoint, DirFacts
  <2>4. base(i) \in Nat /\ base(j) \in Nat
    BY <2>1, EntryFits
  <2> HIDE DEF j, t, s, base, E
  <2>5. v + s <= x \/ x + t <= v
    BY <1>1, <2>2, <2>3, <2>4 DEF s, base, E
  <2>6. ~overlap(MemRegion(v, s), MemRegion(x, t))
    BY <1>1, <2>2, <2>5 DEF overlap, MemRegion
  <2> QED BY <2>6 DEF t
<1>3. \A x \in DOMAIN EntryMap(d, i) : x \in DOMAIN interp(d) /\ interp(d)[x] = EntryMap(d, i)[x]
  BY InterpFacts
<1>4. \A x \in DOMAIN interp(d) : IndexFor(d, x) = i => x \in DOMAIN EntryMap(d, i)
  BY InterpFacts
<1> QED BY <1>2, <1>3, <1>4 DEF valid_mapping

(***************************************************************************)
(* map_frame.                                                              *)
(***************************************************************************)

\* map_frame works on one directory and calls itself on those below.
LEMMA MapFrameStep ==
  ASSUME NEW l \in Layers, NEW d \in Dirs[l], NEW base, NEW pte
  PROVE  /\ map_frame(d, base, pte) =
              map_frame_in(map_frames(base, pte)[l + 1], d, base, pte)
         /\ l + 1 \in Layers => \A x \in Dirs[l + 1] :
              map_frames(base, pte)[l + 1][x] = map_frame(x, base, pte)
<1>1. map_frames(base, pte)[l][d] =
        map_frame_in(map_frames(base, pte)[l + 1], d, base, pte)
  BY Recursion
<1>2. map_frame(d, base, pte) = map_frames(base, pte)[l][d]
  BY DirFacts DEF map_frame
<1>3. ASSUME l + 1 \in Layers, NEW x \in Dirs[l + 1]
      PROVE  map_frames(base, pte)[l + 1][x] = map_frame(x, base, pte)
  BY <1>3, DirFacts DEF map_frame
<1> QED BY <1>1, <1>2, <1>3

\* A new directory is empty and well formed.
LEMMA EmptyDirFacts ==
  ASSUME NEW l \in Layers, NEW b \in Nat, aligned(b, NumEntries * EntrySize[l])
  PROVE  LET n == EmptyDir(l, b)
         IN  /\ n \in Dirs[l] /\ inv(n) /\ empty(n)
             /\ n.base_vaddr = b /\ interp(n) = EmptyMap
<1> DEFINE n == EmptyDir(l, b)
<1>1. /\ n.entries \in [EntryIndices -> NodeEntries(Dirs[l + 1])]
      /\ \A i \in EntryIndices : n.entries[i] = Empty
      /\ n.layer = l /\ n.base_vaddr = b
      /\ n = [entries |-> n.entries, layer |-> l, base_vaddr |-> b]
  BY DEF EmptyDir, NodeEntries
<1> HIDE DEF n
<1>2. n \in Dirs[l]
  <2>1. Dirs[l] = [entries : [EntryIndices -> NodeEntries(Dirs[l + 1])],
                   layer : {l}, base_vaddr : Nat]
    BY DirsFacts
  <2> QED BY <1>1, <2>1
<1>3. \A i \in EntryIndices : /\ is_Empty(n.entries[i])
                              /\ ~is_Page(n.entries[i])
                              /\ ~is_Directory(n.entries[i])
  BY <1>1 DEF Empty, is_Empty, is_Page, is_Directory
<1>4. empty(n)
  BY <1>3 DEF empty
<1>5. inv(n)
  BY <1>1, <1>2, <1>3, InvFacts DEF EntryInv
<1>6. DOMAIN interp(n) = {} /\ interp(n) = [x \in DOMAIN interp(n) |-> interp(n)[x]]
  BY <1>2, <1>4, <1>5, EmptyHoldsNothing, InterpOfEntries
<1>7. interp(n) = EmptyMap
  BY <1>6 DEF EmptyMap
<1> QED BY <1>1, <1>2, <1>4, <1>5, <1>7 DEF n

\* A directory that replaces what entry i holds.
LEMMA PlaceBelow ==
  ASSUME NEW l \in Layers, NEW d \in Dirs[l], inv(d), NEW i \in EntryIndices,
         NEW x \in Dirs[l + 1], l + 1 \in Layers, inv(x), ~empty(x),
         x.base_vaddr = entry_base(l, d.base_vaddr, i)
  PROVE  LET n == update(d, i, Directory(x))
         IN  /\ n \in Dirs[l] /\ inv(n) /\ n.base_vaddr = d.base_vaddr
             /\ EntryMap(n, i) = interp(x)
             /\ \A j \in EntryIndices \ {i} : EntryMap(n, j) = EntryMap(d, j)
<1> DEFINE e == Directory(x)
<1>1. /\ e \in NodeEntries(Dirs[l + 1]) /\ e.dir = x
      /\ ~is_Page(e) /\ is_Directory(e)
  BY DEF Directory, NodeEntries, is_Page, is_Directory
<1> HIDE DEF e
<1> DEFINE n == update(d, i, e)
<1>2. /\ n \in Dirs[l] /\ inv(n) /\ n.base_vaddr = d.base_vaddr /\ n.entries[i] = e
      /\ \A j \in EntryIndices \ {i} : EntryMap(n, j) = EntryMap(d, j)
  BY <1>1, UpdateFacts
<1> HIDE DEF n
<1>3. EntryMap(n, i) = interp(x)
  BY <1>1, <1>2, EntryMapFacts
<1> QED BY <1>2, <1>3 DEF n, e

\* What a call of map_frame on d is to return.
MapResult(l, d, base, pte, r) ==
  /\ r = [tag |-> r.tag, dir |-> r.dir]
  /\ r.dir \in Dirs[l] /\ inv(r.dir) /\ r.dir.base_vaddr = d.base_vaddr
  /\ valid_mapping(interp(d), base, pte) =>
       r.tag = "Ok" /\ interp(r.dir) = map_insert(interp(d), base, pte)
  /\ ~valid_mapping(interp(d), base, pte) => r.tag = "Err" /\ r.dir = d

\* Writing an entry back changes nothing.
LEMMA UpdateSame ==
  ASSUME NEW l \in Layers, NEW d \in Dirs[l], NEW i \in EntryIndices
  PROVE  update(d, i, d.entries[i]) = d
<1>1. [d.entries EXCEPT ![i] = d.entries[i]] = d.entries
  BY DirFacts
<1>2. update(d, i, d.entries[i]) =
        [entries |-> [d.entries EXCEPT ![i] = d.entries[i]], layer |-> l,
         base_vaddr |-> d.base_vaddr]
  BY DirFacts DEF update
<1> QED BY <1>1, <1>2, DirFacts

\* A mapping that is accepted, in terms of the sizes from l on.
LEMMA AcceptedFacts ==
  ASSUME NEW l \in Layers, NEW d \in Dirs[l], NEW base \in Nat, NEW pte \in PageTableEntry
  PROVE  dir_accepted_mapping(d, base, pte) <=>
           /\ aligned(base, pte.frame.size)
           /\ aligned(pte.frame.base, pte.frame.size)
           /\ d.base_vaddr <= base
           /\ base + pte.frame.size <= d.base_vaddr + NumEntries * EntrySize[l]
           /\ pte.frame.size \in SizesFrom(l)
BY DirFacts DEF dir_accepted_mapping, SizesFrom

\* The operators of results.
LEMMA PlacedFacts ==
  ASSUME NEW d, NEW i, NEW r, r = [tag |-> r.tag, dir |-> r.dir]
  PROVE  placed(r, d, i) = [tag |-> r.tag, dir |-> update(d, i, Directory(r.dir))]
<1> DEFINE t == r.tag
           x == r.dir
           e == update(d, i, Directory(x))
<1>1. r = [tag |-> t, dir |-> x]
  OBVIOUS
<1> HIDE DEF t, x, e
<1>2. [r EXCEPT !.dir = e] = [tag |-> t, dir |-> e]
  BY <1>1
<1> QED BY <1>2 DEF placed, e, t, x

\* map_frame returns what its contents call for, if it does so one layer below.
LEMMA MapFrameLayer ==
  ASSUME NEW l \in Layers, NEW d \in Dirs[l], inv(d),
         NEW base \in Nat, NEW pte \in PageTableEntry,
         dir_accepted_mapping(d, base, pte),
         l + 1 \in Layers => \A x \in Dirs[l + 1] :
           inv(x) /\ dir_accepted_mapping(x, base, pte) =>
             MapResult(l + 1, x, base, pte, map_frame(x, base, pte))
  PROVE  MapResult(l, d, base, pte, map_frame(d, base, pte))
<1> DEFINE i == IndexFor(d, base)
           e == d.entries[i]
           s == pte.frame.size
           E == EntrySize[l]
           b == entry_base(l, d.base_vaddr, i)
           fits == E = s
           m == EntryMap(d, i)
           below == map_frames(base, pte)[l + 1]
           r == map_frame(d, base, pte)
<1>1. /\ aligned(base, s) /\ aligned(pte.frame.base, s)
      /\ d.base_vaddr <= base /\ base + s <= d.base_vaddr + NumEntries * E
      /\ s \in SizesFrom(l)
  BY AcceptedFacts
<1>2. /\ s \in Nat \ {0} /\ E \in Nat \ {0} /\ d.base_vaddr \in Nat
      /\ i \in EntryIndices /\ b <= base /\ base + s <= b + E
      /\ (fits => base = b)
  BY <1>1, RegionInEntry, SizesFacts, SizeFacts, DirFacts
<1>3. b \in Nat /\ aligned(b, E) /\ (l # LastLayer => E = NumEntries * EntrySize[l + 1])
  BY <1>2, EntryFits
<1>4. valid_mapping(interp(d), base, pte) <=> valid_mapping(m, base, pte)
  BY <1>2, ValidInEntry
<1>5. r = map_frame_in(below, d, base, pte)
  BY MapFrameStep
<1>6. entry_size(d) = E
  BY DirFacts
<1>7. EntryPlaced(l, d, i)
  BY <1>2, EntriesPlaced
<1>8. CASE is_Page(e)
  <2>1. m = [x \in {b} |-> e.pte] /\ e.pte.frame.size = E
    BY <1>2, <1>8, EntryMapFacts, InvFacts DEF EntryInv
  <2>2. overlap(MemRegion(base, s), MemRegion(b, E))
    <3> HIDE DEF b, E, s
    <3> QED BY <1>2, <1>3 DEF overlap, MemRegion
  <2>3. ~valid_mapping(m, base, pte)
    BY <2>1, <2>2 DEF valid_mapping
  <2>4. r = ErrDir(d)
    <3>1. ~is_Empty(e) /\ ~is_Directory(e)
      BY <1>2, <1>8, EntryKinds
    <3> QED BY <1>5, <1>8, <3>1 DEF map_frame_in
  <2> QED BY <1>4, <2>3, <2>4 DEF MapResult, ErrDir
<1>9. CASE is_Directory(e) /\ fits
  <2>1. /\ m = interp(e.dir) /\ ~empty(e.dir) /\ inv(e.dir)
        /\ e.dir \in Dirs[l + 1] /\ l + 1 \in Layers
    BY <1>2, <1>9, DirectoryEntry
  <2>2. PICK y : y \in DOMAIN m
    BY <2>1, EmptyHoldsNothing
  <2>3. /\ y \in Nat /\ b <= y /\ y + m[y].frame.size <= b + E
        /\ m[y].frame.size \in Nat \ {0}
    BY <1>7, <2>2, SizesFacts DEF EntryPlaced, PlacedMap
  <2>4. overlap(MemRegion(base, s), MemRegion(y, m[y].frame.size))
    <3> HIDE DEF b, E, s, m
    <3> QED BY <1>2, <1>3, <1>9, <2>3 DEF overlap, MemRegion
  <2>5. ~valid_mapping(m, base, pte)
    BY <2>2, <2>4 DEF valid_mapping
  <2>6. r = ErrDir(d)
    <3>1. ~is_Empty(e) /\ ~is_Page(e)
      BY <1>2, <1>9, EntryKinds
    <3> QED BY <1>5, <1>6, <1>9, <3>1 DEF map_frame_in
  <2> QED BY <1>4, <2>5, <2>6 DEF MapResult, ErrDir
<1>10. CASE is_Empty(e) /\ fits
  <2> DEFINE f == Page(pte)
             n == update(d, i, f)
  <2>1. /\ f \in NodeEntries(Dirs[l + 1]) /\ f.pte = pte
        /\ is_Page(f) /\ ~is_Directory(f)
    BY DEF Page, NodeEntries, is_Page, is_Directory
  <2> HIDE DEF f
  <2>2. /\ n \in Dirs[l] /\ inv(n) /\ n.base_vaddr = d.base_vaddr /\ n.entries[i] = f
        /\ \A j \in EntryIndices \ {i} : EntryMap(n, j) = EntryMap(d, j)
    BY <1>1, <1>2, <1>10, <2>1, UpdateFacts
  <2>3. r = OkDir(n)
    <3>1. ~is_Directory(e) /\ ~is_Page(e)
      BY <1>2, <1>10, EntryKinds
    <3> QED BY <1>5, <1>6, <1>10, <3>1 DEF map_frame_in, f
  <2> HIDE DEF n
  <2>4. EntryMap(n, i) = [x \in {b} |-> pte]
    BY <1>2, <2>1, <2>2, EntryMapFacts
  <2>5. m = EmptyMap
    BY <1>2, <1>10, EntryMapFacts
  <2>6. map_insert(m, base, pte) = [x \in {b} |-> pte]
    BY <1>2, <1>10, <2>5 DEF map_insert, EmptyMap
  <2>7. interp(n) = map_insert(interp(d), base, pte)
    BY <1>2, <2>2, <2>4, <2>6, InsertInEntry
  <2>8. valid_mapping(m, base, pte)
    BY <2>5 DEF valid_mapping, EmptyMap
  <2> QED BY <1>4, <2>2, <2>3, <2>7, <2>8 DEF MapResult, OkDir
<1>11. ASSUME ~fits PROVE l # LastLayer /\ l + 1 \in Layers /\ s \in SizesFrom(l + 1)
  <2>1. l = LastLayer => SizesFrom(l) = {E}
    BY SizeFacts DEF SizesFrom, Layers
  <2> QED BY <1>1, <1>11, <2>1, SizesFacts, SizeFacts
<1>12. ASSUME ~fits, NEW x \in Dirs[l + 1], inv(x), x.base_vaddr = b, interp(x) = m
       PROVE  /\ MapResult(l + 1, x, base, pte, below[x])
              /\ valid_mapping(m, base, pte) =>
                   MapResult(l, d, base, pte, placed(below[x], d, i))
  <2> DEFINE q == below[x]
  <2>1. dir_accepted_mapping(x, base, pte)
    BY <1>1, <1>2, <1>3, <1>11, <1>12, AcceptedFacts
  <2>2. MapResult(l + 1, x, base, pte, q)
    BY <1>11, <1>12, <2>1, MapFrameStep
  <2> HIDE DEF q
  <2> DEFINE n == update(d, i, Directory(q.dir))
  <2>3. ASSUME valid_mapping(m, base, pte)
        PROVE  MapResult(l, d, base, pte, placed(q, d, i))
    <3>1. /\ q = [tag |-> q.tag, dir |-> q.dir]
          /\ q.dir \in Dirs[l + 1] /\ inv(q.dir) /\ q.dir.base_vaddr = b
          /\ q.tag = "Ok" /\ interp(q.dir) = map_insert(m, base, pte)
      BY <1>12, <2>2, <2>3 DEF MapResult
    <3>2. ~empty(q.dir)
      <4>1. base \in DOMAIN interp(q.dir)
        BY <3>1 DEF map_insert
      <4> QED BY <1>11, <1>12, <3>1, <4>1, EmptyHoldsNothing
    <3>3. /\ n \in Dirs[l] /\ inv(n) /\ n.base_vaddr = d.base_vaddr
          /\ EntryMap(n, i) = map_insert(m, base, pte)
          /\ \A j \in EntryIndices \ {i} : EntryMap(n, j) = EntryMap(d, j)
      BY <1>2, <1>11, <1>12, <3>1, <3>2, PlaceBelow
    <3>4. placed(q, d, i) = [tag |-> "Ok", dir |-> n]
      BY <3>1, PlacedFacts
    <3> HIDE DEF n
    <3>5. interp(n) = map_insert(interp(d), base, pte)
      BY <1>2, <3>3, InsertInEntry
    <3> QED BY <1>4, <2>3, <3>3, <3>4, <3>5 DEF MapResult
  <2> QED BY <2>2, <2>3 DEF q
<1>13. CASE is_Directory(e) /\ ~fits
  <2> DEFINE x == e.dir
  <2>1. /\ x \in Dirs[l + 1] /\ inv(x) /\ x.base_vaddr = b /\ interp(x) = m
        /\ e = Directory(x)
    BY <1>2, <1>13, DirectoryEntry
  <2>2. r = placed(below[x], d, i)
    <3>1. ~is_Empty(e) /\ ~is_Page(e)
      BY <1>2, <1>13, EntryKinds
    <3> QED BY <1>5, <1>6, <1>13, <3>1 DEF map_frame_in
  <2>3. CASE valid_mapping(m, base, pte)
    BY <1>12, <1>13, <2>1, <2>2, <2>3
  <2>4. CASE ~valid_mapping(m, base, pte)
    <3>1. MapResult(l + 1, x, base, pte, below[x])
      BY <1>12, <1>13, <2>1
    <3>2. below[x] = [tag |-> below[x].tag, dir |-> below[x].dir]
          /\ below[x].tag = "Err" /\ below[x].dir = x
      BY <2>1, <2>4, <3>1 DEF MapResult
    <3>3. r = [tag |-> "Err", dir |-> update(d, i, e)]
      BY <2>1, <2>2, <3>2, PlacedFacts
    <3>4. r = [tag |-> "Err", dir |-> d]
      BY <1>2, <3>3, UpdateSame
    <3> QED BY <1>4, <2>4, <3>4 DEF MapResult
  <2> QED BY <2>3, <2>4
<1>14. CASE is_Empty(e) /\ ~fits
  <2> DEFINE x == new_empty_dir(d, i)
  <2>1. x = EmptyDir(l + 1, b)
    BY DirFacts DEF new_empty_dir
  <2>2. m = EmptyMap
    BY <1>2, <1>14, EntryMapFacts
  <2>3. x \in Dirs[l + 1] /\ inv(x) /\ x.base_vaddr = b /\ interp(x) = m
    BY <1>3, <1>11, <1>14, <2>1, <2>2, EmptyDirFacts
  <2>4. valid_mapping(m, base, pte)
    BY <2>2 DEF valid_mapping, EmptyMap
  <2>5. r = placed(below[x], d, i)
    <3>1. ~is_Directory(e) /\ ~is_Page(e)
      BY <1>2, <1>14, EntryKinds
    <3> QED BY <1>5, <1>6, <1>14, <3>1 DEF map_frame_in
  <2> QED BY <1>12, <1>14, <2>3, <2>4, <2>5
<1>15. is_Empty(e) \/ is_Page(e) \/ is_Directory(e)
  BY <1>2, EntryKinds
<1> QED BY <1>8, <1>9, <1>10, <1>13, <1>14, <1>15

\* map_frame returns what the contents of the directory call for.
LEMMA MapFrameResult ==
  ASSUME NEW l \in Layers, NEW d \in Dirs[l], inv(d),
         NEW base \in Nat, NEW pte \in PageTableEntry,
         dir_accepted_mapping(d, base, pte)
  PROVE  MapResult(l, d, base, pte, map_frame(d, base, pte))
<1> DEFINE S == {k \in Levels : k \in Layers => \A x \in Dirs[k] :
                   inv(x) /\ dir_accepted_mapping(x, base, pte) =>
                     MapResult(k, x, base, pte, map_frame(x, base, pte))}
<1>1. LastLayer + 1 \in S
  BY LevelFacts
<1>2. ASSUME NEW k \in Layers, k + 1 \in S PROVE k \in S
  BY <1>2, LevelFacts, MapFrameLayer
<1>3. l \in S
  <2> HIDE DEF S
  <2> QED BY <1>1, <1>2, LayerInduction, LevelFacts
<1> QED BY <1>3

(***************************************************************************)
(* unmap.                                                                  *)
(***************************************************************************)

\* unmap works on one directory and calls itself on those below.
LEMMA UnmapStep ==
  ASSUME NEW l \in Layers, NEW d \in Dirs[l], NEW base
  PROVE  /\ unmap(d, base) = unmap_in(unmaps(base)[l + 1], d, base)
         /\ l + 1 \in Layers => \A x \in Dirs[l + 1] :
              unmaps(base)[l + 1][x] = unmap(x, base)
<1>1. unmaps(base)[l][d] = unmap_in(unmaps(base)[l + 1], d, base)
  BY Recursion
<1>2. unmap(d, base) = unmaps(base)[l][d]
  BY DirFacts DEF unmap
<1>3. ASSUME l + 1 \in Layers, NEW x \in Dirs[l + 1]
      PROVE  unmaps(base)[l + 1][x] = unmap(x, base)
  BY <1>3, DirFacts DEF unmap
<1> QED BY <1>1, <1>2, <1>3

\* The address belongs to one entry, and is mapped exactly if that maps it.
LEMMA AddressInEntry ==
  ASSUME NEW l \in Layers, NEW d \in Dirs[l], inv(d), NEW v \in Nat,
         between(v, d.base_vaddr, upper_vaddr(d))
  PROVE  LET i == IndexFor(d, v)
             b == entry_base(l, d.base_vaddr, i)
         IN  /\ i \in EntryIndices /\ b \in Nat
             /\ between(v, b, b + EntrySize[l])
             /\ v \in DOMAIN interp(d) <=> v \in DOMAIN EntryMap(d, i)
             /\ \A x \in Dirs[l + 1] :
                  l + 1 \in Layers /\ x.base_vaddr = b =>
                    between(v, x.base_vaddr, upper_vaddr(x))
<1> DEFINE i == IndexFor(d, v)
           b == entry_base(l, d.base_vaddr, i)
<1>1. i \in EntryIndices /\ between(v, b, b + EntrySize[l])
  BY IndexInSpan, DirFacts
<1>2. b \in Nat
  BY <1>1, EntryFits
<1>3. v \in DOMAIN interp(d) <=> v \in DOMAIN EntryMap(d, i)
  BY <1>1, InterpFacts
<1>4. ASSUME NEW x \in Dirs[l + 1], l + 1 \in Layers, x.base_vaddr = b
      PROVE  between(v, x.base_vaddr, upper_vaddr(x))
  <2>1. upper_vaddr(x) = b + NumEntries * EntrySize[l + 1]
    BY <1>4, DirFacts
  <2>2. EntrySize[l] = NumEntries * EntrySize[l + 1]
    BY <1>4, SizeFacts, LevelFacts
  <2> QED BY <1>1, <1>4, <2>1, <2>2
<1> QED BY <1>1, <1>2, <1>3, <1>4

\* An entry that is cleared maps nothing.
LEMMA ClearEntry ==
  ASSUME NEW l \in Layers, NEW d \in Dirs[l], inv(d), NEW i \in EntryIndices
  PROVE  LET n == update(d, i, Empty)
         IN  /\ n \in Dirs[l] /\ inv(n) /\ n.base_vaddr = d.base_vaddr
             /\ EntryMap(n, i) = EmptyMap
             /\ \A j \in EntryIndices \ {i} : EntryMap(n, j) = EntryMap(d, j)
<1> DEFINE n == update(d, i, Empty)
<1>1. /\ Empty \in NodeEntries(Dirs[l + 1])
      /\ is_Empty(Empty) /\ ~is_Page(Empty) /\ ~is_Directory(Empty)
  BY DEF Empty, NodeEntries, is_Empty, is_Page, is_Directory
<1>2. /\ n \in Dirs[l] /\ inv(n) /\ n.base_vaddr = d.base_vaddr /\ n.entries[i] = Empty
      /\ \A j \in EntryIndices \ {i} : EntryMap(n, j) = EntryMap(d, j)
  BY <1>1, UpdateFacts
<1> HIDE DEF n
<1>3. EntryMap(n, i) = EmptyMap
  BY <1>1, <1>2, EntryMapFacts
<1> QED BY <1>2, <1>3 DEF n

\* What a call of unmap on d is to return.
UnmapResult(l, d, base, r) ==
  /\ r = [tag |-> r.tag, dir |-> r.dir]
  /\ r.dir \in Dirs[l] /\ inv(r.dir) /\ r.dir.base_vaddr = d.base_vaddr
  /\ base \in DOMAIN interp(d) =>
       r.tag = "Ok" /\ interp(r.dir) = map_remove(interp(d), base)
  /\ base \notin DOMAIN interp(d) => r.tag = "Err" /\ r.dir = d

\* unmap returns what its contents call for, if it does so one layer below.
LEMMA UnmapLayer ==
  ASSUME NEW l \in Layers, NEW d \in Dirs[l], inv(d), NEW base \in Nat,
         between(base, d.base_vaddr, upper_vaddr(d)),
         l + 1 \in Layers => \A x \in Dirs[l + 1] :
           inv(x) /\ between(base, x.base_vaddr, upper_vaddr(x)) =>
             UnmapResult(l + 1, x, base, unmap(x, base))
  PROVE  UnmapResult(l, d, base, unmap(d, base))
<1> DEFINE i == IndexFor(d, base)
           e == d.entries[i]
           E == EntrySize[l]
           b == entry_base(l, d.base_vaddr, i)
           m == EntryMap(d, i)
           below == unmaps(base)[l + 1]
           r == unmap(d, base)
           n == update(d, i, Empty)
<1>1. /\ i \in EntryIndices /\ b \in Nat /\ between(base, b, b + E)
      /\ base \in DOMAIN interp(d) <=> base \in DOMAIN m
  BY AddressInEntry
<1>2. E \in Nat \ {0} /\ aligned(b, E)
  BY <1>1, EntryFits, SizeFacts
<1>3. r = unmap_in(below, d, base)
  BY UnmapStep
<1>4. entry_size(d) = E
  BY DirFacts
<1>5. /\ n \in Dirs[l] /\ inv(n) /\ n.base_vaddr = d.base_vaddr
      /\ EntryMap(n, i) = EmptyMap
      /\ \A j \in EntryIndices \ {i} : EntryMap(n, j) = EntryMap(d, j)
  BY <1>1, ClearEntry
<1>6. ASSUME base \in DOMAIN m, DOMAIN m \ {base} = {}, r = OkDir(n)
      PROVE  UnmapResult(l, d, base, r)
  <2> HIDE DEF n, m
  <2>1. map_remove(m, base) = EmptyMap
    BY <1>6 DEF map_remove, Restrict, EmptyMap
  <2>2. interp(n) = map_remove(interp(d), base)
    BY <1>1, <1>5, <1>6, <2>1, RemoveInEntry DEF m
  <2> QED BY <1>1, <1>5, <1>6, <2>2 DEF UnmapResult, OkDir
<1>7. ASSUME base \notin DOMAIN m, r = ErrDir(d)
      PROVE  UnmapResult(l, d, base, r)
  BY <1>1, <1>7 DEF UnmapResult, ErrDir
<1>8. CASE is_Page(e)
  <2>1. m = [x \in {b} |-> e.pte] /\ ~is_Empty(e) /\ ~is_Directory(e)
    BY <1>1, <1>8, EntryMapFacts, EntryKinds
  <2>2. CASE aligned(base, E)
    <3>1. base = b
      BY <1>1, <1>2, <2>2, AlignedInEntry
    <3>2. r = OkDir(n)
      BY <1>3, <1>4, <1>8, <2>1, <2>2 DEF unmap_in
    <3>3. DOMAIN m = {base}
      BY <2>1, <3>1
    <3> QED BY <1>6, <3>2, <3>3
  <2>3. CASE ~aligned(base, E)
    <3>1. base # b
      BY <1>2, <2>3
    <3>2. r = ErrDir(d)
      BY <1>3, <1>4, <1>8, <2>1, <2>3 DEF unmap_in
    <3>3. DOMAIN m = {b}
      BY <2>1
    <3> QED BY <1>7, <3>1, <3>2, <3>3
  <2> QED BY <2>2, <2>3
<1>9. CASE is_Empty(e)
  <2>1. m = EmptyMap /\ ~is_Page(e) /\ ~is_Directory(e)
    BY <1>1, <1>9, EntryMapFacts, EntryKinds
  <2>2. r = ErrDir(d)
    BY <1>3, <1>9, <2>1 DEF unmap_in
  <2>3. base \notin DOMAIN m
    BY <2>1 DEF EmptyMap
  <2> QED BY <1>7, <2>2, <2>3
<1>10. CASE is_Directory(e)
  <2> DEFINE x == e.dir
             q == below[x]
             p == update(d, i, Directory(q.dir))
  <2>1. /\ x \in Dirs[l + 1] /\ l + 1 \in Layers /\ inv(x) /\ x.base_vaddr = b
        /\ m = interp(x) /\ e = Directory(x)
    BY <1>1, <1>10, DirectoryEntry
  <2>2. UnmapResult(l + 1, x, base, q)
    <3>1. between(base, x.base_vaddr, upper_vaddr(x))
      BY <2>1, AddressInEntry
    <3> QED BY <2>1, <3>1, UnmapStep
  <2>3. r = IF q.tag = "Ok" /\ empty(q.dir) THEN OkDir(n) ELSE placed(q, d, i)
    <3>1. ~is_Empty(e) /\ ~is_Page(e)
      BY <1>1, <1>10, EntryKinds
    <3> QED BY <1>3, <1>10, <3>1 DEF unmap_in
  <2> HIDE DEF q
  <2>4. q = [tag |-> q.tag, dir |-> q.dir]
    BY <2>2 DEF UnmapResult
  <2>5. CASE base \in DOMAIN m
    <3>1. /\ q.dir \in Dirs[l + 1] /\ inv(q.dir) /\ q.dir.base_vaddr = b
          /\ q.tag = "Ok" /\ interp(q.dir) = map_remove(m, base)
      BY <2>1, <2>2, <2>5 DEF UnmapResult
    <3>2. empty(q.dir) <=> DOMAIN interp(q.dir) = {}
      BY <2>1, <3>1, EmptyHoldsNothing
    <3>3. CASE empty(q.dir)
      <4> HIDE DEF m
      <4>1. DOMAIN m \ {base} = {}
        BY <3>1, <3>2, <3>3, RemoveFacts
      <4> QED BY <1>6, <2>3, <2>5, <3>1, <3>3, <4>1
    <3>4. CASE ~empty(q.dir)
      <4>1. /\ p \in Dirs[l] /\ inv(p) /\ p.base_vaddr = d.base_vaddr
            /\ EntryMap(p, i) = map_remove(m, base)
            /\ \A j \in EntryIndices \ {i} : EntryMap(p, j) = EntryMap(d, j)
        BY <1>1, <2>1, <3>1, <3>4, PlaceBelow
      <4>2. r = [tag |-> "Ok", dir |-> p]
        BY <2>3, <2>4, <3>1, <3>4, PlacedFacts
      <4> HIDE DEF p
      <4>3. interp(p) = map_remove(interp(d), base)
        BY <1>1, <2>5, <4>1, RemoveInEntry
      <4> QED BY <1>1, <2>5, <4>1, <4>2, <4>3 DEF UnmapResult
    <3> QED BY <3>3, <3>4
  <2>6. CASE base \notin DOMAIN m
    <3>1. q.tag = "Err" /\ q.dir = x
      BY <2>1, <2>2, <2>6 DEF UnmapResult
    <3>2. r = [tag |-> "Err", dir |-> update(d, i, e)]
      BY <2>1, <2>3, <2>4, <3>1, PlacedFacts
    <3>3. r = ErrDir(d)
      BY <1>1, <3>2, UpdateSame DEF ErrDir
    <3> QED BY <1>7, <2>6, <3>3
  <2> QED BY <2>5, <2>6
<1>11. is_Empty(e) \/ is_Page(e) \/ is_Directory(e)
  BY <1>1, EntryKinds
<1> QED BY <1>8, <1>9, <1>10, <1>11

\* unmap returns what the contents of the directory call for.
LEMMA UnmapReturns ==
  ASSUME NEW l \in Layers, NEW d \in Dirs[l], inv(d), NEW base \in Nat,
         between(base, d.base_vaddr, upper_vaddr(d))
  PROVE  UnmapResult(l, d, base, unmap(d, base))
<1> DEFINE S == {k \in Levels : k \in Layers => \A x \in Dirs[k] :
                   inv(x) /\ between(base, x.base_vaddr, upper_vaddr(x)) =>
                     UnmapResult(k, x, base, unmap(x, base))}
<1>1. LastLayer + 1 \in S
  BY LevelFacts
<1>2. ASSUME NEW k \in Layers, k + 1 \in S PROVE k \in S
  BY <1>2, LevelFacts, UnmapLayer
<1>3. l \in S
  <2> HIDE DEF S
  <2> QED BY <1>1, <1>2, LayerInduction, LevelFacts
<1> QED BY <1>3

(***************************************************************************)
(* resolve.                                                                *)
(***************************************************************************)

\* resolve works on one directory and calls itself on those below.
LEMMA ResolveStep ==
  ASSUME NEW l \in Layers, NEW d \in Dirs[l], NEW v
  PROVE  /\ resolve(d, v) = resolve_in(resolves(v)[l + 1], d, v)
         /\ l + 1 \in Layers => \A x \in Dirs[l + 1] :
              resolves(v)[l + 1][x] = resolve(x, v)
<1>1. resolves(v)[l][d] = resolve_in(resolves(v)[l + 1], d, v)
  BY Recursion
<1>2. resolve(d, v) = resolves(v)[l][d]
  BY DirFacts DEF resolve
<1>3. ASSUME l + 1 \in Layers, NEW x \in Dirs[l + 1]
      PROVE  resolves(v)[l + 1][x] = resolve(x, v)
  BY <1>3, DirFacts DEF resolve
<1> QED BY <1>1, <1>2, <1>3

\* Only the entry that spans the address can map it.
LEMMA ResolveInEntry ==
  ASSUME NEW l \in Layers, NEW d \in Dirs[l], inv(d), NEW v \in Nat,
         between(v, d.base_vaddr, upper_vaddr(d))
  PROVE  contents_resolve(interp(d), v) = contents_resolve(EntryMap(d, IndexFor(d, v)), v)
<1> DEFINE i == IndexFor(d, v)
           m == EntryMap(d, i)
           A == {x \in DOMAIN interp(d) : Covers(interp(d), x, v)}
           B == {x \in DOMAIN m : Covers(m, x, v)}
<1>1. i \in EntryIndices
  BY AddressInEntry
<1>2. ASSUME NEW x \in A PROVE x \in B /\ interp(d)[x] = m[x]
  <2> DEFINE j == IndexFor(d, x)
             o == EntryMap(d, j)
             b == entry_base(l, d.base_vaddr, j)
  <2>1. j \in EntryIndices /\ x \in DOMAIN o /\ interp(d)[x] = o[x]
    BY InterpFacts
  <2>2. x \in Nat /\ b <= x /\ x + o[x].frame.size <= b + EntrySize[l] /\ o[x].frame.size \in Nat
    BY <2>1, EntriesPlaced, SizesFacts DEF EntryPlaced, PlacedMap
  <2>3. x <= v /\ v < x + o[x].frame.size
    BY <2>1 DEF Covers, between
  <2>4. b \in Nat /\ EntrySize[l] \in Nat
    BY <2>1, EntryFits, SizeFacts
  <2>5. between(v, b, b + EntrySize[l])
    <3> HIDE DEF b, o
    <3> QED BY <2>2, <2>3, <2>4 DEF between
  <2>6. j = i
    BY <2>1, <2>5, IndexOfEntry, DirFacts
  <2> QED BY <2>1, <2>6 DEF Covers
<1>3. ASSUME NEW x \in B PROVE x \in A
  BY <1>1, InterpFacts DEF Covers
<1> HIDE DEF m
<1>4. A = B /\ \A x \in B : interp(d)[x] = m[x]
  BY <1>2, <1>3
<1>5. /\ contents_resolve(interp(d), v) = {<<x, interp(d)[x]>> : x \in A}
      /\ contents_resolve(m, v) = {<<x, m[x]>> : x \in B}
  BY DEF contents_resolve
<1> HIDE DEF A, B
<1> QED BY <1>4, <1>5 DEF m

\* resolve returns what its contents call for, if it does so one layer below.
LEMMA ResolveLayer ==
  ASSUME NEW l \in Layers, NEW d \in Dirs[l], inv(d), NEW v \in Nat,
         between(v, d.base_vaddr, upper_vaddr(d)),
         l + 1 \in Layers => \A x \in Dirs[l + 1] :
           inv(x) /\ between(v, x.base_vaddr, upper_vaddr(x)) =>
             resolve(x, v) = contents_resolve(interp(x), v)
  PROVE  resolve(d, v) = contents_resolve(interp(d), v)
<1> DEFINE i == IndexFor(d, v)
           e == d.entries[i]
           b == entry_base(l, d.base_vaddr, i)
           m == EntryMap(d, i)
           below == resolves(v)[l + 1]
<1>1. i \in EntryIndices /\ b \in Nat /\ between(v, b, b + EntrySize[l])
  BY AddressInEntry
<1>2. contents_resolve(interp(d), v) = contents_resolve(m, v)
  BY ResolveInEntry
<1>3. resolve(d, v) = resolve_in(below, d, v)
  BY ResolveStep
<1>4. CASE is_Page(e)
  <2>1. m = [x \in {b} |-> e.pte] /\ ~is_Empty(e) /\ ~is_Directory(e)
    BY <1>1, <1>4, EntryMapFacts, EntryKinds
  <2>2. e.pte.frame.size = EntrySize[l]
    BY <1>1, <1>4, InvFacts DEF EntryInv
  <2>3. resolve_in(below, d, v) = {<<b, e.pte>>}
    BY <1>4, <2>1, DirFacts DEF resolve_in
  <2>4. {x \in DOMAIN m : Covers(m, x, v)} = {b} /\ m[b] = e.pte
    BY <1>1, <2>1, <2>2 DEF Covers
  <2> HIDE DEF m, b, e
  <2>5. contents_resolve(m, v) = {<<b, e.pte>>}
    BY <2>4 DEF contents_resolve
  <2> QED BY <1>2, <1>3, <2>3, <2>5
<1>5. CASE is_Empty(e)
  <2>1. m = EmptyMap /\ ~is_Page(e) /\ ~is_Directory(e)
    BY <1>1, <1>5, EntryMapFacts, EntryKinds
  <2>2. resolve_in(below, d, v) = {}
    BY <1>5, <2>1 DEF resolve_in
  <2>3. contents_resolve(m, v) = {}
    BY <2>1 DEF contents_resolve, EmptyMap
  <2> QED BY <1>2, <1>3, <2>2, <2>3
<1>6. CASE is_Directory(e)
  <2>1. /\ e.dir \in Dirs[l + 1] /\ l + 1 \in Layers /\ inv(e.dir)
        /\ e.dir.base_vaddr = b /\ m = interp(e.dir)
    BY <1>1, <1>6, DirectoryEntry
  <2>2. between(v, e.dir.base_vaddr, upper_vaddr(e.dir))
    BY <2>1, AddressInEntry
  <2>3. below[e.dir] = contents_resolve(m, v)
    BY <2>1, <2>2, ResolveStep
  <2>4. resolve_in(below, d, v) = below[e.dir]
    <3>1. ~is_Empty(e) /\ ~is_Page(e)
      BY <1>1, <1>6, EntryKinds
    <3> QED BY <1>6, <3>1 DEF resolve_in
  <2> QED BY <1>2, <1>3, <2>3, <2>4
<1>7. is_Empty(e) \/ is_Page(e) \/ is_Directory(e)
  BY <1>1, EntryKinds
<1> QED BY <1>4, <1>5, <1>6, <1>7

\* resolve returns what the contents of the directory call for.
LEMMA ResolveReturns ==
  ASSUME NEW l \in Layers, NEW d \in Dirs[l], inv(d), NEW v \in Nat,
         between(v, d.base_vaddr, upper_vaddr(d))
  PROVE  resolve(d, v) = contents_resolve(interp(d), v)
<1> DEFINE S == {k \in Levels : k \in Layers => \A x \in Dirs[k] :
                   inv(x) /\ between(v, x.base_vaddr, upper_vaddr(x)) =>
                     resolve(x, v) = contents_resolve(interp(x), v)}
<1>1. LastLayer + 1 \in S
  BY LevelFacts
<1>2. ASSUME NEW k \in Layers, k + 1 \in S PROVE k \in S
  BY <1>2, LevelFacts, ResolveLayer
<1>3. l \in S
  <2> HIDE DEF S
  <2> QED BY <1>1, <1>2, LayerInduction, LevelFacts
<1> QED BY <1>3

(***************************************************************************)
(* The tree its contents call for.                                         *)
(***************************************************************************)

\* Pages below a layer are smaller than its entries.
LEMMA SmallerBelow ==
  ASSUME NumEntries > 1, NEW l \in Layers, l + 1 \in Layers, NEW s \in SizesFrom(l + 1)
  PROVE  s # EntrySize[l]
<1> DEFINE E == EntrySize[l + 1]
<1>1. E \in Nat \ {0} /\ s \in Nat \ {0} /\ EntrySize[l] = NumEntries * E /\ NumEntries \in Nat
  BY SizeFacts, SizesFacts, LevelFacts
<1>2. PICK q \in Nat \ {0} : E = q * s
  BY SizeDivides
<1> HIDE DEF E
<1>3. 1 * s <= q * s
  BY <1>1, <1>2, Monotone
<1>4. 2 * E <= NumEntries * E
  BY <1>1, Monotone
<1> QED BY <1>1, <1>2, <1>3, <1>4

\* m maps within the span of d what d maps.
Agree(d, m) ==
  \A x \in Nat : between(x, d.base_vaddr, upper_vaddr(d)) =>
    /\ x \in DOMAIN m <=> x \in DOMAIN interp(d)
    /\ x \in DOMAIN m => m[x] = interp(d)[x]

\* A directory is the one its contents call for, if those below it are.
LEMMA CanonicalLayer ==
  ASSUME NumEntries > 1, NEW l \in Layers, NEW d \in Dirs[l], inv(d),
         NEW m, DOMAIN m \subseteq Nat, Agree(d, m),
         l + 1 \in Layers => \A x \in Dirs[l + 1] :
           inv(x) /\ Agree(x, m) => canonicals(m)[l + 1][x.base_vaddr] = x
  PROVE  canonicals(m)[l][d.base_vaddr] = d
<1> DEFINE B == d.base_vaddr
           E == EntrySize[l]
           below == canonicals(m)[l + 1]
           base(i) == entry_base(l, B, i)
           inside(i) == {x \in DOMAIN m : between(x, base(i), base(i) + E)}
           ent(i) == IF inside(i) = {} THEN Empty
                     ELSE IF base(i) \in inside(i) /\ m[base(i)].frame.size = E
                          THEN Page(m[base(i)])
                          ELSE Directory(below[base(i)])
<1>1. canonicals(m)[l][B] =
        [entries |-> [i \in EntryIndices |-> ent(i)], layer |-> l, base_vaddr |-> B]
  <2>1. canonicals(m)[l][B] = canonical_in(below, m, l, B)
    BY Recursion, DirFacts
  <2> QED BY <2>1 DEF canonical_in
<1>2. ASSUME NEW i \in EntryIndices
      PROVE  /\ inside(i) = DOMAIN EntryMap(d, i)
             /\ \A x \in DOMAIN EntryMap(d, i) : m[x] = EntryMap(d, i)[x]
  <2>1. /\ base(i) \in Nat /\ B <= base(i) /\ E \in Nat \ {0} /\ B \in Nat
        /\ base(i) + E <= B + NumEntries * E /\ NumEntries * E \in Nat
        /\ upper_vaddr(d) = B + NumEntries * E
    BY EntryFits, SizeFacts, DirFacts
  <2>2. ASSUME NEW x \in DOMAIN EntryMap(d, i)
        PROVE  x \in inside(i) /\ m[x] = EntryMap(d, i)[x]
    <3>1. /\ x \in Nat /\ base(i) <= x /\ x + EntryMap(d, i)[x].frame.size <= base(i) + E
          /\ EntryMap(d, i)[x].frame.size \in Nat \ {0}
      BY <2>2, EntriesPlaced, SizesFacts DEF EntryPlaced, PlacedMap
    <3>2. between(x, base(i), base(i) + E) /\ between(x, B, upper_vaddr(d))
      <4> HIDE DEF base, B, E
      <4> QED BY <2>1, <3>1 DEF between
    <3>3. x \in DOMAIN interp(d) /\ interp(d)[x] = EntryMap(d, i)[x]
      BY <2>2, InterpFacts
    <3> QED BY <3>1, <3>2, <3>3 DEF Agree
  <2>3. ASSUME NEW x \in inside(i) PROVE x \in DOMAIN EntryMap(d, i)
    <3>1. x \in Nat /\ between(x, base(i), base(i) + E)
      OBVIOUS
    <3>2. between(x, B, upper_vaddr(d))
      <4> HIDE DEF base, B, E
      <4> QED BY <2>1, <3>1 DEF between
    <3>3. x \in DOMAIN interp(d)
      BY <3>1, <3>2 DEF Agree
    <3>4. IndexFor(d, x) = i
      BY <3>1, IndexOfEntry, DirFacts
    <3> QED BY <3>3, <3>4, InterpFacts
  <2> QED BY <2>2, <2>3
<1>3. ASSUME NEW i \in EntryIndices PROVE ent(i) = d.entries[i]
  <2> DEFINE e == d.entries[i]
             o == EntryMap(d, i)
  <2>1. inside(i) = DOMAIN o /\ \A x \in DOMAIN o : m[x] = o[x]
    BY <1>2
  <2>2. CASE is_Empty(e)
    <3>1. DOMAIN o = {}
      <4>1. o = EmptyMap
        BY <2>2, EntryMapFacts
      <4> QED BY <4>1 DEF EmptyMap
    <3>2. e = Empty
      BY <2>2, EntryKinds
    <3> QED BY <2>1, <3>1, <3>2
  <2>3. CASE is_Page(e)
    <3>1. o = [x \in {base(i)} |-> e.pte] /\ e = Page(e.pte)
      BY <2>3, EntryMapFacts, EntryKinds
    <3>2. e.pte.frame.size = E
      BY <2>3, InvFacts DEF EntryInv
    <3>3. DOMAIN o = {base(i)} /\ o[base(i)] = e.pte
      BY <3>1
    <3> HIDE DEF base, o, inside, E
    <3> QED BY <2>1, <3>1, <3>2, <3>3
  <2>4. CASE is_Directory(e)
    <3> DEFINE x == e.dir
    <3>1. /\ x \in Dirs[l + 1] /\ l + 1 \in Layers /\ inv(x) /\ ~empty(x)
          /\ x.base_vaddr = base(i) /\ o = interp(x) /\ e = Directory(x)
      BY <2>4, DirectoryEntry
    <3>2. inside(i) # {}
      BY <2>1, <3>1, EmptyHoldsNothing
    <3>3. ASSUME base(i) \in inside(i) PROVE m[base(i)].frame.size # E
      <4>1. base(i) \in DOMAIN o /\ m[base(i)] = o[base(i)]
        BY <2>1, <3>3
      <4>2. o[base(i)].frame.size \in SizesFrom(l + 1)
        BY <3>1, <4>1, InterpFacts DEF PlacedMap
      <4> QED BY <3>1, <4>1, <4>2, SmallerBelow
    <3>4. Agree(x, m)
      <4>1. upper_vaddr(x) = base(i) + E
        BY <3>1, DirFacts, SizeFacts, LevelFacts
      <4> QED BY <2>1, <3>1, <4>1 DEF Agree
    <3>5. below[base(i)] = x
      BY <3>1, <3>4
    <3> HIDE DEF x, base, inside, below
    <3> QED BY <3>1, <3>2, <3>3, <3>5
  <2> QED BY <2>2, <2>3, <2>4, EntryKinds
<1>4. d.entries = [i \in EntryIndices |-> d.entries[i]]
  BY DirFacts
<1> HIDE DEF ent
<1>5. [i \in EntryIndices |-> ent(i)] = d.entries
  BY <1>3, <1>4
<1> QED BY <1>1, <1>5, DirFacts

\* A directory is the one its contents call for.
LEMMA CanonicalDirectory ==
  ASSUME NumEntries > 1, NEW l \in Layers, NEW d \in Dirs[l], inv(d),
         NEW m, DOMAIN m \subseteq Nat, Agree(d, m)
  PROVE  canonicals(m)[l][d.base_vaddr] = d
<1> DEFINE S == {k \in Levels : k \in Layers => \A x \in Dirs[k] :
                   inv(x) /\ Agree(x, m) => canonicals(m)[k][x.base_vaddr] = x}
<1>1. LastLayer + 1 \in S
  BY LevelFacts
<1>2. ASSUME NEW k \in Layers, k + 1 \in S PROVE k \in S
  BY <1>2, LevelFacts, CanonicalLayer
<1>3. l \in S
  <2> HIDE DEF S
  <2> QED BY <1>1, <1>2, LayerInduction, LevelFacts
<1> QED BY <1>3

(***************************************************************************)
(* The theorems.                                                           *)
(***************************************************************************)

\* What the operations keep says of dir that it is a directory of layer 0.
LEMMA RootFacts ==
  ASSUME DirectoryInv
  PROVE  /\ 0 \in Layers /\ dir \in Dirs[0] /\ inv(dir) /\ dir.base_vaddr = 0
         /\ upper_vaddr(dir) = UpperVaddr
BY SizeFacts, DirFacts DEF DirectoryInv

\* Every directory a sequence of maps and unmaps builds is one layer below its
\* parent, at the address of its entry and not empty, and every page fits its
\* entry (lemma_map_frame_preserves_inv, lemma_unmap_preserves_inv).
THEOREM DirectoriesCorrect == TreeSpec => []DirectoryInv
<1>1. TreeInit => DirectoryInv
  <2> SUFFICES ASSUME TreeInit PROVE DirectoryInv
    OBVIOUS
  <2>1. 0 \in Layers /\ aligned(0, NumEntries * EntrySize[0])
    <3>1. NumEntries * EntrySize[0] \in Nat \ {0} /\ 0 \in Layers
      BY SizeFacts
    <3>2. 0 = 0 * (NumEntries * EntrySize[0])
      BY <3>1
    <3> QED BY <3>1, <3>2, AlignedIsMultiple
  <2> QED BY <2>1, EmptyDirFacts DEF TreeInit, DirectoryInv
<1>2. DirectoryInv /\ [TreeNext]_dir => DirectoryInv'
  <2> SUFFICES ASSUME DirectoryInv, [TreeNext]_dir PROVE DirectoryInv'
    OBVIOUS
  <2>1. /\ 0 \in Layers /\ dir \in Dirs[0] /\ inv(dir) /\ dir.base_vaddr = 0
    BY RootFacts
  <2>2. ASSUME NEW base \in VAddrs, NEW pte \in PTEs, MapFrame(base, pte)
        PROVE  DirectoryInv'
    <3>1. base \in Nat /\ pte \in PageTableEntry
      BY InputsAssumption
    <3>2. MapResult(0, dir, base, pte, map_frame(dir, base, pte))
      BY <2>1, <2>2, <3>1, MapFrameResult DEF MapFrame
    <3>3. dir' \in Dirs[0] /\ inv(dir') /\ dir'.base_vaddr = 0
      BY <2>1, <2>2, <3>2 DEF MapFrame, MapResult
    <3> QED BY <3>3 DEF DirectoryInv, inv
  <2>3. ASSUME NEW base \in VAddrs, Unmap(base)
        PROVE  DirectoryInv'
    <3>1. base \in Nat
      BY InputsAssumption
    <3>2. UnmapResult(0, dir, base, unmap(dir, base))
      BY <2>1, <2>3, <3>1, UnmapReturns DEF Unmap, accepted_unmap
    <3>3. dir' \in Dirs[0] /\ inv(dir') /\ dir'.base_vaddr = 0
      BY <2>1, <2>3, <3>2 DEF Unmap, UnmapResult
    <3> QED BY <3>3 DEF DirectoryInv, inv
  <2>4. CASE UNCHANGED dir
    BY <2>4 DEF DirectoryInv, inv
  <2> QED BY <2>2, <2>3, <2>4 DEF TreeNext
<1> QED BY <1>1, <1>2, PTL DEF TreeSpec

\* map_frame on a tree gives the result and the contents that map_frame on its
\* contents gives, and a failing one leaves the tree as it was
\* (lemma_map_frame_refines_map_frame, and lemma_map_frame_empty_is_ok, whose
\* proof the source leaves out).
THEOREM MapFrameIsContents == TreeSpec => []MapFrameRefinesContents
<1>1. DirectoryInv => MapFrameRefinesContents
  <2> SUFFICES ASSUME DirectoryInv, NEW base \in VAddrs, NEW pte \in PTEs,
                      dir_accepted_mapping(dir, base, pte)
               PROVE  LET r == map_frame(dir, base, pte)
                      IN /\ interp_result(r) = contents_map_frame(interp(dir), base, pte)
                         /\ r.tag = "Err" => r.dir = dir
    BY DEF MapFrameRefinesContents
  <2> DEFINE r == map_frame(dir, base, pte)
  <2>1. MapResult(0, dir, base, pte, r)
    BY RootFacts, InputsAssumption, MapFrameResult
  <2> HIDE DEF r
  <2>2. interp_result(r) = contents_map_frame(interp(dir), base, pte)
    <3>1. CASE valid_mapping(interp(dir), base, pte)
      BY <2>1, <3>1 DEF MapResult, interp_result, contents_map_frame, OkMap
    <3>2. CASE ~valid_mapping(interp(dir), base, pte)
      BY <2>1, <3>2 DEF MapResult, interp_result, contents_map_frame, ErrMap
    <3> QED BY <3>1, <3>2
  <2>3. r.tag = "Err" => r.dir = dir
    BY <2>1 DEF MapResult
  <2> QED BY <2>2, <2>3 DEF r
<1> QED BY <1>1, DirectoriesCorrect, PTL

\* unmap on a tree gives the result and the contents that unmap on its contents
\* gives, and a failing one leaves the tree as it was
\* (lemma_unmap_refines_unmap).
THEOREM UnmapIsContents == TreeSpec => []UnmapRefinesContents
<1>1. DirectoryInv => UnmapRefinesContents
  <2> SUFFICES ASSUME DirectoryInv, NEW base \in VAddrs, accepted_unmap(dir, base)
               PROVE  LET r == unmap(dir, base)
                      IN /\ interp_result(r) = contents_unmap(interp(dir), base)
                         /\ r.tag = "Err" => r.dir = dir
    BY DEF UnmapRefinesContents
  <2> DEFINE r == unmap(dir, base)
  <2>1. UnmapResult(0, dir, base, r)
    BY RootFacts, InputsAssumption, UnmapReturns DEF accepted_unmap
  <2> HIDE DEF r
  <2>2. interp_result(r) = contents_unmap(interp(dir), base)
    <3>1. CASE base \in DOMAIN interp(dir)
      BY <2>1, <3>1 DEF UnmapResult, interp_result, contents_unmap, OkMap
    <3>2. CASE base \notin DOMAIN interp(dir)
      BY <2>1, <3>2 DEF UnmapResult, interp_result, contents_unmap, ErrMap
    <3> QED BY <3>1, <3>2
  <2>3. r.tag = "Err" => r.dir = dir
    BY <2>1 DEF UnmapResult
  <2> QED BY <2>2, <2>3 DEF r
<1> QED BY <1>1, DirectoriesCorrect, PTL

\* resolve on a tree finds exactly the mapping of its contents that covers the
\* address (lemma_resolve_refines).
THEOREM ResolveIsContents == TreeSpec => []ResolveRefinesContents
<1>1. DirectoryInv => ResolveRefinesContents
  <2> SUFFICES ASSUME DirectoryInv, NEW vaddr \in VAddrs, between(vaddr, 0, UpperVaddr)
               PROVE  resolve(dir, vaddr) = contents_resolve(interp(dir), vaddr)
    BY DEF ResolveRefinesContents
  <2> QED BY RootFacts, InputsAssumption, ResolveReturns
<1> QED BY <1>1, DirectoriesCorrect, PTL

\* The tree is the one its mappings call for, whatever was mapped and unmapped
\* on the way.  With a single entry in every directory all layers have the
\* same size, and what a tree is called for is not determined.
THEOREM TreeIsCanonical ==
  ASSUME NumEntries > 1 PROVE TreeSpec => []TreeHoldsNoHistory
<1>1. DirectoryInv => TreeHoldsNoHistory
  <2> SUFFICES ASSUME DirectoryInv PROVE dir = canonicals(interp(dir))[0][0]
    BY DEF TreeHoldsNoHistory
  <2>1. DOMAIN interp(dir) \subseteq Nat
    BY RootFacts, InterpFacts DEF PlacedMap
  <2>2. Agree(dir, interp(dir))
    BY DEF Agree
  <2> QED BY <2>1, <2>2, RootFacts, CanonicalDirectory
<1> QED BY <1>1, DirectoriesCorrect, PTL
(***************************************************************************)
(* The flat contents, as PageTableSpec changes them.                       *)
(***************************************************************************)

\* What step_Map demands is more than what l0.rs accepts.
LEMMA EnabledIsAccepted ==
  ASSUME NEW m, NEW vaddr \in Nat, NEW pte \in PageTableEntry,
         step_Map_enabled(m, vaddr, pte)
  PROVE  accepted_mapping(vaddr, pte) /\ pte.frame.size \in PageSizes
<1>1. vaddr + pte.frame.size <= UpperVaddr
  BY GeometryFacts, EntryFacts DEF step_Map_enabled, candidate_mapping_in_bounds
<1>2. pte.frame.size \in PageSizes
  BY DEF step_Map_enabled
<1>3. \E l \in Layers : pte.frame.size = EntrySize[l]
  BY <1>2 DEF PageSizes
<1> QED BY <1>1, <1>2, <1>3 DEF step_Map_enabled, accepted_mapping

\* One step of the page table specification keeps its contents well formed.
LEMMA StepPreservesContents ==
  ASSUME ContentsInv(map), [Next]_vars
  PROVE  ContentsInv(map)'
<1>1. CASE UNCHANGED vars
  BY <1>1 DEF vars
<1>2. CASE Next
  <2> PICK vaddr \in VAddrs : \/ \E pte \in PTEs : step_Map(vaddr, pte)
                             \/ step_Unmap(vaddr)
                             \/ step_Resolve(vaddr)
    BY <1>2 DEF Next
  <2>1. vaddr \in Nat
    BY InputsAssumption
  <2>2. CASE \E pte \in PTEs : step_Map(vaddr, pte)
    <3> PICK pte \in PTEs : step_Map(vaddr, pte)
      BY <2>2
    <3>1. pte \in PageTableEntry
      BY InputsAssumption
    <3>2. CASE candidate_mapping_overlaps_existing_vmem(map, vaddr, pte)
      BY <3>2 DEF step_Map
    <3>3. CASE ~candidate_mapping_overlaps_existing_vmem(map, vaddr, pte)
      <4>1. map' = map_insert(map, vaddr, pte) /\ step_Map_enabled(map, vaddr, pte)
        BY <3>3 DEF step_Map
      <4>2. ContentsInv(map_insert(map, vaddr, pte))
        BY <2>1, <3>1, <3>3, <4>1, EnabledIsAccepted, MapFramePreservesContents
           DEF step_Map_enabled, valid_mapping,
               candidate_mapping_overlaps_existing_vmem
      <4> QED BY <4>1, <4>2
    <3> QED BY <3>2, <3>3
  <2>3. CASE step_Unmap(vaddr)
    <3>1. map' = map_remove(map, vaddr) \/ map' = map
      BY <2>3 DEF step_Unmap
    <3> QED BY <3>1, UnmapPreservesContents
  <2>4. CASE step_Resolve(vaddr)
    BY <2>4 DEF step_Resolve
  <2> QED BY <2>2, <2>3, <2>4
<1> QED BY <1>1, <1>2

\* The contents of the page table stay well formed whatever is mapped and
\* unmapped: in particular no two mappings overlap.
THEOREM PageTableInvariant == Spec => []PageTableInv
<1>1. Init => PageTableInv
  BY EmptyContents DEF Init, PageTableInv
<1>2. PageTableInv /\ [Next]_vars => PageTableInv'
  BY StepPreservesContents DEF PageTableInv
<1> QED BY <1>1, <1>2, PTL DEF Spec

\* Every address is translated in at most one way.
THEOREM TranslationUniqueness == Spec => []TranslationIsUnique
<1>1. PageTableInv => TranslationIsUnique
  <2> SUFFICES ASSUME ContentsInv(map), NEW vaddr \in VAddrs,
                      NEW b1 \in DOMAIN map, NEW b2 \in DOMAIN map,
                      Covers(map, b1, vaddr), Covers(map, b2, vaddr)
               PROVE  b1 = b2
    BY DEF PageTableInv, TranslationIsUnique
  <2>1. vaddr \in Nat
    BY InputsAssumption
  <2> QED BY <2>1, ContentsTranslateOnce
<1> QED BY <1>1, PageTableInvariant, PTL
=============================================================================
