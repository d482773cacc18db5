---------------------------- MODULE DirectoryTree ----------------------------
(***************************************************************************)
(* The page table as a tree of directories (impl_u/l1.rs), the level       *)
(* between the directories in memory (l2_impl.rs) and the flat contents    *)
(* (l0.rs).  Its operations are pure functions of the tree; the state      *)
(* machine applies them to one root directory, in any order, so that every *)
(* tree they can build is compared with the flat contents.                 *)
(***************************************************************************)
EXTENDS PageTableInputs

VARIABLE dir    \* the root directory

(***************************************************************************)
(* Directories and their entries.  What the source defines by recursion on *)
(* directories is a recursive function of the layer here, whose value at a *)
(* layer is a function of the directories of that layer; an operator that  *)
(* says what happens in one directory takes that of the next layer as the  *)
(* parameter below.  There are no directories below the last layer.        *)
(***************************************************************************)
Levels == 0 .. LastLayer + 1

Empty        == [tag |-> "Empty"]
Page(pte)    == [tag |-> "Page", pte |-> pte]
Directory(d) == [tag |-> "Directory", dir |-> d]

is_Empty(e)     == e.tag = "Empty"
is_Page(e)      == e.tag = "Page"
is_Directory(e) == e.tag = "Directory"

NodeEntries(subs) ==
  {Empty} \cup [tag : {"Page"}, pte : PageTableEntry]
          \cup [tag : {"Directory"}, dir : subs]

Dirs[l \in Levels] ==
  IF l \notin Layers THEN {}
  ELSE [entries : [EntryIndices -> NodeEntries(Dirs[l + 1])],
        layer : {l}, base_vaddr : Nat]

entry_size(d) == EntrySize[d.layer]

EntryBase(d, idx) == entry_base(d.layer, d.base_vaddr, idx)

upper_vaddr(d) == EntryBase(d, NumEntries)

IndexFor(d, vaddr) == index_for_vaddr(d.layer, d.base_vaddr, vaddr)

empty(d) == \A i \in EntryIndices : is_Empty(d.entries[i])

update(d, idx, e) == [d EXCEPT !.entries[idx] = e]

EmptyDir(layer, base) ==
  [entries |-> [i \in EntryIndices |-> Empty], layer |-> layer,
   base_vaddr |-> base]

new_empty_dir(d, idx) == EmptyDir(d.layer + 1, EntryBase(d, idx))

(***************************************************************************)
(* Interpretation as flat contents: the union of what the entries map, the *)
(* first entry preferred.                                                  *)
(***************************************************************************)
interp_of_entry(below, d, idx) ==
  LET e == d.entries[idx]
  IN CASE is_Page(e)      -> [b \in {EntryBase(d, idx)} |-> e.pte]
       [] is_Directory(e) -> below[e.dir]
       [] is_Empty(e)     -> EmptyMap

interp_aux(below, d) ==
  LET maps == [i \in EntryIndices |-> interp_of_entry(below, d, i)]
  IN [b \in UNION {DOMAIN maps[i] : i \in EntryIndices} |->
        maps[CHOOSE i \in EntryIndices :
               /\ b \in DOMAIN maps[i]
               /\ \A j \in 0 .. (i - 1) : b \notin DOMAIN maps[j]][b]]

Interp[l \in Levels] == [d \in Dirs[l] |-> interp_aux(Interp[l + 1], d)]

interp(d) == Interp[d.layer][d]

(***************************************************************************)
(* The operations.  A failing operation returns the directory as well.     *)
(***************************************************************************)
OkDir(d)  == [tag |-> "Ok", dir |-> d]
ErrDir(d) == [tag |-> "Err", dir |-> d]

\* A page may have the size of any layer from that of d on, the root's too.
dir_accepted_mapping(d, base, pte) ==
  /\ aligned(base, pte.frame.size)
  /\ aligned(pte.frame.base, pte.frame.size)
  /\ d.base_vaddr <= base
  /\ base + pte.frame.size <= upper_vaddr(d)
  /\ \E l \in d.layer .. LastLayer : pte.frame.size = EntrySize[l]

\* The result of a call on a directory below, put into its entry.
placed(res, d, idx) == [res EXCEPT !.dir = update(d, idx, Directory(res.dir))]

\* Seeded fault: a page replaces the directory that is in its place.
map_frame_over_directory(below, d, base, pte) ==
  LET idx == IndexFor(d, base)
      e == d.entries[idx]
      fits == entry_size(d) = pte.frame.size
  IN CASE is_Page(e)               -> ErrDir(d)
       [] ~is_Page(e) /\ fits      -> OkDir(update(d, idx, Page(pte)))
       [] is_Directory(e) /\ ~fits -> placed(below[e.dir], d, idx)
       [] is_Empty(e) /\ ~fits     -> placed(below[new_empty_dir(d, idx)], d, idx)

map_frame_in(below, d, base, pte) ==
  LET idx == IndexFor(d, base)
      e == d.entries[idx]
      fits == entry_size(d) = pte.frame.size
  IN CASE is_Page(e) \/ (is_Directory(e) /\ fits) -> ErrDir(d)
       [] is_Directory(e) /\ ~fits -> placed(below[e.dir], d, idx)
       [] is_Empty(e) /\ fits      -> OkDir(update(d, idx, Page(pte)))
       [] is_Empty(e) /\ ~fits     -> placed(below[new_empty_dir(d, idx)], d, idx)

map_frames(base, pte) ==
  LET at[l \in Levels] == [d \in Dirs[l] |-> map_frame_in(at[l + 1], d, base, pte)]
  IN at

map_frame(d, base, pte) == map_frames(base, pte)[d.layer][d]

accepted_unmap(d, base) ==
  /\ between(base, d.base_vaddr, upper_vaddr(d))
  /\ \E l \in Layers : aligned(base, EntrySize[l])

\* Seeded fault: emptied directories stay.
unmap_noreclaim(below, d, base) ==
  LET idx == IndexFor(d, base)
      e == d.entries[idx]
  IN CASE is_Directory(e) -> placed(below[e.dir], d, idx)
       [] is_Page(e) /\ aligned(base, entry_size(d)) ->
            OkDir(update(d, idx, Empty))
       [] is_Empty(e) \/ (is_Page(e) /\ ~aligned(base, entry_size(d))) -> ErrDir(d)

\* Seeded fault: any address within a page unmaps it.
unmap_unaligned(below, d, base) ==
  LET idx == IndexFor(d, base)
      e == d.entries[idx]
  IN CASE is_Directory(e) ->
            LET res == below[e.dir]
            IN IF res.tag = "Ok" /\ empty(res.dir)
               THEN OkDir(update(d, idx, Empty))
               ELSE placed(res, d, idx)
       [] is_Page(e)  -> OkDir(update(d, idx, Empty))
       [] is_Empty(e) -> ErrDir(d)

unmap_in(below, d, base) ==
  LET idx == IndexFor(d, base)
      e == d.entries[idx]
  IN CASE is_Directory(e) ->
            LET res == below[e.dir]
            IN IF res.tag = "Ok" /\ empty(res.dir)
               THEN OkDir(update(d, idx, Empty))
               ELSE placed(res, d, idx)
       [] is_Page(e) /\ aligned(base, entry_size(d)) ->
            OkDir(update(d, idx, Empty))
       [] is_Empty(e) \/ (is_Page(e) /\ ~aligned(base, entry_size(d))) -> ErrDir(d)

unmaps(base) ==
  LET at[l \in Levels] == [d \in Dirs[l] |-> unmap_in(at[l + 1], d, base)]
  IN at

unmap(d, base) == unmaps(base)[d.layer][d]

\* Seeded fault: resolve answers for the address it is asked about.
resolve_at_vaddr(below, d, vaddr) ==
  LET e == d.entries[IndexFor(d, vaddr)]
  IN CASE is_Page(e)      -> {<<vaddr, e.pte>>}
       [] is_Directory(e) -> below[e.dir]
       [] is_Empty(e)     -> {}

\* {} stands for Err(()).
resolve_in(below, d, vaddr) ==
  LET idx == IndexFor(d, vaddr)
      e == d.entries[idx]
  IN CASE is_Page(e)      -> {<<EntryBase(d, idx), e.pte>>}
       [] is_Directory(e) -> below[e.dir]
       [] is_Empty(e)     -> {}

resolves(vaddr) ==
  LET at[l \in Levels] == [d \in Dirs[l] |-> resolve_in(at[l + 1], d, vaddr)]
  IN at

resolve(d, vaddr) == resolves(vaddr)[d.layer][d]

(***************************************************************************)
(* The state machine.                                                      *)
(***************************************************************************)
TreeInit == dir = EmptyDir(0, 0)

MapFrame(base, pte) ==
  /\ dir_accepted_mapping(dir, base, pte)
  /\ dir' = map_frame(dir, base, pte).dir

Unmap(base) ==
  /\ accepted_unmap(dir, base)
  /\ dir' = unmap(dir, base).dir

TreeNext ==
  \E base \in VAddrs :
    \/ \E pte \in PTEs : MapFrame(base, pte)
    \/ Unmap(base)

TreeSpec == TreeInit /\ [][TreeNext]_dir

(***************************************************************************)
(* Properties.                                                             *)
(***************************************************************************)

\* Directory::inv: each directory is one layer below its parent, at the
\* address of its entry, and not empty; pages have the size of their layer
\* and are aligned to it.
inv_in(below, d) ==
  /\ aligned(d.base_vaddr, NumEntries * entry_size(d))
  /\ \A i \in EntryIndices :
       LET e == d.entries[i]
       IN /\ is_Page(e) => /\ e.pte.frame.size = entry_size(d)
                           /\ aligned(e.pte.frame.base, entry_size(d))
          /\ is_Directory(e) => /\ e.dir.base_vaddr = EntryBase(d, i)
                                /\ ~empty(e.dir)
                                /\ below[e.dir]

Inv[l \in Levels] == [d \in Dirs[l] |-> inv_in(Inv[l + 1], d)]

inv(d) == Inv[d.layer][d]

DirectoryInv ==
  /\ dir \in Dirs[0]
  /\ dir.base_vaddr = 0
  /\ inv(dir)

\* A result on trees, as a result on contents.
interp_result(res) == [tag |-> res.tag, map |-> interp(res.dir)]

\* lemma_map_frame_refines_map_frame and lemma_map_frame_empty_is_ok (whose
\* proof the source leaves out): map_frame on the tree gives the result and
\* the contents that map_frame on its contents gives, and leaves the tree as
\* it was if it fails.
MapFrameRefinesContents ==
  \A base \in VAddrs : \A pte \in PTEs :
    dir_accepted_mapping(dir, base, pte) =>
      LET res == map_frame(dir, base, pte)
      IN /\ interp_result(res) = contents_map_frame(interp(dir), base, pte)
         /\ res.tag = "Err" => res.dir = dir

\* lemma_unmap_refines_unmap: the same of unmap, which succeeds exactly at
\* the base of a mapping.
UnmapRefinesContents ==
  \A base \in VAddrs :
    accepted_unmap(dir, base) =>
      LET res == unmap(dir, base)
      IN /\ interp_result(res) = contents_unmap(interp(dir), base)
         /\ res.tag = "Err" => res.dir = dir

\* lemma_resolve_refines: resolve finds the mapping that covers the address,
\* which is the only one.
ResolveRefinesContents ==
  \A vaddr \in VAddrs :
    between(vaddr, 0, UpperVaddr) =>
      resolve(dir, vaddr) = contents_resolve(interp(dir), vaddr)

\* The tree a map calls for: a directory wherever a smaller page is mapped.
canonical_in(below, m, layer, base) ==
  [entries |-> [i \in EntryIndices |->
     LET b == entry_base(layer, base, i)
         inside == {x \in DOMAIN m : between(x, b, b + EntrySize[layer])}
     IN IF inside = {} THEN Empty
        ELSE IF b \in inside /\ m[b].frame.size = EntrySize[layer]
             THEN Page(m[b])
             ELSE Directory(below[b])],
   layer |-> layer, base_vaddr |-> base]

canonicals(m) ==
  LET at[l \in Levels] ==
        [base \in {b \in Nat : l \in Layers} |-> canonical_in(at[l + 1], m, l, base)]
  IN at

\* The tree holds no history: whatever was mapped and unmapped on the way, it
\* is the one its mappings call for, so that what a later call answers
\* depends on the mappings alone.
TreeHoldsNoHistory == dir = canonicals(interp(dir))[0][0]
=============================================================================
