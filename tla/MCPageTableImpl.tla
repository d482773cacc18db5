--------------------------- MODULE MCPageTableImpl ---------------------------
(***************************************************************************)
(* PageTableImpl over three layers of two entries.                         *)
(***************************************************************************)
EXTENDS PageTableImpl, TLC

MCEntrySize == (0 :> 4) @@ (1 :> 2) @@ (2 :> 1)

Entry(base, size, w, s, x) ==
  [frame |-> MemRegion(base, size),
   flags |-> [is_writable |-> w, is_supervisor |-> s, disable_execute |-> x]]

\* Two small pages with different rights, a large one, and a large one whose
\* frame is not aligned, which step_Map_enabled turns away.
MCPTEs ==
  { Entry(0, 1, TRUE, FALSE, FALSE),
    Entry(1, 1, FALSE, TRUE, TRUE),
    Entry(2, 2, TRUE, FALSE, TRUE),
    Entry(3, 2, TRUE, FALSE, FALSE) }

\* Both halves of the root directory, and in the first half both large pages
\* and two neighbouring small ones.
MCVAddrs == {0, 1, 2, 4}

\* Addresses in the middle of a large page and past the last mapping, too.
MCResolveVAddrs == {0, 3, 7}

\* The first address past the address space, which resolve accepts as well.
MCResolveBeyond == {0, 8}

\* Room for two calls of map_frame that build every layer.
MCRegions == 10 .. 14

\* Pages are interchangeable, and none is ever handed out twice: it is enough
\* to hand them out in one order.
LowestPageFirst ==
  \A r \in regions' \ regions : \A q \in Regions : q < r => q \in regions
=============================================================================
