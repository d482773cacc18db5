------------------------------ MODULE MCSystem ------------------------------
(***************************************************************************)
(* System over three layers of two entries and two words of memory.        *)
(***************************************************************************)
EXTENDS System, TLC

MCEntrySize == (0 :> 4) @@ (1 :> 2) @@ (2 :> 1)

Entry(base, size, w, s, x) ==
  [frame |-> MemRegion(base, size),
   flags |-> [is_writable |-> w, is_supervisor |-> s, disable_execute |-> x]]

\* A small page and a large one that competes with it for its frame and,
\* mapped at 0, for its addresses.
MCPTEs ==
  { Entry(0, 1, TRUE, FALSE, FALSE),
    Entry(0, 2, FALSE, FALSE, TRUE) }

MCVAddrs == {0, 1, 2}

\* No action and no property reads result.
StateWithoutResult ==
  <<region_view, regions, ghost_pt, pc, call, layer, path, new_dir, old,
    mem, tlb, unmapped, obs>>

\* Three pages for directories.
MCRegions == 10 .. 13

\* Pages are interchangeable, and none is ever handed out twice: it is enough
\* to hand them out in one order.
LowestPageFirst ==
  \A r \in regions' \ regions : \A q \in Regions : q < r => q \in regions
=============================================================================
