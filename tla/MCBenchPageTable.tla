-------------------------- MODULE MCBenchPageTable --------------------------
(***************************************************************************)
(* BenchPageTable over four layers of two entries, the depth of x86-64.    *)
(***************************************************************************)
EXTENDS BenchPageTable, TLC

MCEntrySize == (0 :> 8) @@ (1 :> 4) @@ (2 :> 2) @@ (3 :> 1)

Entry(base, size, w) ==
  [frame |-> MemRegion(base, size),
   flags |-> [is_writable |-> w, is_supervisor |-> FALSE, disable_execute |-> FALSE]]

\* Two small pages, and a page of each larger size that begins with one of
\* them.
MCPTEs ==
  { Entry(4, 1, TRUE), Entry(5, 1, FALSE), Entry(4, 2, TRUE), Entry(4, 4, FALSE) }

\* The first words, which share every directory, and the second half.
MCVAddrs == {0, 1, 8}

MCResolveVAddrs == {1, 3}

\* Room to build all layers twice.
MCRegions == 20 .. 26

\* What the allocator may return: a page whose last use has left bits that do
\* not read as present, or one whose first entry reads as a page of frame 0,
\* at any layer (as the value 129 does).
StalePage == [i \in EntryIndices |-> [ZeroEntry EXCEPT !.RW = TRUE, !.addr = 5]]

LeftoverPage == [ZeroPage EXCEPT ![0] = JunkEntry]

MCFreshPages == {StalePage, LeftoverPage}

\* A bound, for the properties that speak of such behaviours only.
NoLeftovers == clean

\* The benchmark maps one frame, of the smallest size.
MCBenchmarkPTEs == { Entry(0, 1, TRUE) }

MCBenchmarkVAddrs == {0, 1}

\* Pages are interchangeable, and none is ever handed out twice: it is enough
\* to hand them out in one order.
LowestPageFirst ==
  \A r \in regions' \ regions : \A q \in Regions : q < r => q \in regions
=============================================================================
