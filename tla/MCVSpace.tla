------------------------------ MODULE MCVSpace ------------------------------
(***************************************************************************)
(* VSpace with four layers of two entries: sixteen base pages.             *)
(***************************************************************************)
EXTENDS VSpace, TLC

MCEntrySize == (0 :> 8) @@ (1 :> 4) @@ (2 :> 2) @@ (3 :> 1)

Map(vbase, pbase, psize, rights) ==
  [vbase |-> vbase, pbase |-> pbase, psize |-> psize, rights |-> rights]

MCMapCalls ==
  { Map(0, 0, 8, "ReadWriteUser"),     \* two huge pages
    Map(2, 2, 4, "ReadWriteUser"),     \* large pages in two tables
    Map(6, 6, 4, "ReadWriteUser"),     \* the same, across a PML4 slot
    Map(3, 4, 3, "ReadExecuteUser"),   \* small pages: the frame is not aligned
    Map(1, 1, 3, "ReadWriteUser"),     \* small, then large
    Map(5, 5, 0, "ReadWriteUser") }    \* an empty region

\* In pages of every size, at their first address and further on.
MCUnmapVAddrs == {0, 3, 4, 8}
=============================================================================
