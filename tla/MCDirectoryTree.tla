--------------------------- MODULE MCDirectoryTree ---------------------------
(***************************************************************************)
(* DirectoryTree over three layers of two entries: all trees of eight      *)
(* words with pages of three sizes.                                        *)
(***************************************************************************)
EXTENDS DirectoryTree, TLC

MCEntrySize == (0 :> 4) @@ (1 :> 2) @@ (2 :> 1)

Entry(base, size) ==
  [frame |-> MemRegion(base, size),
   flags |-> [is_writable |-> TRUE, is_supervisor |-> FALSE,
              disable_execute |-> FALSE]]

\* A page of each size, a second one of the middle size, and one that is not
\* aligned.
MCPTEs == {Entry(0, 4), Entry(4, 2), Entry(6, 2), Entry(0, 1), Entry(3, 2)}

\* Every word of the address space, and the first one past it.
MCVAddrs == 0 .. 8
=============================================================================
