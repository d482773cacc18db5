-------------------------------- MODULE MCOS --------------------------------
(***************************************************************************)
(* OS over three layers of two entries: pages of 2 words at layer 1 and of *)
(* 1 word at layer 2, and three words of physical memory.                  *)
(***************************************************************************)
EXTENDS OS, TLC

MCEntrySize == (0 :> 4) @@ (1 :> 2) @@ (2 :> 1)

Entry(base, size, w, s, x) ==
  [frame |-> MemRegion(base, size),
   flags |-> [is_writable |-> w, is_supervisor |-> s, disable_execute |-> x]]

\* A large writable page; two small ones that compete for its second word, one
\* read-only without execute permission and one of the kernel; and a large
\* page whose second word lies past the end of physical memory.
MCPTEs ==
  { Entry(0, 2, TRUE, FALSE, FALSE),
    Entry(1, 1, FALSE, FALSE, TRUE),
    Entry(1, 1, TRUE, TRUE, FALSE),
    Entry(2, 2, TRUE, FALSE, FALSE) }

MCVAddrs == 0 .. 3
=============================================================================
