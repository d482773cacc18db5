--------------------------- MODULE PageTableInputs ---------------------------
(***************************************************************************)
(* What the callers of the page table pass, to the specification and to    *)
(* the tree of directories alike.                                          *)
(***************************************************************************)
EXTENDS PageTableContents

CONSTANTS
  VAddrs,   \* the virtual addresses callers pass
  PTEs      \* the page table entries callers pass

ASSUME InputsAssumption ==
  /\ VAddrs \subseteq Nat
  /\ PTEs \subseteq PageTableEntry
=============================================================================
