----------------------------- MODULE MCEntryBits -----------------------------
(***************************************************************************)
(* EntryBits for the addresses that set any of the bits at the ends of the *)
(* masks.                                                                  *)
(***************************************************************************)
EXTENDS EntryBits

\* The first and the last bit of an address, and those at which the offsets
\* into large pages end.
MCFrames == SUBSET {12, 20, 21, 29, 30, 51}

MCDirPages == SUBSET {12, 30, 51}

\* With bits that no physical address has: the last one MASK_ADDR lets pass,
\* the first one it drops, and the one that means disable_execute.
MCFramesBeyond == SUBSET {12, 30, 52, 53, 63}
=============================================================================
