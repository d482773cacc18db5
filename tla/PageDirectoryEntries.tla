------------------------ MODULE PageDirectoryEntries ------------------------
(***************************************************************************)
(* The entries of a page directory as the page table implementation thinks *)
(* of them: records of an address and of the flags it sets and reads.      *)
(* EntryBits relates them to the 64-bit words that are in memory.          *)
(***************************************************************************)
EXTENDS Naturals

CONSTANT LastLayer    \* index of the leaf layer, whose entries are all pages

\* The entries whose addresses are in Addrs.
PageDirectoryEntry(Addrs) ==
  [P : BOOLEAN, PS : BOOLEAN, RW : BOOLEAN, US : BOOLEAN, XD : BOOLEAN,
   addr : Addrs]

new_entry(l, address, is_page, is_writable, is_supervisor, disable_execute) ==
  [P  |-> TRUE,
   PS |-> is_page /\ l # LastLayer,
   RW |-> is_writable,
   US |-> ~is_supervisor,
   XD |-> disable_execute,
   addr |-> address]

new_page_entry(l, pte) ==
  new_entry(l, pte.frame.base, TRUE, pte.flags.is_writable,
            pte.flags.is_supervisor, pte.flags.disable_execute)

\* Seeded fault: a directory entry that grants read access only.
new_dir_entry_readonly(l, address) ==
  new_entry(l, address, FALSE, FALSE, FALSE, FALSE)

new_dir_entry(l, address) == new_entry(l, address, FALSE, TRUE, FALSE, FALSE)

\* The value 0u64, whose address is zero.
zero_entry(zero) ==
  [P |-> FALSE, PS |-> FALSE, RW |-> FALSE, US |-> FALSE, XD |-> FALSE,
   addr |-> zero]

is_mapping(e) == e.P

is_page(l, e) == l = LastLayer \/ e.PS

is_dir(l, e) == ~is_page(l, e)

flags(e) ==
  [is_writable |-> e.RW, is_supervisor |-> ~e.US, disable_execute |-> e.XD]
=============================================================================
