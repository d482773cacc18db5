------------------------------- MODULE VSpace -------------------------------
(***************************************************************************)
(* The page table of NrOS that the evaluation compares with (VSpace in     *)
(* nros_vmem.rs).  Its map_generic maps a region of any length: piece by   *)
(* piece, each with the largest pages that fit, starting again at the root *)
(* where a directory ends.  A call that fails half-way leaves the pieces   *)
(* it has mapped.                                                          *)
(*                                                                         *)
(* Addresses count base pages.  Layers 0 to 3 are PML4, PDPT, PD and PT;   *)
(* EntrySize[1], [2] and [3] are HUGE_, LARGE_ and BASE_PAGE_SIZE.  A      *)
(* directory is never unlinked or moved, so a table entry is named by its  *)
(* layer and the first address it maps, and no pointers are kept.          *)
(***************************************************************************)
EXTENDS PagingDefs

CONSTANTS
  MapCalls,     \* the calls of map_generic: [vbase, pbase, psize, rights]
  UnmapVAddrs   \* the addresses passed to unmap

(***************************************************************************)
(* MapAction and its flags, the same for pages of all sizes; None is       *)
(* refused by map_generic.                                                 *)
(***************************************************************************)
to_rights ==
  [ReadUser           |-> {"XD"},
   ReadKernel         |-> {"US", "XD"},
   ReadWriteUser      |-> {"RW", "XD"},
   ReadWriteKernel    |-> {"RW", "US", "XD"},
   ReadExecuteUser    |-> {},
   ReadExecuteKernel  |-> {"US"},
   ReadWriteExecuteUser   |-> {"RW"},
   ReadWriteExecuteKernel |-> {"RW", "US"}]

ASSUME VSpaceAssumption ==
  /\ LastLayer = 3
  /\ MapCalls \subseteq [vbase : Nat, pbase : Nat, psize : Nat,
                         rights : DOMAIN to_rights]
  /\ \A c \in MapCalls : /\ c.vbase < UpperVaddr
                         /\ c.vbase + c.psize <= UpperVaddr
                         /\ aligned(c.vbase, EntrySize[LastLayer])
                         /\ aligned(c.pbase, EntrySize[LastLayer])
                         /\ aligned(c.psize, EntrySize[LastLayer])
  /\ UnmapVAddrs \subseteq 0 .. (UpperVaddr - 1)

VARIABLES
  entry,    \* the entries of all tables, by slot
  pc,       \* where map_generic is: "idle", "walk", "pages"; or how it has
            \* ended: "ok", "err" (VSpaceError at args.vbase) or "panic"
  args,     \* the arguments of the running (recursive) call of map_generic
  layer,    \* the table it looks at
  mapped,   \* what this call has mapped
  call,     \* the arguments of the outermost call
  before    \* what was mapped when that began

vars == <<entry, pc, args, layer, mapped, call, before>>

(***************************************************************************)
(* Table entries.                                                          *)
(***************************************************************************)
Slots == UNION {{<<l, b>> : b \in {x \in 0 .. (UpperVaddr - 1) :
                                     aligned(x, EntrySize[l])}} : l \in Layers}

\* pml4_index, pdpt_index, pd_index and pt_index lead to this entry.
slot(l, vaddr) == <<l, vaddr - (vaddr % EntrySize[l])>>

index(l, vaddr) == (vaddr \div EntrySize[l]) % NumEntries

NotPresent == [tag |-> "NotPresent"]
Table      == [tag |-> "Table"]
Page(p, r) == [tag |-> "Page", paddr |-> p, flags |-> r]

is_present(e) == e # NotPresent
is_table(e)   == e.tag = "Table"
is_page(e)    == e.tag = "Page"

\* A new table is zeroed and linked.
new_table(s) ==
  [t \in Slots |->
     IF t = s THEN Table
     ELSE IF t[1] = s[1] + 1 /\ slot(s[1], t[2]) = s THEN NotPresent
     ELSE entry[t]]

(***************************************************************************)
(* Resolving.                                                              *)
(***************************************************************************)

\* The entry at which the walk for vaddr ends.
last_slot(vaddr) ==
  slot(CHOOSE l \in Layers : /\ ~is_table(entry[slot(l, vaddr)])
                             /\ \A k \in 0 .. (l - 1) :
                                  is_table(entry[slot(k, vaddr)]),
       vaddr)

\* {} stands for None.
resolve_addr(vaddr) ==
  LET s == last_slot(vaddr)
  IN IF is_page(entry[s])
     THEN {[paddr |-> entry[s].paddr + (vaddr - s[2]), flags |-> entry[s].flags]}
     ELSE {}

\* Everything that is mapped, page by page.
mapping ==
  LET words == {v \in 0 .. (UpperVaddr - 1) : resolve_addr(v) # {}}
  IN [v \in words |-> CHOOSE t \in resolve_addr(v) : TRUE]

(***************************************************************************)
(* map_generic.                                                            *)
(***************************************************************************)
NoCall == [vbase |-> 0, pbase |-> 0, psize |-> 0, rights |-> "ReadUser"]

Init ==
  /\ entry = [s \in Slots |-> NotPresent]
  /\ pc = "idle"
  /\ args = NoCall
  /\ layer = 0
  /\ mapped = 0
  /\ call = NoCall
  /\ before = EmptyMap

map_generic(c) ==
  /\ pc = "idle"
  /\ pc' = "walk"
  /\ args' = c
  /\ call' = c
  /\ before' = mapping
  /\ UNCHANGED <<entry, layer, mapped>>

here == slot(layer, args.vbase)

\* The region begins with a page of this size.
PageFits ==
  /\ args.vbase = here[2]
  /\ aligned(args.pbase, EntrySize[layer])
  /\ args.psize >= EntrySize[layer]

\* Pages are written at this layer: never in the PML4, always in the PT.
PagesHere ==
  \/ layer = LastLayer
  \/ layer > 0 /\ PageFits /\ ~is_present(entry[here])

\* The new table is asserted to be linked before the walk goes on.
NewTable ==
  /\ pc = "walk"
  /\ ~PagesHere
  /\ ~is_present(entry[here])
  /\ entry' = new_table(here)
  /\ IF is_present(entry'[here])
     THEN pc' = pc /\ layer' = layer + 1
     ELSE pc' = "panic" /\ layer' = layer
  /\ UNCHANGED <<args, mapped, call, before>>

Descend ==
  /\ pc = "walk"
  /\ is_table(entry[here])
  /\ layer' = layer + 1
  /\ UNCHANGED <<entry, pc, args, mapped, call, before>>

End(how) ==
  /\ pc' = how
  /\ UNCHANGED <<entry, args, layer, mapped, call, before>>

\* A larger page covers vbase.
PageInTheWay ==
  /\ pc = "walk"
  /\ ~PagesHere
  /\ is_page(entry[here])
  /\ End("err")

BeginPages ==
  /\ pc = "walk"
  /\ PagesHere
  /\ End("pages")

next_slot == slot(layer, args.vbase + mapped)

\* Seeded fault: the loops run on past the end of the table.
MorePages_past_table == args.psize - mapped >= EntrySize[layer]

\* Seeded fault: a page that is all that is left is not mapped, so that the
\* recursion is called with the arguments it has.
MorePages_strict ==
  /\ args.psize - mapped > EntrySize[layer]
  /\ index(layer, args.vbase) + mapped \div EntrySize[layer] < NumEntries

\* The condition of the while loops: another page fits, in the same table.
MorePages ==
  /\ args.psize - mapped >= EntrySize[layer]
  /\ index(layer, args.vbase) + mapped \div EntrySize[layer] < NumEntries

\* Seeded fault: whatever is in the entry is overwritten.
MapPage_overwrites ==
  /\ pc = "pages"
  /\ MorePages
  /\ entry' = [entry EXCEPT ![next_slot] =
                 Page(args.pbase + mapped, to_rights[args.rights])]
  /\ mapped' = mapped + EntrySize[layer]
  /\ UNCHANGED <<pc, args, layer, call, before>>

MapPage ==
  /\ pc = "pages"
  /\ MorePages
  /\ ~is_present(entry[next_slot])
  /\ entry' = [entry EXCEPT ![next_slot] =
                 Page(args.pbase + mapped, to_rights[args.rights])]
  /\ mapped' = mapped + EntrySize[layer]
  /\ UNCHANGED <<pc, args, layer, call, before>>

\* The loops over the PD and the PT return an error; the one over the PDPT
\* asserts that the entry is free, so that the program ends.
EntryInTheWay ==
  /\ pc = "pages"
  /\ MorePages
  /\ is_present(entry[next_slot])
  /\ End(IF layer = 1 THEN "panic" ELSE "err")

\* Seeded fault: the physical address does not advance.
Recurse_same_frame ==
  /\ pc = "pages"
  /\ ~MorePages
  /\ mapped < args.psize
  /\ args' = [args EXCEPT !.vbase = @ + mapped, !.psize = @ - mapped]
  /\ pc' = "walk"
  /\ layer' = 0
  /\ mapped' = 0
  /\ UNCHANGED <<entry, call, before>>

\* The rest of the region is mapped from the root.
Recurse ==
  /\ pc = "pages"
  /\ ~MorePages
  /\ mapped < args.psize
  /\ args' = [args EXCEPT !.vbase = @ + mapped, !.pbase = @ + mapped,
                          !.psize = @ - mapped]
  /\ pc' = "walk"
  /\ layer' = 0
  /\ mapped' = 0
  /\ UNCHANGED <<entry, call, before>>

Done ==
  /\ pc = "pages"
  /\ ~MorePages
  /\ mapped >= args.psize
  /\ End("ok")

Return ==
  /\ pc \in {"ok", "err"}
  /\ pc' = "idle"
  /\ args' = NoCall
  /\ layer' = 0
  /\ mapped' = 0
  /\ call' = NoCall
  /\ before' = EmptyMap
  /\ UNCHANGED entry

(***************************************************************************)
(* unmap: modify_generic with Modify::Unmap.  It takes any address of the  *)
(* page and leaves the tables.                                             *)
(***************************************************************************)
\* Seeded fault: the entry of the table the page is in is cleared.
unmap_table(base) ==
  /\ pc = "idle"
  /\ is_page(entry[last_slot(base)])
  /\ entry' = [entry EXCEPT ![slot(last_slot(base)[1] - 1, base)] = NotPresent]
  /\ UNCHANGED <<pc, args, layer, mapped, call, before>>

unmap(base) ==
  /\ pc = "idle"
  /\ aligned(base, EntrySize[LastLayer])
  /\ is_page(entry[last_slot(base)])
  /\ entry' = [entry EXCEPT ![last_slot(base)] = NotPresent]
  /\ UNCHANGED <<pc, args, layer, mapped, call, before>>

Step ==
  \/ NewTable \/ Descend \/ PageInTheWay \/ BeginPages
  \/ MapPage \/ EntryInTheWay \/ Recurse \/ Done \/ Return

Next ==
  \/ \E c \in MapCalls : map_generic(c)
  \/ \E base \in UnmapVAddrs : unmap(base)
  \/ Step

Spec == Init /\ [][Next]_vars /\ WF_vars(Step)

(***************************************************************************)
(* Properties.                                                             *)
(***************************************************************************)
Region(c) == {v \in 0 .. (UpperVaddr - 1) : between(v, c.vbase, c.vbase + c.psize)}

\* vaddr is mapped the way the call asks for.
AsCalled(vaddr) ==
  /\ vaddr \in Region(call)
  /\ contains_pair(mapping, vaddr,
                   [paddr |-> call.pbase + (vaddr - call.vbase),
                    flags |-> to_rights[call.rights]])

\* At every moment of a call, failing and panicking ones included, what was
\* mapped before is mapped as before, and what is new is what the call asks
\* for: the loops never write over an entry, and the address, frame and
\* length that the recursion passes on stay in step.
MapOnlyAdds ==
  pc # "idle" =>
    /\ DOMAIN before \subseteq DOMAIN mapping
    /\ \A v \in DOMAIN mapping :
         IF v \in DOMAIN before THEN mapping[v] = before[v] ELSE AsCalled(v)

\* A call that succeeds has mapped its whole region, and none of it was
\* mapped before, whatever mix of page sizes and tables it has met.
OkMapsRegion ==
  pc = "ok" => \A v \in Region(call) : AsCalled(v) /\ v \notin DOMAIN before

\* A call that fails leaves all of the region in front of the address it
\* reports mapped, and none of that was mapped before.  (It may fail although
\* nothing of the region was mapped: unmap leaves empty tables, which are in
\* the way of larger pages.)
ErrMapsPrefix ==
  pc = "err" =>
    \A v \in Region(call) : v < args.vbase => AsCalled(v) /\ v \notin DOMAIN before

\* unmap takes one whole page out, the one its address lies in, and nothing
\* else, whatever the size of the page.
UnmapTakesOnePage ==
  [][\A base \in UnmapVAddrs :
       unmap(base) =>
         \E l \in Layers :
           LET page == {v \in DOMAIN mapping : slot(l, v) = slot(l, base)}
           IN /\ base \in page
              /\ page = Region([vbase |-> slot(l, base)[2], psize |-> EntrySize[l]])
              /\ mapping' = Restrict(mapping, DOMAIN mapping \ page)]_vars

(***************************************************************************)
(* The inductive invariant: what the recursion knows at every step.        *)
(***************************************************************************)
Entries ==
  {NotPresent, Table}
    \cup [tag : {"Page"}, paddr : Nat, flags : {to_rights[r] : r \in DOMAIN to_rights}]

TypeOK ==
  /\ entry \in [Slots -> Entries]
  /\ pc \in {"idle", "walk", "pages", "ok", "err", "panic"}
  /\ args \in [vbase : Nat, pbase : Nat, psize : Nat, rights : DOMAIN to_rights]
  /\ layer \in Layers
  /\ mapped \in Nat

\* The entries of a PT refer to no further tables: every walk ends.
WalksEnd == \A s \in Slots : is_table(entry[s]) => s[1] < LastLayer

\* The arguments of the recursion are the rest of the outermost call's, with
\* address and frame at the same distance.
ArgsInStep ==
  pc # "idle" =>
    /\ call \in MapCalls
    /\ args.vbase >= call.vbase
    /\ args.vbase + args.psize = call.vbase + call.psize
    /\ args.pbase = call.pbase + (args.vbase - call.vbase)
    /\ args.rights = call.rights
    /\ args.vbase < UpperVaddr
    /\ aligned(args.vbase, EntrySize[LastLayer])
    /\ mapped <= args.psize

\* map_generic stands in a table that is linked, and in the loops its next page
\* starts at an entry of that table.
LoopInv ==
  /\ pc = "idle" => layer = 0
  /\ pc \in {"idle", "walk"} => mapped = 0
  /\ pc \in {"walk", "pages"} =>
       \A k \in 0 .. (layer - 1) : is_table(entry[slot(k, args.vbase)])
  /\ pc = "pages" => /\ aligned(args.vbase, EntrySize[layer])
                     /\ aligned(mapped, EntrySize[layer])
  /\ pc = "ok" => mapped = args.psize

\* Everything the loops have passed is mapped, and was not before.
PrefixIsMapped ==
  pc # "idle" =>
    \A v \in Region(call) :
      v < args.vbase + mapped => AsCalled(v) /\ v \notin DOMAIN before

VSpaceInv ==
  TypeOK /\ WalksEnd /\ ArgsInStep /\ LoopInv /\ MapOnlyAdds /\ PrefixIsMapped

\* map_generic ends: every recursion has less to map.
EveryMapEnds == pc = "walk" ~> pc \in {"ok", "err", "panic"}
=============================================================================
