CONSTANTS
  LastLayer = 3
  NumEntries = 2
  EntrySize <- MCEntrySize
  VAddrs <- MCVAddrs
  ResolveVAddrs <- MCResolveVAddrs
  PTEs <- MCPTEs
  Regions <- MCRegions
  CR3 = 20
  ReservePages = 3
  FreshPages <- MCFreshPages
ACTION_CONSTRAINT LowestPageFirst
CONSTRAINT NoLeftovers
SPECIFICATION BenchSpec
INVARIANT BenchInv
PROPERTY
  CallsDoAsTheyAnswer
  UnmapReturnsWhatWasMapped
  OnlyNoReclaimAbandons
