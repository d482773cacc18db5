CONSTANTS
  LastLayer = 2
  NumEntries = 2
  EntrySize <- MCEntrySize
  VAddrs <- MCVAddrs
  ResolveVAddrs <- MCResolveVAddrs
  PTEs <- MCPTEs
  Regions <- MCRegions
  CR3 = 10
  ReservePages = 2
ACTION_CONSTRAINT LowestPageFirst
SPECIFICATION Spec
PROPERTY
  UnmapReturnsRemovedRegions
