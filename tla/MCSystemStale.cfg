CONSTANTS
  LastLayer = 2
  NumEntries = 2
  EntrySize <- MCEntrySize
  VAddrs <- MCVAddrs
  PTEs <- MCPTEs
  Values = {0, 1}
  PhysMemSize = 2
  Regions <- MCRegions
  CR3 = 10
  ReservePages = 2
  Invalidates = FALSE
VIEW StateWithoutResult
ACTION_CONSTRAINT LowestPageFirst
SPECIFICATION Spec
INVARIANT
  TLBIsSubmapBetweenCalls
