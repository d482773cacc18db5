CONSTANTS
  LastLayer = 3
  NumEntries = 2
  EntrySize <- MCEntrySize
  VAddrs <- MCBenchmarkVAddrs
  ResolveVAddrs <- MCResolveVAddrs
  PTEs <- MCBenchmarkPTEs
  Regions <- MCRegions
  CR3 = 20
  ReservePages = 3
  FreshPages <- MCFreshPages
ACTION_CONSTRAINT LowestPageFirst
SPECIFICATION BenchSpec
PROPERTY MappedPageCanBeUnmapped
