CONSTANTS
  LastLayer = 2
  NumEntries = 2
  EntrySize <- MCEntrySize
  VAddrs <- MCVAddrs
  PTEs <- MCPTEs
SPECIFICATION TreeSpec
INVARIANT
  DirectoryInv
  MapFrameRefinesContents
  UnmapRefinesContents
  ResolveRefinesContents
  TreeHoldsNoHistory
