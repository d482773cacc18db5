CONSTANTS
  LastLayer = 2
  NumEntries = 2
  EntrySize <- MCEntrySize
  VAddrs <- MCVAddrs
  PTEs <- MCPTEs
  Values = {0, 1}
  PhysMemSize = 3
SPECIFICATION Spec
INVARIANT
  OSInv
  NoPhysicalAliasing
PROPERTY
  ImplementsHighSpec
