CONSTANTS
  LastLayer = 3
  NumEntries = 2
  EntrySize <- MCEntrySize
  MapCalls <- MCMapCalls
  UnmapVAddrs <- MCUnmapVAddrs
SPECIFICATION Spec
CHECK_DEADLOCK FALSE
INVARIANT
  VSpaceInv
  MapOnlyAdds
  OkMapsRegion
  ErrMapsPrefix
PROPERTY
  UnmapTakesOnePage
  EveryMapEnds
