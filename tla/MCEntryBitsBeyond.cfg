CONSTANTS
  LastLayer = 3
  Frames <- MCFramesBeyond
  DirPages <- MCDirPages
SPECIFICATION Spec
INVARIANT
  AddressIsKept
