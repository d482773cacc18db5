CONSTANTS
  LastLayer = 3
  Frames <- MCFrames
  DirPages <- MCDirPages
SPECIFICATION Spec
INVARIANT
  EncodesRecord
  ViewAgrees
  MMUReadsRecord
