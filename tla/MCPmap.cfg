SPECIFICATION PmapSpec
CONSTANTS
  LEVELS = 3
  FANOUT = 4
  NFrames = 11
  Pmaps = {a1, a2}
  KernelPmap = KernelPmap
  Flags <- RW
  MaxRefs = 2
  MapRange <- SomePages
  LastRelease = FALSE
SYMMETRY PmapSymmetry
INVARIANT
  FramesAccounted
PROPERTIES
  OneAddressChanges
  KernelSharedSinceCopy
CHECK_DEADLOCK FALSE
