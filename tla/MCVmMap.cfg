SPECIFICATION VmSpec
CONSTANTS
  LEVELS = 2
  FANOUT = 4
  NFrames = 6
  Pmaps = {}
  KernelPmap = KernelPmap
  Flags <- NoFlags
  MaxRefs = 1
  MapRange <- NoFlags
  LastRelease = FALSE
  PAGE_SIZE = 2
  Starts = {16, 18, 24}
  Sizes = {2, 4}
  Prots <- TwoProts
  MaxEntries = 3
  WholeEntries = TRUE
INVARIANTS
  MapSorted
  FramesAccounted
  MappedIsCovered
  WiredIsMapped
CHECK_DEADLOCK FALSE
