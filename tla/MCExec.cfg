SPECIFICATION ExecSpec
CONSTANTS
  LEVELS = 2
  FANOUT = 6
  NFrames = 12
  Pmaps = {a1, a2}
  KernelPmap = KernelPmap
  Flags <- Nothing
  MaxRefs = 1
  MapRange <- Nothing
  LastRelease = FALSE
  PAGE_SIZE = 2
  Starts = {38}
  Sizes = {2}
  Prots <- OneProt
  MaxEntries = 1
  WholeEntries = TRUE
  Images <- SomeImages
  PhysBase = 7
  IDENTITY = 32
INVARIANTS
  LoadedIsMapped
  EntryInImage
PROPERTY
  LoadIsolated
CHECK_DEADLOCK FALSE
