SPECIFICATION ZoneSpec
CONSTANTS
  PAGE_SIZE = 8
  MAX_PAGES = 8
  BITMAP_BYTES = 10
  LowMemory = 8
  MemMaps <- MCMemMaps
  KernelImages <- MCKernelImages
  POINTER_SIZE = 2
  ZONE_MAX = 2
  ElemSizes = {3, 6, 7, 9}
  MaxSizes = {0, 8}
INVARIANTS
  FreeCountExact
  PagesAccounted
  HandedOutIsSafe
  ElementsConserved
  ElementsApart
  TooLargeFaults
CHECK_DEADLOCK FALSE
