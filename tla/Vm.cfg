CONSTANTS
  NPages = 8
  KernelPages = {1}
  HeapPages = {3, 4}
  VMM_ENTRIES = 4
  EARLY_TABLES_COUNT = 4
  BlockEntries = {0, 1}
  MmPool = 2
  VmaPool = 2
  KernelText <- MCText
  Ranges <- MCRanges
  UserRanges <- MCUserRanges
  Devices <- MCDevices
  Stack <- MCStack
  StackPages = 2
SPECIFICATION Spec
VIEW State
CONSTRAINT Small
INVARIANT MemoryConsistent
PROPERTIES MapRangeAtomic SpacesIsolated LostOnlyByOverlap
