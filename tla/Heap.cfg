SPECIFICATION FairSpec
CONSTANTS
  Callers = {c1, c2}
  HEAP_SIZE = 9
  MAX_ALLOC = 4
  NULL = NULL
INVARIANTS LayoutExact FreeListExact HeapUsedExact
PROPERTIES NoHeaderInLiveData ImplementsRegions LockReleased
VIEW LiveFields
