CONSTANTS
  MAX_PROCESSES = 3
  Parent <- MCParent
SPECIFICATION FairSpec
INVARIANTS LockFreeWhenNeeded InterruptsComeBack
PROPERTIES HeapReleased
CHECK_DEADLOCK FALSE
