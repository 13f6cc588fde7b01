SPECIFICATION Spec
CONSTANTS
  MAX_PROCESSES = 3
  PREEMPTIVE = TRUE
  AslrOffsets = {0}
  LinkAddresses = {0}
  HeapEnd = 3
  Stacks = {b1, b2}
  NULL = NULL
  MaxPid = 3
SYMMETRY StackSymmetry
INVARIANTS TableConsistent KernelContextSaved
CHECK_DEADLOCK FALSE
