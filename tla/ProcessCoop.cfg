SPECIFICATION FairSpec
CONSTANTS
  MAX_PROCESSES = 3
  PREEMPTIVE = FALSE
  AslrOffsets = {0}
  LinkAddresses = {0}
  HeapEnd = 3
  Stacks = {b1, b2, b3}
  NULL = NULL
  MaxPid = 4
INVARIANTS CreationSafe StacksOwnedOnce
PROPERTY ExecReturns
