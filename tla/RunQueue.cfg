SPECIFICATION Spec
CONSTANTS
  MAX_TASKS = 3
  SIG_POOL = 1
  Workloads <- MCWorkloads
  MaxRunning = 3
  NULL = NULL
CONSTRAINT TwoWaiters
INVARIANTS QueueConsistent KillNotMaskable
PROPERTY NotOvertaken
