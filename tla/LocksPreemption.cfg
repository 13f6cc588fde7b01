CONSTANTS
  MAX_PROCESSES = 2
  Parent <- MCParent
SPECIFICATION FairSpec
PROPERTIES EveryReadyRuns
CHECK_DEADLOCK FALSE
