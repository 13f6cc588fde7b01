SPECIFICATION FairSpec
CONSTANTS
  QUEUE_SIZE = 2
  INDEX_MODULUS = 4
  KAPI_INPUT_BUF_SIZE = 3
  Kinds <- MCKinds
  Scans <- MCScans
  MaxEvents = 4
  MaxChars = 2
INVARIANTS QueueConsistent HandledInOrder KeysKept ModifiersRight
PROPERTY EventsHandled
