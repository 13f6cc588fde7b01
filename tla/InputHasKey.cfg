SPECIFICATION FairSpec
CONSTANTS
  QUEUE_SIZE = 2
  INDEX_MODULUS = 4
  KAPI_INPUT_BUF_SIZE = 3
  Kinds <- OneKey
  Scans <- NoScans
  MaxEvents = 1
  MaxChars = 0
PROPERTY BufferedKeyRead
