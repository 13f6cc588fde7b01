SPECIFICATION Spec
CONSTANTS
  MAX_CONNECTIONS = 1
  Apps = {a, b}
  FirstPort = 1
  LastPort = 2
  Capacity = 1
  MaxConnects = 2
  MaxData = 2
  MaxFaults = 1
  MaxFlight = 3
  NULL = NULL
INVARIANTS ConnectionsSeparate InOrderStream HandleKept AnswerUnderWay
CHECK_DEADLOCK FALSE
