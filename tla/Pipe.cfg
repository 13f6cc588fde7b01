SPECIFICATION FairSpec
CONSTANTS
  Readers = {r1}
  Writers = {w1, w2}
  PIPE_SIZE = 2
  MaxRead = 3
  Messages <- ShortMessages
INVARIANTS RingExact FreedOnce
PROPERTIES ImplementsChannel WaitersReleased
CHECK_DEADLOCK FALSE
