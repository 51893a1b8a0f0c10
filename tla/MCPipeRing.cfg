SPECIFICATION RingSpec
CONSTANTS
  Writers = {w1, w2}
  Readers = {r1}
  Bytes = {0, 1}
  Size = 3
  Chunk = 2
  MaxWrite = 3
  MaxRead = 2
INVARIANTS
  RingTypeOK
PROPERTIES
  ImplementsByteQueue
\* every end may be closed
CHECK_DEADLOCK FALSE
