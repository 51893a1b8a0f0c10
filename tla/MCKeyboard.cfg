SPECIFICATION KbdSpec
CONSTANTS
  Readers = {r1, r2}
  BufferSize = 3
  MaxCodes = 1
INVARIANTS
  KbdTypeOK
PROPERTIES
  ImplementsKeyQueue
