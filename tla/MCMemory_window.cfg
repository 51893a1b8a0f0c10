SPECIFICATION Spec
CONSTANTS
  NTasks = 2
  NFrames = 18
  PerTable = 2
  NPages = 10
  Image = {0}
  HeapStart = 2
  HeapLimit = 5
  Stack = 6
  BrkStart = 8
  MmapBase = 9
  Wishes = {6}
  Window = 8
INVARIANT
  TablesReachable
CHECK_DEADLOCK FALSE
