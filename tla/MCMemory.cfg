SPECIFICATION Spec
CONSTANTS
  NTasks = 3
  NFrames = 17
  PerTable = 2
  NPages = 10
  Image = {0}
  HeapStart = 2
  HeapLimit = 5
  Stack = 6
  BrkStart = 8
  MmapBase = 9
  Wishes = {6}
  Window = 7
INVARIANTS
  TypeOK
  PagesPrivate
  TablesSound
  MappedIsUsed
  BrkBacked
\* the kernel may halt
CHECK_DEADLOCK FALSE
