SPECIFICATION Spec
CONSTANTS
  NTasks = 2
  NFds = 2
  StdFds = 1
  NPipes = 2
  MaxRefs = 3
INVARIANTS
  TypeOK
  CountsCoverOpenEnds
  OpenEndsInUse
PROPERTIES
  EndOfFileIsFinal
\* the last task may exit
CHECK_DEADLOCK FALSE
