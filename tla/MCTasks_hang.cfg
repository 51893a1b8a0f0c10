SPECIFICATION Spec
CONSTANTS
  NTasks = 3
  MaxPid = 3
  Statuses = {0}
  Forkers <- AllPids
  Blockers <- NoPids
  WaitPids <- AnyChild
INVARIANT
  WaitersAreAnswered
CHECK_DEADLOCK FALSE
