SPECIFICATION Spec
CONSTANTS
  NTasks = 3
  MaxPid = 6
  Statuses = {0, 1}
  Forkers <- AllPids
  Blockers <- AllPids
  WaitPids <- AnyOrThird
INVARIANTS
  TypeOK
  CurrentIsRunning
  SuspendedInsideKernel
  JumpTargetAlive
  PidsUnique
PROPERTIES
  ZombiesWait
  ImplementsProcesses
\* the kernel may idle or halt for good
CHECK_DEADLOCK FALSE
