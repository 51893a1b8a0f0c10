SPECIFICATION KFairSpec
CONSTANTS
  NTasks = 3
  MaxPid = 4
  Statuses = {0}
  Forkers <- AllPids
  Blockers <- AllPids
  WaitPids <- AnyOrThird
  NPipes = 1
  PipeSize = 1
  Amounts = {0, 2}
INVARIANTS
  PipeCallsReturnToCaller
PROPERTIES
  ShellWaitReturns
  ShellPipeCallsReturn
  CallsLeaveKernel
\* the kernel may idle or halt for good
CHECK_DEADLOCK FALSE
