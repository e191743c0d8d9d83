SPECIFICATION FairSpec
CONSTANTS
  NSlots = 2
  MaxGeneration = 2
  MaxNow = 1
  MaxTasks = 3
  None = None
  WaitQueues = {w1}
  Kinds = {"Kernel"}
INVARIANTS TypeOK ReadyQueueExact CpuOwnerExact BlockedTaskIsQueued TerminateIsAtomic
PROPERTIES DeadIdsStayDead ExpiryIsComplete ReadyTaskRuns
