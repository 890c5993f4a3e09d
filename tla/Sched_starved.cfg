SPECIFICATION FairSpec
CONSTANTS
  Swapper = swapper
  UserTasks = {}
  KernelTasks = {k1}
  MaxNested = 1
  NULL = NULL
PROPERTY
  EveryTaskRuns
