SPECIFICATION FairSpec
CONSTANTS
  Swapper = swapper
  UserTasks = {u1, u2}
  KernelTasks = {k1}
  MaxNested = 0
  NULL = NULL
INVARIANTS
  TypeOK
  ContextIntact
  RingIntact
PROPERTIES
  SwitchFollowsRing
  EveryTaskRuns
