SPECIFICATION Spec
CONSTANTS
  Swapper = swapper
  UserTasks = {u1, u2}
  KernelTasks = {k1}
  MaxNested = 1
  NULL = NULL
INVARIANT
  ContextIntact
