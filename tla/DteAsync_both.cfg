SPECIFICATION Spec
CONSTANTS
  t1 = t1
  t2 = t2
  t3 = t3
  t4 = t4
  x1 = x1
  x2 = x2
  x3 = x3
  x4 = x4
  x5 = x5
  None = None
  Tokens = {t1, t2, t3, t4}
  Xfers = {x1, x2, x3, x4, x5}
  Capacity = 3
  Modes <- BothModes
  MaxDescriptors = 3
  MaxBytes = 2
  TimeoutCycles = 1
  BlockBytes = 4
  GroupIds = {1, 2, 3}
CHECK_DEADLOCK FALSE
INVARIANT NoFault

