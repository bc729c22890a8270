SPECIFICATION FairSpec
CONSTANTS
  t1 = t1
  t2 = t2
  t3 = t3
  t4 = t4
  x1 = x1
  x2 = x2
  x3 = x3
  x4 = x4
  x5 = x5
  None = None
  Tokens = {t1, t2}
  Xfers = {x1, x2, x3}
  Capacity = 4
  Modes <- LiveModes
  MaxDescriptors = 2
  MaxBytes = 2
  TimeoutCycles = 2
  BlockBytes = 4
  GroupIds = {1, 2, 3}
PROPERTIES
  StagedIsFlushed
  CallsReturn

