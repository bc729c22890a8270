SPECIFICATION Spec
CONSTANTS
  x1 = x1
  x2 = x2
  x3 = x3
  x4 = x4
  x5 = x5
  None = None
  Xfers = {x1, x2, x3, x4}
SYMMETRY Symmetry
INVARIANTS
  TypeOK
  OwnersMatchMasks
  QueuesMatchStates
  CountersMatchStates
  NoWorkLeftAsleep
PROPERTIES
  RoundRobin
  ImplementsPool
CONSTANTS
  FineGrained = TRUE
  Channels = 1
  SlotsPerChannel = 2
  PendingDepth = 1
  LaunchTime = 1
  Dirs <- V4Dirs
  Payloads = {2}
  PortWidth <- SlowWrite
