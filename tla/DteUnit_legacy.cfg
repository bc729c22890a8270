SPECIFICATION FairSpec
CONSTANTS
  x1 = x1
  x2 = x2
  x3 = x3
  x4 = x4
  x5 = x5
  None = None
  Xfers = {x1, x2, x3}
  FineGrained = FALSE
  Channels = 3
  SlotsPerChannel = 1
  PendingDepth = 1
  LaunchTime = 1
  Dirs <- SendOnly
  Payloads = {1, 2}
  PortWidth <- UnitWidth
INVARIANT NoWorkLeftAsleep
PROPERTIES
  RoundRobin
  EveryTransferEnds
