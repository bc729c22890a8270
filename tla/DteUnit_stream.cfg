SPECIFICATION StreamSpec
PROPERTY EveryTransferEnds
CONSTANTS
  x1 = x1
  x2 = x2
  x3 = x3
  x4 = x4
  x5 = x5
  None = None
  Xfers = {x1, x2, x3, x4, x5}
  FineGrained = TRUE
  Channels = 2
  SlotsPerChannel = 2
  PendingDepth = 1
  LaunchTime = 0
  Dirs <- SendOnly
  Payloads = {2}
  PortWidth <- UnitWidth
