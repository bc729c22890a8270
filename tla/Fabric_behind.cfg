SPECIFICATION FairSpec
CONSTANTS
  Links <- MCLinks
  Groups <- MCGroups
  GroupOf <- MCGroupOf
  LinkOrder <- MCLinkOrder
  None = None
  Flows <- MCFlows
  Packets <- MCPackets
  Path <- MCPath
  SafDepth = 7
  Latency = 1
  DataDepth = 2
  RxDepth = 1
  CtrlDepth = 2
  PortRate <- MCPortRate
  LinkRate <- SlowRate
  Routers <- MCRouters
  Edges <- MCEdges
  Source <- MCSource
  Target <- MCTarget
  Center = "core"
  InOrder <- MCInOrder
  NextHop <- MCNextHop
  MemTile = "C"
  BufDepth = 3
  Programs <- BehindData
  ReqFlits = 5
  RspFlits = 2
  CompletedDepth = 1
PROPERTY AccessesEnd
CHECK_DEADLOCK FALSE
