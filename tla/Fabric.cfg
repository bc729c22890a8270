SPECIFICATION FairSpec
CONSTANTS
  Links <- MCLinks
  Groups <- MCGroups
  GroupOf <- MCGroupOf
  LinkOrder <- MCLinkOrder
  None = None
  Flows <- MCFlows
  Packets <- MCPackets
  Path <- MCPath
  SafDepth = 6
  Latency = 1
  DataDepth = 2
  RxDepth = 1
  CtrlDepth = 2
  PortRate <- MCPortRate
  LinkRate <- MCLinkRate
  Routers <- MCRouters
  Edges <- MCEdges
  Source <- MCSource
  Target <- MCTarget
  Center = "core"
  InOrder <- MCInOrder
  NextHop <- MCNextHop
  MemTile = "C"
  BufDepth = 3
  Programs <- MCPrograms
  ReqFlits = 5
  RspFlits = 2
  CompletedDepth = 1
INVARIANTS
  TypeOK
  NoFault
  LedgerBalanced
  CreditsConserved
  TrafficIsReserved
  FlowsLeaveWhole
  LocksMatchFlows
  MemFlitsConserved
PROPERTY EverythingDrains
CHECK_DEADLOCK FALSE
