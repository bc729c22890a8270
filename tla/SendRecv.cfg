SPECIFICATION FairSpec
CONSTANTS
  Cores = {"A", "B", "C"}
  Host = "host"
  Programs <- MCPrograms
  BufferSize = 2
INVARIANTS
  TypeOK
  NoFault
  PhasesInOrder
PROPERTY EveryProgramEnds
CHECK_DEADLOCK FALSE
