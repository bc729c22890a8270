SPECIFICATION FairSpec
CONSTANTS
  Cores = {"A", "B"}
  Host = "host"
  Programs <- Striped
  BufferSize = 3
PROPERTY BusyEnds
CHECK_DEADLOCK FALSE
