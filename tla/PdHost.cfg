SPECIFICATION FairSpec
CONSTANT Setups <- MCSetups
INVARIANTS
  TypeOK
  DecodesAccounted
  ChunksAccounted
  MessagesInTurn
PROPERTY EveryRequestFinishes
CHECK_DEADLOCK FALSE
