SPECIFICATION FairSpec
CONSTANTS
  NumStreams = 2
  TotalChunks = 5
INVARIANTS
  TypeOK
  EachChunkOnce
PROPERTIES
  NobodyHangs
  TransferFinishes
CHECK_DEADLOCK FALSE
