SPECIFICATION FairSpec
CONSTANTS
  r1 = r1
  r2 = r2
  p1 = p1
  Relays <- TwoRelays
  P2Ps <- OneChannel
  TotalChunks = 8
  BatchSize = 3
  RelayBufHigh = 0
  P2PBufHigh = 1
  P2PBufLow = 0
  MayClose <- OneOfEach
  MayThrow <- OneOfEach
  MayFailRead <- OneOfEach
CHECK_DEADLOCK FALSE
INVARIANTS
  NoOverlap
  NoneForgotten
  SentCountIsExact
  CompletedMeansDrainedOrDead
PROPERTIES
  RetryServed
  TransferCompletes
  IsAChunkPool
