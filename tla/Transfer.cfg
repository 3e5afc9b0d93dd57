SPECIFICATION FairSpec
CONSTANTS
  r0 = r0
  r1 = r1
  p0 = p0
  Control = Control
  Relays <- TwoRelays
  P2Ps <- OneChannel
  Relay0 <- r0
  Channel0 <- p0
  TotalChunks = 3
  BatchSize = 2
  RelayBufHigh = 0
  P2PBufHigh = 1
  P2PBufLow = 0
  MayClose <- OneRelay
  MayThrow <- OneChannel
  MayFailRead <- OtherRelay
  Modes = {"sw", "blob"}
CHECK_DEADLOCK FALSE
INVARIANTS
  EachChunkTravelsOnce
PROPERTIES
  IsAFileTransfer
  BothComplete
