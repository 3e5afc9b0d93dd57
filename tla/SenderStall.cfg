SPECIFICATION FairSpec
CONSTANTS
  r1 = r1
  r2 = r2
  p1 = p1
  Relays <- TwoRelays
  P2Ps <- NoStream
  TotalChunks = 4
  BatchSize = 2
  RelayBufHigh = 0
  P2PBufHigh = 1
  P2PBufLow = 0
  MayClose <- OneRelay
  MayThrow <- NoStream
  MayFailRead <- NoStream
CHECK_DEADLOCK FALSE
PROPERTIES
  NoStallWhileOneStreamLives
