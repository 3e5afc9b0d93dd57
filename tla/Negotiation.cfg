SPECIFICATION FairSpec
CONSTANTS
  NumP2P = 2
  OfferCalls = 1
  CandCount = 1
CHECK_DEADLOCK FALSE
INVARIANTS
  TypeOK
  EndsBelongTogether
  NoCandidateLost
PROPERTIES
  EveryPairNegotiates
