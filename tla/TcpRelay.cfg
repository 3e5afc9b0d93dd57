SPECIFICATION RelayFairSpec
CONSTANTS
  c1 = c1
  c2 = c2
  c3 = c3
  c4 = c4
  roomA = roomA
  roomB = roomB
  None = None
  Conns <- FourConns
  Rooms <- TwoRooms
  Room <- ThreeInA
CHECK_DEADLOCK FALSE
INVARIANTS
  PairingIsConsistent
  PairClosedByPipesOnly
PROPERTIES
  BrokenPairIsClosed
