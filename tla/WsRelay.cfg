SPECIFICATION FairSpec
CONSTANTS
  s1 = s1  x1 = x1  x2 = x2
  None = None
  Conns <- Reloaded
  Role <- RoleOf
  MsgCount = 2
INVARIANTS
  PanicNeedsSameRole
  DeliversPrefix
PROPERTIES
  AllDelivered
  BrokenRelayIsRemoved
CHECK_DEADLOCK FALSE
