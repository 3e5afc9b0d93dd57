SPECIFICATION FairSpec
CONSTANTS
  s1 = s1  s2 = s2  x1 = x1
  None = None
  Posted = Posted
  Conns <- TwoSenders
  Role <- RoleOf
  RoomCreated = TRUE
  MsgCount <- Count
INVARIANTS
  NoNilPeer
  ForwardedInOrder
PROPERTIES
  MeetAndTalk
  LeavingIsNoticed
CHECK_DEADLOCK FALSE
