SPECIFICATION Spec
CONSTANTS
  TotalChunks = 2
  Modes = {"sw", "blob"}
CHECK_DEADLOCK FALSE
INVARIANTS
  StreamHasEveryChunk
