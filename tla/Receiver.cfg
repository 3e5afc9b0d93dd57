SPECIFICATION FairSpec
CONSTANTS
  TotalChunks = 8
  Modes = {"sw", "blob"}
CHECK_DEADLOCK FALSE
INVARIANTS
  InOrder
  Accounting
  SavedFileIsWhole
PROPERTIES
  NothingWrittenAfterTheEnd
  DownloadEnds
