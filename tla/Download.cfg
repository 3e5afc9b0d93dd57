SPECIFICATION FairSpec
CONSTANTS
  NoEntry = NoEntry
  NumChunks = 4
PROPERTIES
  IsADownload
  EntryIsReleased
  DownloadCompletes
CHECK_DEADLOCK FALSE
