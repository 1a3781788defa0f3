CONSTANTS
  f1 = f1
  d1 = d1
  none = none
  Files <- OneFile
  Dirs <- OneDir
  NoObject <- none
  Contents <- SmallContents
  Listings <- SmallListings
  ReadSize = 4
  SendSize = 3
  MaxChanges = 2

SPECIFICATION FairSpec

INVARIANTS
  Intelligible
  FailureIsVisible
  DownloadIsFile
  FileIsClosed
PROPERTY HandlerReturns

\* The handler returns, or the peer has stopped reading.
CHECK_DEADLOCK FALSE
