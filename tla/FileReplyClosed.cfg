CONSTANTS
  f1 = f1
  d1 = d1
  none = none
  Files <- OneFile
  Dirs <- OneDir
  NoObject <- none
  Contents <- SmallContents
  Listings <- SmallListings
  ReadSize = 4
  SendSize = 3
  MaxChanges = 1

SPECIFICATION Spec

INVARIANT ErrorIsNotClosed

CHECK_DEADLOCK FALSE
