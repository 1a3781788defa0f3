CONSTANTS
  Methods <- SmallMethods
  Urls <- SmallUrls
  Versions <- SmallVersions
  Names <- SmallNames
  Values <- SmallValues
  Bodies <- SmallBodies
  MaxLines = 2
  MaxText = 6
  Texts = {"a", "A", "1", ":", "HI", " "}

SPECIFICATION ReadingSpec

INVARIANTS
  AcceptedIsText
  FirstLineCounts
  MeansWhatWasSent

\* After a verdict no more is read.
CHECK_DEADLOCK FALSE
