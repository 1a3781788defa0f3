SPECIFICATION Spec

CONSTANTS
  f = f
  g = g
  w1 = w1
  w2 = w2
  Workers <- TwoWorkers
  NoName = NoName
  Hole = Hole
  MaxSize = 3
  Names <- MCNames
  Requests <- MCRequests

SYMMETRY Symmetry

INVARIANTS
  SoleUploadIsStored
  UploadedWhenAnswered
  QuietDownloadIsFile
