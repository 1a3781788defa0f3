SPECIFICATION BrowsingSpec

CONSTANTS
  Roots <- MCRoots
  Trees <- MCTrees
  StartUrls <- MCStartUrls
  FileNames <- MCFileNames

INVARIANTS
  PageIsOfUrl
  UploadIsListed
  TypeIsOfName

\* The peer has no link to follow.
CHECK_DEADLOCK FALSE
