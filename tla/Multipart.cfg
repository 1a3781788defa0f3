SPECIFICATION MultipartSpec

CONSTANTS
  Forms <- AllForms
  Others <- AllOthers

INVARIANTS
  PartsAreRead
  PartsWithinBody

\* The body is parsed.
CHECK_DEADLOCK FALSE
