CONSTANTS
  Requests <- SmallRequests
  BufSize = 3
  MaxContent = 2
  SizeModulus = 16

SPECIFICATION FairSpec

INVARIANTS
  ContentAccounting
PROPERTIES
  ImplementsExchange
  WellFormedAnswered
  GoneWhenPeerGone
  SpinsForever

\* A silent peer keeps its worker in recv; a destroyed connection rests.
CHECK_DEADLOCK FALSE
