CONSTANTS
  w1 = w1
  w2 = w2
  f1 = f1
  f2 = f2
  f3 = f3
  Workers <- TwoWorkers
  Fds <- ThreeFds
  MaxConns = 5
  Backlog = 2
  StuckConns <- SecondStuck

SPECIFICATION ServerFairSpec

INVARIANTS
  DescriptorIsOwn
  NoLeak
PROPERTIES
  ConnectionsEnd
  PeersAccepted

\* The peers may all be served, or the process may have died.
CHECK_DEADLOCK FALSE
