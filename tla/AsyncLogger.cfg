CONSTANTS
  t1 = t1
  t2 = t2
  Threads <- TwoThreads
  MaxPushes = 4

SPECIFICATION FairSpec

INVARIANTS
  LossIsBounded
  NothingLostOnExit
PROPERTIES
  ImplementsLogFile
  MessagesReachFile
  ExitReturns

\* After ~Logger or abort() nothing happens any more.
CHECK_DEADLOCK FALSE
