CONSTANTS
  w1 = w1
  w2 = w2
  w3 = w3
  Workers <- ThreeWorkers
  MaxTasks = 6
  Stuck <- TwoStuck

SPECIFICATION FairSpec

INVARIANTS
  NoLostWakeup
  DrainedWhenStopped
PROPERTIES
  ImplementsFifoPool
  ShutdownReturns
  AcceptedTasksStart

\* A stuck task keeps shutdown() in join for ever.
CHECK_DEADLOCK FALSE
