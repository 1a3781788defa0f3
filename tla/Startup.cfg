SPECIFICATION Spec

CONSTANTS
  Params <- MCParams
  MaxPort = 65535
  MaxInt = 655359
  Files <- MCFiles
  Lower <- LowerA
  Keys <- AllKeys
  Inputs <- MCInputs
  PoolSize = 2
  MaxRequests = 1
  MaxTraces = 1

INVARIANTS
  RefusalIsTold
  ReadAsWritten
  CrashIsReported
  HandledAsConfigured
PROPERTY LogIsWritten

\* The program has ended, or there are no more requests.
CHECK_DEADLOCK FALSE
