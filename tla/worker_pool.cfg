CONSTANTS
  r1 = r1
  r2 = r2
  old = old
  Runs = {r1}
  Leftovers = {old}
  Name <- DistinctNames
  Stdin = {r1}
  MaxFaults = 1
SPECIFICATION FairSpec
INVARIANTS TypeOK ClientOpenWhileRunning ReportsAreTrue
PROPERTIES RunningIsKept EveryCallReturns LeftoversCollected
CHECK_DEADLOCK FALSE
