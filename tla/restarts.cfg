CONSTANTS
  Tasks = {t1}
  Handlers = {h1}
  Workers = {w1, w2}
  NoTask = NoTask
  MaxRetry = 1
  StoreFaults = FALSE
  Redis = "flaky"
  SlowHandlers = FALSE
  LateHandlers = TRUE
  MaxDeliveries = 1
  MaxManual = 0
  MaxRestarts = 1
SPECIFICATION FairSpec
INVARIANT OneHandlerPerTask
PROPERTIES PendingEnds
CHECK_DEADLOCK FALSE
