CONSTANTS
  Tasks = {t1, t2}
  Handlers = {h1}
  Workers = {w1}
  NoTask = NoTask
  MaxRetry = 2
  StoreFaults = FALSE
  Redis = "up"
  SlowHandlers = FALSE
  LateHandlers = FALSE
  MaxDeliveries = 1
  MaxManual = 0
  MaxRestarts = 0
SPECIFICATION FairSpec
INVARIANTS RetryingIsScheduled
PROPERTIES ExecutionsEnd
CHECK_DEADLOCK FALSE
