CONSTANTS
  Tasks = {t1, t2}
  Handlers = {h1, h2}
  Workers = {w1}
  NoTask = NoTask
  MaxRetry = 2
  StoreFaults = FALSE
  Redis = "up"
  SlowHandlers = FALSE
  LateHandlers = FALSE
  MaxDeliveries = 1
  MaxManual = 1
  MaxRestarts = 0
SPECIFICATION Spec
SYMMETRY Symmetry
INVARIANTS CancelledIsSuperseded
PROPERTIES SettledUnlessRetried
CHECK_DEADLOCK FALSE
