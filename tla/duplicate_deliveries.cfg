CONSTANTS
  Tasks = {t1}
  Handlers = {h1, h2}
  Workers = {w1}
  NoTask = NoTask
  MaxRetry = 2
  StoreFaults = TRUE
  Redis = "flaky"
  SlowHandlers = TRUE
  LateHandlers = FALSE
  MaxDeliveries = 2
  MaxManual = 1
  MaxRestarts = 0
SPECIFICATION Spec
SYMMETRY Symmetry
INVARIANTS TypeOK RowBeforeEntry RecoveredOnce
CHECK_DEADLOCK FALSE
