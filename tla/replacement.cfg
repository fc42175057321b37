CONSTANTS
  c1 = c1
  c2 = c2
  c3 = c3
  a1 = a1
  f1 = f1
  f2 = f2
  g1 = g1
  g2 = g2
  g3 = g3
  e1 = e1
  e2 = e2
  q1 = q1
  q2 = q2
  Tasks = {c1, c2, c3, a1, f1, f2, g1, g2, g3, e1, e2, q1, q2}
  Scenarios <- MCScenarios
  Kind <- MCKind
  Key <- MCKey
  Framework <- MCFramework
  TasksOf <- MCTasksOf
  Manual <- MCManual
  Whole <- MCWhole
  MaxCalls <- MCMaxCalls
  Concurrency = 1
  MaxRetry = 1
  StoreFaults = TRUE
  Redis = "up"
SPECIFICATION Spec
INVARIANTS TypeOK NewestKept CancelledIsReplaced
PROPERTIES OwnTasksKept
CHECK_DEADLOCK FALSE
