SPECIFICATION Spec
CONSTANTS
  Kinds <- AllKinds
  MaxRetry = 2
  MaxFaults = 1
  MaxCrashes = 1
  MaxPRs = 2
  MaxTries = 2
  Cases = {c1, c2}
  Outputs <- MCOutputs
  Diff <- MCDiff
INVARIANTS TypeOK SucceededIsDelivered NothingRepeated ShownAsFiltered TransientIsRetried RowMatchesEntry
PROPERTIES NoFalseAlarm CodeReviewedOnce RepairIsAskedFor
CHECK_DEADLOCK FALSE
