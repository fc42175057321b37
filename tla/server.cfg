SPECIFICATION Spec
CONSTANTS
  Procs <- MCProcs
  Repos <- MCRepos
  Files <- MCFiles
  EnvOnly <- MCEnvOnly
  Tasks <- MCTasks
  Plans <- MCPlans
INVARIANTS TypeOK UpgradesAreSafe ClosedWhenUnused ConfigInForce TasksRunAsConfigured MessagesArrive
PROPERTIES SignalStops ReloadCatchesUp
CHECK_DEADLOCK FALSE
