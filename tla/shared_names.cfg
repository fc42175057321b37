CONSTANTS
  r1 = r1
  r2 = r2
  old = old
  Runs = {r1, r2}
  Leftovers = {old}
  Name <- SharedNames
  Stdin = {r1}
  MaxFaults = 1
SPECIFICATION Spec
PROPERTIES EvictsLeftovers
CHECK_DEADLOCK FALSE
