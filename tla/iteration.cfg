CONSTANTS
  Reviews = {1, 2, 3}
  Sessions = {1, 2}
  MaxRounds = 2
  MaxAttempts = 3
  Flaky <- FirstRepair
  MaxFaults = 1
  Fails <- Failing
  BotLogin = TRUE
  Prompt = TRUE
SPECIFICATION Spec
CONSTRAINT TwoReviewsAfterFault
INVARIANTS TypeOK RepairIsSettled OneRepair
PROPERTIES ImplementsRounds
CHECK_DEADLOCK FALSE
