CONSTANTS
  Reviews = {1, 2}
  Sessions = {1, 2}
  MaxRounds = 2
  MaxAttempts = 2
  Flaky <- FirstRepair
  MaxFaults = 1
  Fails <- Failing
  BotLogin = TRUE
  Prompt = TRUE
SPECIFICATION Spec
PROPERTIES FailedIsOver
CHECK_DEADLOCK FALSE
