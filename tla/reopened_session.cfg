CONSTANTS
  Reviews = {1, 2}
  Sessions = {1, 2}
  MaxRounds = 2
  MaxAttempts = 2
  Flaky <- FirstRepair
  MaxFaults = 0
  Fails <- Failing
  BotLogin = TRUE
  Prompt = TRUE
SPECIFICATION Spec
PROPERTIES CompletedStays
CHECK_DEADLOCK FALSE
