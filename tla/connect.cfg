SPECIFICATION FairConnectSpec
CONSTANTS
  Draws = {0, 2, 4, 254}
  Passes = 2
  SnrmTries = 3
  MaxRuns = 3
  MaxPolls = 1
  MaxLosses = 2
  Capacity = 6
  Behind = 2
  AnswersAgain = TRUE
INVARIANTS OwnAnswersOnly HandsOverFreshLink FailsOnlyIfRefused
PROPERTIES ConnectReturns
CHECK_DEADLOCK FALSE
