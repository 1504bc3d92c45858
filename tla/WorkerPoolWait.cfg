SPECIFICATION FairSpec
CONSTANTS
  j1 = j1
  j2 = j2
  j3 = j3
  NumWorkers = 2
  Jobs = {j1, j2, j3}
  NoJob = NoJob
  Rounds <- MCRounds
  MaxRounds = 2
  MaxCrashes = 1
PROPERTY WaitReturns
CHECK_DEADLOCK FALSE
