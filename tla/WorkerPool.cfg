SPECIFICATION FairSpec
CONSTANTS
  j1 = j1
  j2 = j2
  j3 = j3
  NumWorkers = 3
  Jobs = {j1, j2, j3}
  NoJob = NoJob
  Rounds <- MCRounds
  MaxRounds = 2
  MaxCrashes = 1
INVARIANTS TypeOK NobodyIdle
PROPERTIES BoardSpec WaitReturnsWithoutFault ShutdownEnds
CHECK_DEADLOCK FALSE
