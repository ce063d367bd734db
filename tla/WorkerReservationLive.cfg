SPECIFICATION FairSpec
CONSTANTS
  w1 = w1
  j1 = j1
  Workers <- OneWorker
  NoWorker = NoWorker
  Jobs <- OneJob
  NoJob = NoJob
  MaxAttempts = 1
  MaxGeneration = 2
  MaxCalls = 2
  Troubles <- Kinds
  MaxTroubles = 1
CHECK_DEADLOCK FALSE
PROPERTIES
  CapacityReturns
