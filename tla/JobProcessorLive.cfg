SPECIFICATION FairProcSpec
CONSTANTS
  j1 = j1
  s1 = s1
  s2 = s2
  h1 = h1
  h2 = h2
  boxA = boxA
  boxB = boxB
  Jobs <- OneJob
  Sessions <- TwoSessions
  Handlers <- OneHandler
  Host <- OwnHosts
  NoSession = NoSession
  Charge <- OneCharge
  Phases = {main}
  Main = main
  NoPhase = NoPhase
  MaxGeneration = 3
  MaxAttempts = 3
  MaxFailures = 3
  MaxEntries = 3
  RetryBudget = 2
  MaxFaults = 1
CHECK_DEADLOCK FALSE
PROPERTIES
  UsesControl
  EnqueuedJobEnds
