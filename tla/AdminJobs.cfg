SPECIFICATION AdminSpec
CONSTANTS
  j1 = j1
  s1 = s1
  Jobs <- OneJob
  Sessions <- OneSession
  NoSession = NoSession
  Charge <- OneCharge
  Phases = {main}
  NoPhase = NoPhase
  MaxGeneration = 2
  MaxAttempts = 2
  MaxFailures = 1
  MaxRetries = 2
  MayStop = TRUE
CHECK_DEADLOCK FALSE
INVARIANTS
  GuardedRefundsExclude
PROPERTIES
  FinishedUntilRetried
