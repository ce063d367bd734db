SPECIFICATION Spec
CONSTANTS
  w1 = w1
  j1 = j1
  Workers <- OneWorker
  NoWorker = NoWorker
  Jobs <- OneJob
  NoJob = NoJob
  MaxAttempts = 2
  MaxGeneration = 2
  MaxCalls = 2
  Troubles <- Takeovers
  MaxTroubles = 1
CHECK_DEADLOCK FALSE
INVARIANTS
  ResvTypeOK
  HeldWhileRemote
  ResolvedIsOver
PROPERTIES
  OnePromptPerWorker
