SPECIFICATION Spec
CONSTANTS
  j1 = j1
  s1 = s1
  s2 = s2
  Jobs <- OneJob
  Sessions <- TwoSessions
  NoSession = NoSession
  Charge <- OneCharge
  Phases = {main, mannequin}
  NoPhase = NoPhase
  MaxGeneration = 3
  MaxAttempts = 2
  MaxFailures = 1
CHECK_DEADLOCK FALSE
INVARIANTS
  MoneyFollowsOutcome
  OneOwnerPerGeneration
  IntentSentOnce
  OneIdleAttempt
PROPERTIES
  LeaseDiscipline
  KeepsContract
