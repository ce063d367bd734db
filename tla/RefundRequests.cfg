SPECIFICATION RefundSpec
CONSTANTS
  j1 = j1
  j2 = j2
  Jobs <- TwoJobs
  Price <- TwoCharges
  DailyCap = 1
INVARIANTS
  RefundedOnce
PROPERTIES
  RefundsUntakenOnly
  DecisionIsFinal
