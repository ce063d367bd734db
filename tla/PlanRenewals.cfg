SPECIFICATION FairSpec
CONSTANTS
  p1 = p1
  p2 = p2
  k1 = k1
  k2 = k2
  c1 = c1
  c2 = c2
  Plans <- TwoPlans
  NoPlan = NoPlan
  Charges <- TwoCharges
  NoCharge = NoCharge
  Calls <- TwoCalls
  MaxTroubles = 1
CHECK_DEADLOCK FALSE
INVARIANTS
  ExtendedOnce
  OneActivePlan
PROPERTIES
  
  CaptureIsPaidOrFailed
  LapsedIsFlipped
