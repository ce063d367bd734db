SPECIFICATION FairSpec
CONSTANTS
  w1 = w1
  w2 = w2
  a1 = a1
  a2 = a2
  b1 = b1
  c1 = c1
  Workers <- TwoWorkers
  Jobs <- FourJobs
  Lanes <- OneLane
  LaneOf <- AllGpu
  PoolOf <- TwoPools
  Serves <- ServesBoth
  Rank <- OneSlow
  Arrival <- ByName
  Cap <- ThreeSlots
  MaxParked = 2
  LeftOver <- OnlyA1
  Cancellable <- OnlyA2
  Overdue <- OnlyC1
  NoWorker = NoWorker
INVARIANTS
  ParkedTypeOK
  OneHeadPerPool
  WokenWhenReady
  LaneWithinBound
  RenewedIsHeld
PROPERTIES
  EveryJobEnds
