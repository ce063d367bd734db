SPECIFICATION FairSpec
CONSTANTS
  r1 = r1
  r2 = r2
  c1 = c1
  c2 = c2
  Rows <- TwoRows
  NoRow = NoRow
  Calls <- TwoCalls
  MaxSubs = 2
  MaxDips = 2
  MaxLost = 2
CHECK_DEADLOCK FALSE
INVARIANTS
  OneChargePerDip
  BooksAgree
PROPERTIES
  RefillsResume
