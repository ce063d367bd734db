SPECIFICATION Spec
CONSTANTS
  o1 = o1
  o2 = o2
  u1 = u1
  c1 = c1
  c2 = c2
  Orders <- TwoOrders
  NoOrder = NoOrder
  Users <- OneUser
  Buyer <- OneBuyer
  Attributed <- OneUser
  Calls <- TwoCalls
  MaxNumbers = 2
  MaxTroubles = 1
CHECK_DEADLOCK FALSE
PROPERTIES
  AnsweredIsCredited
