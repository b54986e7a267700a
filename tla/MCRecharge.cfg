CONSTANTS
  o1 = o1
  o2 = o2
  h1 = h1
  h2 = h2
  NoHandler = NoHandler
  Orders <- MCOrders
  Handlers <- MCHandlers
  MaxRejected = 1
  MaxFaults = 1
SPECIFICATION FairSpec
INVARIANTS
  TypeOK
  CreditsBoundedByRejections
  SuccessIsCredited
PROPERTIES
  PaidIsCredited
  PlaceholderReleased
CHECK_DEADLOCK FALSE
