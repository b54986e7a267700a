CONSTANTS
  o1 = o1
  o2 = o2
  h1 = h1
  h2 = h2
  NoHandler = NoHandler
  Orders <- MCOneOrder
  Handlers <- MCHandlers
  MaxRejected = 1
  MaxFaults = 0
SPECIFICATION Spec
INVARIANT CreditedAtMostOnce
CHECK_DEADLOCK FALSE
