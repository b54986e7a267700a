CONSTANTS
  o1 = o1
  o2 = o2
  r1 = r1
  r2 = r2
  NoRequest = NoRequest
  Orders <- MCOneOrder
  Requests <- MCRequests
  Rate <- MCOneRate
  Funds = 1
  Limit = 1
  MaxOrphans = 1
SPECIFICATION Spec
INVARIANT CancelledIsReshippable
CHECK_DEADLOCK FALSE
