CONSTANTS
  o1 = o1
  o2 = o2
  r1 = r1
  r2 = r2
  NoRequest = NoRequest
  Orders <- MCOneOrder
  Requests <- MCRequests
  Rate <- MCOneRate
  Funds = 2
  Limit = 2
  MaxOrphans = 2
SPECIFICATION FairSpec
INVARIANTS
  ChargedOncePerShipment
  RefundsBoundedByOverlap
  RefundedIsCancelledAtCourier
  WaitsEndOrAreBroken
PROPERTY RequestsEnd
CHECK_DEADLOCK FALSE
