CONSTANTS
  o1 = o1
  o2 = o2
  r1 = r1
  r2 = r2
  NoRequest = NoRequest
  Orders <- MCOrders
  Requests <- MCRequests
  Rate <- MCRate
  Funds = 2
  Limit = 1
  MaxOrphans = 1
SPECIFICATION Spec
SYMMETRY MCSymmetry
INVARIANTS
  TypeOK
  UsageWithinLimit
PROPERTY ImplementsAccounts
CHECK_DEADLOCK FALSE
