CONSTANTS
  n1 = n1
  n2 = n2
  del = del
  ret = ret
  d1 = d1
  d2 = d2
  u1 = u1
  Events <- MCEvents
  StatusOf <- MCStatusOf
  KindOf <- MCKindOf
  Deliveries <- MCDeliveries
  Stories <- MCStories
  StartStatus = "out_for_delivery"
  MaxAttempts = 2
  MaxFaults = 1
  Threshold = 2
  Updates <- MCUpdates
  Users <- MCUsers
SPECIFICATION FairSpec
INVARIANTS
  TypeOK
  ProcessedIsStored
  AttemptsLostOnlyToOverlap
  AutoReturnIsEarned
PROPERTIES
  ResolvedStaysResolved
  StatusChangesExplained
  AcceptedScanIsExamined
CHECK_DEADLOCK FALSE
