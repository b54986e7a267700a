CONSTANTS
  x1 = x1
  x2 = x2
  s1 = s1
  s2 = s2
  t1 = t1
  Txns <- MCTxns
  Shipments <- MCShipments
  Scanned <- MCScanned
  Tickets <- MCTickets
  Issued = 1
  MaxYears = 2
  MaxFaults = 1
SPECIFICATION FairSpec
INVARIANTS
  TypeOK
  NumbersUnbroken
  DocumentsMatchShipments
  RefundedIsCredited
  LostOnlyToFirstNumber
  WaitsAreShort
PROPERTIES
  ImplementsNumbering
  TransactionsEnd
CHECK_DEADLOCK FALSE
