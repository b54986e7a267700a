CONSTANTS
  t1 = t1
  t2 = t2
  s1 = s1
  s2 = s2
  NoSession = NoSession
  Tenants <- MCTenants
  WalletRows <- MCRows
  Sessions <- MCSessions
  Amounts <- MCAmounts
  MaxBalance = 3
  MaxEntries = 3
SPECIFICATION FairSpec
INVARIANTS
  TypeOK
  LedgerExplainsBalance
  CheckedBookingIsCovered
PROPERTIES
  ImplementsLedger
  SessionsEnd
CHECK_DEADLOCK FALSE
