CONSTANTS
  t1 = t1
  s1 = s1
  c1 = c1
  c2 = c2
  x1 = x1
  NoSession = NoSession
  Tenants <- MCTenants
  WalletRows <- MCTenants
  Sessions <- MCSessions
  Confirmers <- MCConfirmers
  Recharges <- MCRecharges
  RechargeTenant <- MCTenantOf
  RechargeAmount <- MCAmountOf
  Amounts <- MCAmounts
  MaxBalance = 4
  MaxEntries = 4
  MaxFailed = 0
SPECIFICATION GSpec
INVARIANT LockPreventsConcurrentUpdates
CHECK_DEADLOCK FALSE
