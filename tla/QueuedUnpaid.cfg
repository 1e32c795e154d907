SPECIFICATION Spec
CONSTANTS
  r1 = r1
  r2 = r2
  u = u
  Requests = {r1}
  UserWallets = {u}
  TeamWallets = {}
  MaxCost = 1
  SignupCredits = 1
  MaxGrant = 1
  MaxGranted = 0
  NoTx = NoTx
  WalletOf <- OneWallet
  CostOf <- OneCredit
  Billable = {r1}
  MaxAttempts = 1
  MaxStalled = 0
INVARIANT QueuedRunsPrepaid
CHECK_DEADLOCK FALSE
