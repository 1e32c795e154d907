SPECIFICATION RunsSpec
CONSTANTS
  r1 = r1
  r2 = r2
  u = u
  Requests = {r1}
  UserWallets = {u}
  TeamWallets = {}
  MaxCost = 1
  SignupCredits = 0
  MaxGrant = 1
  MaxGranted = 1
  NoTx = NoTx
  WalletOf <- OneWallet
  CostOf <- OneCredit
  Billable = {r1}
  MaxAttempts = 2
  MaxStalled = 1
INVARIANTS
  ExecutionsBounded
  ChargesBacked
  CompletedJobsSettled
PROPERTIES
  OnlyReexecutionReopens
  ImplementsLedger
  JobsEnd
  RequestsAnswered
CHECK_DEADLOCK FALSE
