SPECIFICATION PartsSpec
CONSTANTS
  r1 = r1
  r2 = r2
  u = u
  Requests = {r1, r2}
  UserWallets = {u}
  TeamWallets = {}
  MaxCost = 1
  SignupCredits = 1
  MaxGrant = 1
  MaxGranted = 1
  NoTx = NoTx
  WalletOf <- OneWallet
  CostOf <- OneCredit
  Billable = {r1}
  MaxAttempts = 1
  MaxStalled = 0
  MaxClicks = 9
  ApiCalls = {q1, q2, q3}
  MaxRequests = 5
  MaxExpiries = 2
  Nothing = Nothing
  Canvases = {w1, w2}
  NodeIds = {n1, n2}
  TheFirst = w1
  ItsNode = n1
  MaxRuns = 1
  MaxEdits = 2
  ChangeIds = {c1, c2}
SYMMETRY Alike
INVARIANTS
  ChargedOnce
  AnsweredRunsSettled
  RunnerProceeds
  SubscribersResume
  OnlyRunsTakeBack
  ViewsFollow
PROPERTIES
  ImplementsWallet
CHECK_DEADLOCK FALSE
