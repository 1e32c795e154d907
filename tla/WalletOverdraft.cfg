SPECIFICATION WalletSpec
CONSTANTS
  Requests = {h1, h2}
  UserWallets = {u}
  TeamWallets = {t}
  MaxCost = 2
  SignupCredits = 2
  MaxGrant = 2
  MaxGranted = 2
  NoTx = NoTx
INVARIANT NeverOverdrawn
CHECK_DEADLOCK FALSE
