SPECIFICATION MCSpec
CONSTANTS
  Users = {fay, ann}
  Founder = fay
  Stranger = stranger
  Nobody = Nobody
  TwoFactor = {fay}
  RowIds = {m0, n1, n2}
  FirstRow = m0
  Calls = {c1, c2, c3}
  Asked = {"OWNER", "ADMIN", "MEMBER"}
  MaxFaults = 1
  Requests = {c1, c2, c3}
  UserWallets = {u}
  TeamWallets = {t}
  MaxCost = 2
  SignupCredits = 2
  MaxGrant = 2
  MaxGranted = 2
  NoTx = NoTx
  SchedCalls = {c1, c2, c3}
  Firings = {n1, n2}
  Patterns = {daily, hourly}
  NoPattern = NoPattern
  MaxSchedFaults = 1
  MaxBusy = 2
SYMMETRY Alike
INVARIANTS
  SequentialOwnership
  SequentialInvites
  OwnersWereNamed
  Conservation
  BoundedOverdraft
  SequentialCalls
  FiringsBacked
  CountsBounded
  FaultFreeCounts
PROPERTIES
  StopsAdmitNone
CHECK_DEADLOCK FALSE
