SPECIFICATION ServicesSpec
CONSTANTS
  c1 = c1
  c2 = c2
  Calls = {c1, c2}
  Nobody = Nobody
  MaxServed = 5
  MaxFaults = 1
  u1 = u1
  u2 = u2
  Owner = boss
  People = {boss, guest}
  Teams = {red, blue}
  Users = {seller, u1, u2}
  Seller = seller
  DailyLimit = 1
  Stars = {1, 2}
  MaxDay = 1
  Subscribers = {s}
  DayLimit = 2
  BurstLimit = 1
  free = free
  pro = pro
  big = big
  Plans = {free, pro, big}
  FreePlan = free
  MaxAgents <- Quotas
  Credits <- Bonuses
  Period = 1
  Grace = 1
  AgentIds = {1, 2, 3}
  MaxDays = 3
  Contents = {x, y}
  First = x
  VersionIds = {1, 2, 3, 4}
  Passwords = {p, q}
  Lifetime = 1
  MaxSecond = 2
  FlowRuns = {1, 2, 3}
  MaxSteps = 2
  Ttl = 2
  MaxTicks = 4
  Tools = {calculator, gmail, unknown}
  Registered = {calculator, gmail}
  Linked = {gmail}
  MaxIter = 3
  Members = 2
  Rounds = 2
  MaxCalls = 2
  MaxTokens = 1
  Undefined = Undefined
  EmptyId = EmptyId
  NoSchedule = NoSchedule
  MaxSchedules = 2
  Week = 2
  Long = 3
  Short = 2
  Patterns <- TimePatterns
  MaxStarts = 4
  MaxInstant = 7
SYMMETRY Alike
INVARIANTS
  KeysWithinDailyLimit
  QuietStatistics
  PeriodsBilledOnce
  CountersExpire
  UsageIsAccounted
  GrantsAreBacked
  QuotaHolds
  RollbacksLoseNothing
  SessionsFollowPassword
  WorkflowRunsSettle
  AdmissionsRest
  StaleAnswersExpire
  ResultsInOrder
  UsageAllOrNothing
  PageAgrees
CHECK_DEADLOCK FALSE
