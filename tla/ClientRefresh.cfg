SPECIFICATION FairClientSpec
CONSTANTS
  ApiCalls = {r1, r2}
  MaxRequests = 3
  MaxExpiries = 1
PROPERTY RequestsSettle
CHECK_DEADLOCK FALSE
