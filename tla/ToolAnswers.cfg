SPECIFICATION LoopSpec
CONSTANTS
  Tools = {calculator, gmail, unknown}
  Registered = {calculator, gmail}
  Linked = {gmail}
  MaxIter = 3
  Members = 2
  Rounds = 2
  MaxCalls = 2
  MaxTokens = 1
  Undefined = Undefined
  EmptyId = EmptyId
INVARIANT AnswersNameCalls
CHECK_DEADLOCK FALSE
