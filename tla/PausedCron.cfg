SPECIFICATION SchedSpec
CONSTANTS
  SchedCalls = {c1, c2, c3, c4}
  Firings = {f1}
  Patterns = {daily}
  NoPattern = NoPattern
  MaxSchedFaults = 0
SYMMETRY SchedSymmetry
INVARIANT PausedHasNoCron
CHECK_DEADLOCK FALSE
