SPECIFICATION CanvasSpec
CONSTANTS
  Nothing = Nothing
  Canvases = {w1, w2}
  NodeIds = {n1, n2}
  TheFirst = w1
  ItsNode = n1
  MaxRuns = 1
INVARIANTS
  DeletedNodesGo
CHECK_DEADLOCK FALSE
