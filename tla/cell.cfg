\* Two goroutines in Reconfigure or Close, two for loops, one operator, three loop contexts.
SPECIFICATION FairCellSpec
CONSTANTS
  Loop = {l1, l2}
  Manager = {m1, m2}
  Operator = {operator}
  User = {l1, l2, m1, m2, operator}
  MaxCtx = 3
INVARIANTS CellTypeOK NoLiveOrphan ClosedIsFinal
PROPERTIES CloseEndsOperations RefusedByUnwinding TeardownReturns
