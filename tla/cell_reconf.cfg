\* One Reconfigure, and the loop it stopped gets to Run before the one it starts.
SPECIFICATION FairCellSpec
CONSTANTS
  Loop = {l1, l2}
  Manager = {m1}
  Operator = {}
  User = {l1, l2, m1}
  MaxCtx = 2
PROPERTY FreshLoopStarts
