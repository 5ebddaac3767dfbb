\* Joints in steps of a quarter turn; the offsets are arbitrary.
SPECIFICATION Spec
CONSTANTS
  HalfTurn = 2
  BaseOffset = 1
  YawOffset = 3
  NoJoints = NoJoints
  NoPose = NoPose
INVARIANTS TypeOK OnGoal
PROPERTY BaseTakesShortestWay
