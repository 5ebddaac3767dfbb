\* Plans chained and previewed; the default cap is three points.
SPECIFICATION Spec
CONSTANTS
  NoJoints = NoJoints
  Config = {home, mid, reach}
  Unsolved = {reach}
  MaxPointsArg = {0, 2}
  DefaultEEPointDownsample = 3
  MaxSteps = 5
INVARIANTS TypeOK StartsAsAsked SceneIsShown PreviewFollowsPath
PROPERTY NilStartIsCurrent
