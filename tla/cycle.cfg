\* Windows of four cycles that fill, roll over and are reset.
SPECIFICATION Spec
CONSTANTS
  Window = 4
  MaxTime = 9
  MaxCycles = 6
INVARIANTS TypeOK WindowIsLatest StatsDescribe
