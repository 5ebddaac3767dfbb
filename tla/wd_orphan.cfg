\* Two goroutines call Start.
SPECIFICATION Spec
CONSTANTS
  Starter = {owner, operator}
  Stopper = {owner}
  MaxRuns = 3
INVARIANT OneWatcher
