\* One goroutine starts the watchdog, two stop it; it stops for good once MaxRuns is used up.
SPECIFICATION FairSpec
CONSTANTS
  Starter = {owner}
  Stopper = {owner, operator}
  MaxRuns = 3
INVARIANTS TypeOK OneWatcher RunningAgrees
PROPERTIES StopSettles OnFailOnce CallsReturn CancelledRunEnds
