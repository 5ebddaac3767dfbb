\* Run and Step from different goroutines, with a clock; errors surface.
SPECIFICATION Spec
CONSTANTS
  owner = owner
  helper = helper
  NoState = NoState
  State = {pick, place}
  Initial = pick
  Handled = {pick}
  Terminal = {place}
  ErrorState = NoState
  EntryHooked = {pick}
  ExitHooked = {}
  Caller = {owner, helper}
  Calls <- RunAndStep
  MaxTime = 1
INVARIANTS TypeOK HistoryAgrees
PROPERTIES RequestKeptUntilTaken CycleClock KeepsContract
