\* Two goroutines run the machine, one steps it, one resets it; no call begins
\* during a Step.  The error state has a handler of its own; stray has none.
SPECIFICATION FairApartSpec
CONSTANTS
  owner = owner
  helper = helper
  NoState = NoState
  State = {pick, fault, stray}
  Initial = pick
  Handled = {pick, fault}
  Terminal = {}
  ErrorState = fault
  EntryHooked = {pick, fault}
  ExitHooked = {pick}
  Caller = {owner, helper}
  Calls <- OwnerAndOperator
  MaxTime = 0
INVARIANTS NoStaleDispatch SurfacedErrorRecorded TransitionsAddUp RedirectDroppedOnlyByExitHook
PROPERTIES CancelledCallReturns RequestPickedUp
