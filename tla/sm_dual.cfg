\* A Step that checked for a Run just before one starts.
SPECIFICATION Spec
CONSTANTS
  owner = owner
  helper = helper
  NoState = NoState
  State = {pick, place}
  Initial = pick
  Handled = {pick}
  Terminal = {place}
  ErrorState = place
  EntryHooked = {}
  ExitHooked = {}
  Caller = {owner, helper}
  Calls <- RunAndStep
  MaxTime = 0
INVARIANT RunStepExclusive
