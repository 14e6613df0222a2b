SPECIFICATION Spec
CONSTANTS
  Jobs = {j1}
  NoJob = NoJob
  Options = {srt}
  Times = {1}
  MaxAttempts = 2
  MaxBatches = 1
  MaxWindows = 1
  MaxCalls = 1
  MaxStoreErrors = 0
  Clients = {c1}
  Patient = FALSE
  MaxCrashes = 0
  KeyStates = {TRUE}
INVARIANT CompletedIsItsOwnWork
