SPECIFICATION Spec
CONSTANTS
  Jobs = {j1}
  NoJob = NoJob
  Options = {srt}
  Times = {1}
  MaxAttempts = 2
  MaxBatches = 2
  MaxWindows = 2
  MaxCalls = 2
  MaxStoreErrors = 0
  Clients = {c1, c2}
  Patient = TRUE
  MaxCrashes = 1
  KeyStates = {TRUE}
SYMMETRY Symmetry
INVARIANT CompletedIsItsOwnWork
INVARIANT CancelIsObeyed
INVARIANT OutcomeIsAnnounced
PROPERTY Lifecycle
