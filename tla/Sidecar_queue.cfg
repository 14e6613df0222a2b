SPECIFICATION FairSpec
CONSTANTS
  Jobs = {j1, j2}
  NoJob = NoJob
  Options = {srt}
  Times = {1}
  MaxAttempts = 1
  MaxBatches = 1
  MaxWindows = 1
  MaxCalls = 1
  MaxStoreErrors = 0
  Clients = {c1}
  Patient = TRUE
  MaxCrashes = 0
  KeyStates = {TRUE}
PROPERTY FairLifecycle
