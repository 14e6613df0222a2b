SPECIFICATION FairSpec
CONSTANTS
  Jobs = {j1}
  NoJob = NoJob
  Options = {srt}
  Times = {1}
  MaxAttempts = 2
  MaxBatches = 1
  MaxWindows = 1
  MaxCalls = 1
  MaxStoreErrors = 1
  Clients = {c1, c2}
  Patient = FALSE
  MaxCrashes = 1
  KeyStates = {TRUE, FALSE}
INVARIANT TypeOK
INVARIANT PublishedMatchesRow
INVARIANT StampMeansFinished
INVARIANT NoLostWakeUp
INVARIANT RunningIsOwnedOrFaulted
PROPERTY TerminalIsFrozen
PROPERTY QueuedIsServed
PROPERTY EveryJobEnds
