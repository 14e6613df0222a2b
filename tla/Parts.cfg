SPECIFICATION Spec
CONSTANTS
  k1 = k1
  k2 = k2
  k3 = k3
  CustodyKeys = {k1, k2, k3}
  Procs = {"core", "peer"}
  CustodyEnvKey = k3
  Bundles <- MCBundles
  Folders <- MCFolders
  MAX_RETIRED_KEYS = 2
  MaxFaults = 1
  MaxCustodyRuns = 2
  AppKeys = {k1, k2, k3, k4}
  AppEnvKey = k3
  MaxAppRuns = 4
  PluginKeys = {k1, k2, k3, k4, k5}
  Masters = {k1, k2}
  CoreKey = k3
  PluginProcs = {"main", "other", "second"}
  Mains = {"main", "other"}
  MaxPluginRuns = 4
  ValueStores <- MCValueStores
  ValueProcs = {"a", "b"}
  ValueTexts <- MCValueTexts
  ValueIds = {"mail", "gateway", "acme"}
  MaxValueKey = 2
  MaxValueWrites = 2
  Plans <- MCPlans
  NumRows = 2
  BATCH_SIZE = 1
  Ciphers <- MCCiphers
  Words = {"note"}
  Texts <- MCTexts
  MaxWrites = 1
  Legacy <- MCLegacy
  CompactedStores = {"s1", "s2"}
  MaxDefers = 3
  MaxRecords = 3
  MaxKey = 2
  MaxLogCrashes = 2
  CHUNK = 2
  TAG_LEN = 2
  MaxLen = 3
  Sealers = {"a", "b", "c"}
  MaxCrashes = 1
  Partitions = {"p", "q"}
  Ids = {1, 2}
  LIMIT = 1
  MaxChanges = 2
  MaxWire = 4
  TIMEOUT_MARGIN = 2
  MAX_TIMEOUT = 2
  ClientBound = 2
  CorePort = 1
  BATCH = 2
  NumCues = 3
  BUDGET = 2
  MAX_CUE_MS = 4
  MIN_CUE_MS = 3
  CUE_GAP_MS = 1
  WindowMs = 5
  NumWindows = 2
  Segments <- MCSegments
  TARGET_RATE = 2
  Rates = {1, 2, 3, 5}
  MaxPacket = 3
  MaxFed = 6
  Fields = {"language", "format", "engine"}
  Puts = {1, 2}
INVARIANTS
  TypeOK
  MasterKeysAreKept
  AppKeysAreKept
  OneKeySealsThePluginsData
  SealedValueIsSound
  ServedSealed
  ReadsBack
  OneCipherOpensAll
  OkMeansScrubbed
  QueuedJobsHaveAWorker
  SyncedRecordsAreKept
  SealedFileIsWhole
  VectorsAreAccounted
  StreamIsWhole
  AnswersAreHonest
  TranslationsAreInPlace
  SubtitlesAreInPlace
  UnnamedIsKept
PROPERTIES
  ForeignStoreIsKept
\* Every part is bounded and stops at its bounds.
CHECK_DEADLOCK FALSE
