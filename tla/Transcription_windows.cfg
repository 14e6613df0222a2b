SPECIFICATION FairSpec
CONSTANTS
  Frame = 4
  Lo = 4
  Nominal = 6
  Hi = 12
  MinTail = 2
  PerMs = 2
  WindowQueue = 2
  Packets <- MCPackets
  MaxSamples = 30
INVARIANT TypeOK
INVARIANT WindowsAreTheAudio
INVARIANT WindowBounds
INVARIANT NothingIsLost
INVARIANT DecoderIsBounded
PROPERTY EveryTaskEnds
CHECK_DEADLOCK FALSE
