SPECIFICATION Spec
CONSTANTS
  Frame = 2
  Lo = 4
  Nominal = 8
  Hi = 12
  MinTail = 2
  PerMs = 1
  WindowQueue = 2
  Packets <- MCLongPackets
  MaxSamples = 32
INVARIANT CutsInSilence
CHECK_DEADLOCK FALSE
