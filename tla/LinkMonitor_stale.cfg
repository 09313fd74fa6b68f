SPECIFICATION Spec
CONSTANTS
  Half = 8
  Win = 4
  MinSpan = 64
  DensityDiv = 8
  QueueLen = 2
  PoolSize = 2
  LowWater = 1
  U8 = 256
  Failures = {"open"}
  MaxFrames = 2
  MaxOther = 0
  MaxSessions = 2
INVARIANT
  NoStaleIngest
CHECK_DEADLOCK FALSE
