SPECIFICATION Spec
CONSTANTS
  Half = 8
  Win = 4
  MinSpan = 64
  DensityDiv = 8
  QueueLen = 1
  PoolSize = 2
  LowWater = 1
  U8 = 2
  Failures = {"open", "create"}
  MaxFrames = 3
  MaxOther = 1
  MaxSessions = 2
INVARIANTS
  TypeOK
  CsvOutlivesDrainer
  FreshCaptures
  LeakFree
  CleanRowsAreLinkLoss
PROPERTY
  CommandReturns
CHECK_DEADLOCK FALSE
