SPECIFICATION PSpec
CONSTANTS
  Files = {1, 2}
  Paths = {1, 2, 3}
  CutTo <- LongPath
  Perms = {1}
  Ports = {1, 2}
  Backlog = 2
  MaxPushes = 3
INVARIANT
  VerdictHonest
PROPERTIES
  PushReturns
  DaemonReturns
CHECK_DEADLOCK FALSE
