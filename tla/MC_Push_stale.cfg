SPECIFICATION PSpec
CONSTANTS
  Files = {1, 2}
  Paths = {1, 2}
  CutTo <- NoCut
  Perms = {0}
  Ports = {1, 2}
  Backlog = 2
  MaxPushes = 2
INVARIANT
  DaemonWritesWhatWasPushed
CHECK_DEADLOCK FALSE
