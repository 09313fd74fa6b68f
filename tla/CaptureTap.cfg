SPECIFICATION CSpec
CONSTANTS
  Half = 6
  Win = 3
  MinSpan = 64
  DensityDiv = 8
  Starts = {10}
  Depth = 2
  Jump = 5
  Others = {3}
  Horizon = 26
  MaxFeeds = 6
  Ring = 2
  Unseen = {3}
INVARIANTS
  Accounting
  LossExact
  PairingIsSearch
  PairNamesPacket
PROPERTY DuplicatesExact
CHECK_DEADLOCK FALSE
