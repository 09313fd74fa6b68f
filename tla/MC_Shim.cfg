SPECIFICATION BSpec
CONSTANTS
  Half = 8
  Win = 4
  MinSpan = 64
  DensityDiv = 8
  SeqHalf = 8
  TrailerLen = 5
  OffsetLen = 4
  TG2B = 1
  TB2G = 2
  Channels <- BothModes
  Bridges <- BridgedFlows
  QfifoLen = 2
  MaxUp = 4
  MaxDown = 1
  DtpMtu = 200
  DtpOverhead = 4
  Port = 7
  Starts = {13, 15}
  Depth = 2
  MaxSends = 5
  MaxOther = 1
  MaxShort = 1
INVARIANTS
  TwoOraclesAgree
  IndexIsIdentity
  TrajectoryIsFill
  Partition
  BridgeForwardsOnce
  FragmentsJoin
CHECK_DEADLOCK FALSE
