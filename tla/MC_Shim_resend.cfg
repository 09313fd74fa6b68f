SPECIFICATION BSpec
CONSTANTS
  Half = 8
  Win = 4
  MinSpan = 64
  DensityDiv = 8
  SeqHalf = 8
  TrailerLen = 5
  OffsetLen = 4
  TG2B = 1
  TB2G = 2
  Channels <- ByIdentity
  Bridges = {}
  QfifoLen = 0
  MaxUp = 0
  MaxDown = 0
  DtpMtu = 200
  DtpOverhead = 4
  Port = 7
  Starts = {13, 15}
  Depth = 2
  MaxSends = 6
  MaxOther = 0
  MaxShort = 0
INVARIANT
  SameFrameSameFate
CHECK_DEADLOCK FALSE
