SPECIFICATION LSpec
CONSTANTS
  SeqHalf = 8
  TrailerLen = 5
  OffsetLen = 4
  TG2B = 1
  TB2G = 2
  Port = 7
  DtpMtu = 200
  DtpOverhead = 4
  Setups <- AllSetups
  First = 14
  DelayLen = 2
  CapLen = 1
  MaxFrames = 3
  MaxSubs = 1
  MaxSignals = 1
INVARIANTS
  AllAccounted
  DroppedXorObserved
  DecisionByIdentity
  OneMalformedCounter
  CaptureGapsFollowShort
PROPERTY
  SigintStops
CHECK_DEADLOCK FALSE
