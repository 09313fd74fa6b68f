SPECIFICATION FairSpec
CONSTANTS
  Word = 16
  DigestLen = 2
  Byte = {0, 1}
  Files <- OddFile
  BlockSize = 3
  Pay = 2
  ChunkLen = 3
  HdrLen = 1
  MaxRounds = 14
  MaxAttempts = 4
  MaxIntervals = 1
  NPorts = 5
  MaxFaults = 3
  MaxRestarts = 0
  Timely = TRUE
INVARIANTS
  ReRequestSound
  RoundsBounded
PROPERTIES
  DeliveredWithinBudget
