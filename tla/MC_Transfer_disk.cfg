SPECIFICATION Spec
CONSTANTS
  Word = 16
  DigestLen = 2
  Byte = {0, 1}
  Files <- OneFile
  BlockSize = 2
  Pay = 1
  ChunkLen = 3
  HdrLen = 1
  MaxRounds = 5
  MaxAttempts = 4
  MaxIntervals = 2
  NPorts = 4
  MaxFaults = 0
  MaxRestarts = 0
  Timely = TRUE
INVARIANTS
  OkMeansFileWritten
