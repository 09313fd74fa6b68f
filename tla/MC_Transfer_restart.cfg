SPECIFICATION ShortSpec
CONSTANTS
  Word = 16
  DigestLen = 2
  Byte = {0, 1}
  Files <- RestartFiles
  BlockSize = 2
  Pay = 2
  ChunkLen = 3
  HdrLen = 1
  MaxRounds = 2
  MaxAttempts = 2
  MaxIntervals = 1
  NPorts = 1
  MaxFaults = 1
  MaxRestarts = 1
  Timely = FALSE
INVARIANTS
  TypeOK
  CoverageExact
  VerifiedIsServed
  VerifiedIsPromised
PROPERTIES
  ImplementsDelivery
  Termination
