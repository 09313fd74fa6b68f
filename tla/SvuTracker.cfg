SPECIFICATION TSpec
CONSTANTS
  Word = 6
  DigestLen = 2
  Byte = {0, 1}
  Sizes = {1, 3, 4}
  Blocks = {1, 2, 3}
  MaxLen = 2
  Capacity = {1, 4}
INVARIANTS
  VerifyIsLoop
  AcceptIsLoop
  VerdictExact
  RequestsSuffice
