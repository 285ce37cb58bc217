CONSTANTS
  Size = 5
  BlockSize = 2
  Announced = TRUE
  MaxErrors = 3
  AckTries = 2
  FallbackAt = 4
  ChecksumAfter = 1
  Modulus = 2
  EotNumber = 0
  Slips = FALSE
  MaxNoise = 1
SPECIFICATION FairSpec
INVARIANTS TypeOK
PROPERTIES Transfers Ends Recovers
CHECK_DEADLOCK FALSE
