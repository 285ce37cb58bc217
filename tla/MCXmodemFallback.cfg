CONSTANTS
  Size = 5
  BlockSize = 2
  Announced = TRUE
  MaxErrors = 3
  AckTries = 2
  FallbackAt = 3
  ChecksumAfter = 1
  Modulus = 2
  EotNumber = 0
  Slips = FALSE
  MaxNoise = 0
SPECIFICATION Spec
PROPERTY DiscardsRepeats
CHECK_DEADLOCK FALSE
