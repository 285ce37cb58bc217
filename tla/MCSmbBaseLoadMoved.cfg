CONSTANTS
  a = a  b = b  p = p  q = q
  None = None
  Sessions = {a, b}
  Scenes <- LoadAndPurge
  MaxNumber = 3
SPECIFICATION Spec
INVARIANTS LoadsItsMessage
CHECK_DEADLOCK FALSE
