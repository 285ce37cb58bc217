CONSTANTS
  a = a  b = b  p = p  q = q
  None = None
  Sessions = {a, b}
  Scenes <- CrashAndPurge
  MaxNumber = 3
SPECIFICATION Spec
INVARIANTS Ascending
CHECK_DEADLOCK FALSE
