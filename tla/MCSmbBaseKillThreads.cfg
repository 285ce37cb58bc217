CONSTANTS
  a = a  b = b  p = p  q = q
  None = None
  Sessions = {a, b}
  Scenes <- ThreadsKill
  MaxNumber = 3
SPECIFICATION Spec
INVARIANTS NoneLost
CHECK_DEADLOCK FALSE
