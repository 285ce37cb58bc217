CONSTANTS
  a = a  b = b  p = p  q = q
  None = None
  Sessions = {a, b}
  Scenes <- ScriptPurge
  MaxNumber = 3
SPECIFICATION Spec
INVARIANTS HeadersMatch
CHECK_DEADLOCK FALSE
