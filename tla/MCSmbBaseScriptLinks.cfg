CONSTANTS
  a = a  b = b  p = p  q = q
  None = None
  Sessions = {a, b}
  Scenes <- ScriptLinks
  MaxNumber = 3
SPECIFICATION Spec
INVARIANTS AllLinked
CHECK_DEADLOCK FALSE
