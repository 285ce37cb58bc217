CONSTANTS
  a = a  b = b  p = p  q = q
  None = None
  Sessions = {a, b}
  Scenes <- HeaderFails
  MaxNumber = 3
SPECIFICATION Spec
INVARIANTS LinksRight
CHECK_DEADLOCK FALSE
