CONSTANTS
  a = a  b = b  p = p  q = q
  None = None
  Sessions = {a, b}
  Scenes <- LoadAndPurge
  MaxNumber = 3
SPECIFICATION Spec
PROPERTIES NotFoundIsGone
CHECK_DEADLOCK FALSE
