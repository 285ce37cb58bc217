CONSTANTS
  a = a  b = b  p = p  q = q
  None = None
  Sessions = {a, b}
  Scenes <- ThreadsReply
  MaxNumber = 3
SPECIFICATION Spec
PROPERTIES NumbersFresh
CHECK_DEADLOCK FALSE
