CONSTANTS
  v = v  w = w  x = x  y = y
  Bytes = {x, y}
  Size = 3
  Writers = {v}
  Checking = {}
  MaxWrite = 2
  MaxRead = 2
  Mark = 0
  Reads = {"byte"}
  MaxSem = 3
SPECIFICATION Spec
PROPERTIES IsQueue
