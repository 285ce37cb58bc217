CONSTANTS
  v = v  w = w  x = x  y = y
  Bytes = {x, y}
  Size = 3
  Writers = {v}
  Checking = {v}
  MaxWrite = 2
  MaxRead = 2
  Mark = 0
  Reads = {"peek", "expand"}
  MaxSem = 3
SPECIFICATION Spec
PROPERTIES IsQueue
