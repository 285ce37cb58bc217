CONSTANTS
  v = v  w = w  x = x  y = y
  Bytes = {x, y}
  Size = 3
  Writers = {v}
  Checking = {v}
  MaxWrite = 2
  MaxRead = 2
  Mark = 2
  Reads = {"byte", "drain", "peek"}
  MaxSem = 3
SPECIFICATION FairSpec
INVARIANTS NoLostWakeup HighwaterRight
PROPERTIES IsQueue Moves
