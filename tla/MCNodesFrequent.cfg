CONSTANTS
  i1 = i1  i2 = i2
  Servers = {i1, i2}
  Nodes = {1, 2, 3}
  NodesOf <- MCNodesOf
  EventNode = 1
  Frequent = TRUE
  Downs = {}
  Faults = {}
  MaxFaults = 0
  MaxCalls = 1
SPECIFICATION Spec
INVARIANT ExclusiveAlone
CHECK_DEADLOCK FALSE
