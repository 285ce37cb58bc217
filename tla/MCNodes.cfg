CONSTANTS
  i1 = i1  i2 = i2
  Servers = {i1, i2}
  Nodes = {1, 2, 3}
  NodesOf <- MCNodesOf
  EventNode = 1
  Frequent = FALSE
  Downs = {2}
  Faults = {"newday", "timeout", "shutdown", "crash"}
  MaxFaults = 1
  MaxCalls = 2
SPECIFICATION FairSpec
INVARIANTS TypeOK OneCaller ExclusiveAlone
PROPERTIES EventRuns NodesReturn
CHECK_DEADLOCK FALSE
