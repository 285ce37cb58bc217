CONSTANTS
  n1 = n1  n2 = n2  n3 = n3
  t1 = t1  t2 = t2  t3 = t3
  None = None
  Nums = {n1, n2, n3}
  Texts = {t1, t2}
  BodyLens = {1}
  HdrLens = {1}
  BlockLen = 2
  MaxRefs = 3
  MaxBlocks = 3
  MaxSent = 2
  MaxStray = 0
  Storages = {"SELFPACK"}
  Tasks = {"bulk"}
  Scenes <- NoTails
  Concurrent = TRUE
SPECIFICATION Spec
INVARIANTS ZeroIsFree
SYMMETRY Symmetry
CHECK_DEADLOCK FALSE
