CONSTANTS
  n1 = n1  n2 = n2  n3 = n3
  t1 = t1  t2 = t2  t3 = t3
  None = None
  Nums = {n1, n2}
  Texts = {t1, t2}
  BodyLens = {1, 3}
  HdrLens = {1, 2}
  BlockLen = 2
  MaxRefs = 15
  MaxBlocks = 3
  MaxSent = 2
  MaxStray = 1
  Storages = {"SELFPACK", "FASTALLOC"}
  Tasks = {"bulk", "forward"}
  Scenes <- Mixed
  Concurrent = FALSE
SPECIFICATION Spec
INVARIANTS TypeOK Intact FreeBlocksUnused CountIsHeaders
PROPERTIES StoresText
CONSTRAINT Sound
SYMMETRY Symmetry
CHECK_DEADLOCK FALSE
