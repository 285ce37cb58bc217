CONSTANTS
  a = a  b = b
  h1 = h1  h2 = h2  h3 = h3  h4 = h4  h5 = h5  h6 = h6
  None = None
  Threads = {a}
  Handles = {h1, h2, h3, h4, h5, h6}
  SMB_STACK_LEN = 4
  MaxNesting = 6
SPECIFICATION StackSpec
INVARIANTS StackTypeOK NoLostBase
PROPERTIES RestoresOwn
SYMMETRY Symmetry
