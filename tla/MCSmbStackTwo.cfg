CONSTANTS
  a = a  b = b
  h1 = h1  h2 = h2  h3 = h3  h4 = h4  h5 = h5  h6 = h6
  None = None
  Threads = {a, b}
  Handles = {h1, h2, h3, h4, h5}
  SMB_STACK_LEN = 4
  MaxNesting = 2
SPECIFICATION StackSpec
PROPERTIES RestoresOwn
