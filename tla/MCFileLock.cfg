CONSTANTS
  h1 = h1  h2 = h2  h3 = h3
  p1 = p1  p2 = p2  p3 = p3
  base = base  msg = msg
  NoOne = NoOne
  Handles = {h1, h2, h3}
  Procs = {p1, p2, p3}
  Openers <- MCOpeners
  Callings = {"single", "nested"}
  Regions = {base, msg}
SPECIFICATION Spec
INVARIANTS FileExclusion RegionExclusion StraysFromTimeOut
