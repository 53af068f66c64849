CONSTANTS
  Frontends = {f1, f2}
  Pages = {p1, p2}
  Values = {0, 1}
  defaultVal = 0
  None = None
  Dests = {d1, d2}
  sizeOfT = 3
  bufferCapacity = 2
  maxChunkNum = 2
  tmpSize = 10
  MaxJobs = 3
SYMMETRY Symmetry
SPECIFICATION Spec
INVARIANTS
  JobsComplete
  WritesReachServer
