CONSTANTS
  size = 5
  ServerPage = 2
  Objects = {o1, o2, o3}
  Shapes <- MCShapes
  Items = {0, 1}
  defaultVal = 0
  AES_BLOCK_SIZE = 1
  Counters = {0, 1}
  MaxDraws = 3
  MaxWrites = 2
SYMMETRY Symmetry
SPECIFICATION Spec
CHECK_DEADLOCK FALSE
INVARIANTS SpaceAccountedFor PagesReadBack
