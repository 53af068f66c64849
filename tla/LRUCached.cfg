CONSTANTS
  N = 3
  CACHE_SIZE = 2
  TLB_SIZE = 2
  CounterMax = 9
  Values = {0, 1}
  ZeroVal = 0
SPECIFICATION Spec
INVARIANT EntriesFollowedAreValid
