\* Eight one-item pages through three slots; every distance in the network is a
\* power of two, and none is a multiple of three.
CONSTANTS
  W = 8
  N = 7
  item_per_page = 1
  cache_size = 4
  Values = {0, 1, 2}
  Unspecified = Unspecified
  ZeroVal = 0
  defaultVal = 0
  SwapPairs <- NetworkPairs
  Network <- MCNetwork
SPECIFICATION Program
CHECK_DEADLOCK FALSE
INVARIANTS
  SwapsExact
  SortedAtTheEnd
