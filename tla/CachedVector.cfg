\* Two pages of two items and an empty one, through one slot.
CONSTANTS
  N = 4
  item_per_page = 2
  cache_size = 2
  Values = {0, 1}
  Unspecified = Unspecified
  ZeroVal = 0
  defaultVal = 1
  SwapPairs <- ApartPairs
  MaxBulk = 3
  Sources <- Alternating
SPECIFICATION BulkSpec
INVARIANTS
  CacheConsistent
  BulkExact
PROPERTY IsArray
