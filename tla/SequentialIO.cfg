\* Three pages of two elements, the last one half used.
CONSTANTS
  N = 5
  item_per_page = 2
  MaxRound = 1
  cacheCapacity = 2
  Garbage = Garbage
  NoReader = NoReader
  NoWriter = NoWriter
SPECIFICATION Spec
INVARIANTS
  ReadsSucceed
  StoreHoldsContents
