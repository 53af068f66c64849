\* Four ranges, maxWay = 3: two groups, which end with their pages.
CONSTANTS
  item_per_page = 2
  Garbage = Garbage
  Cases <- MCCases
  Keys = {1, 2, 3}
  MaxN = 4
  MaxRanges = 4
  maxWays = {3}
  BatchSizes = {8}
  BatchedSizes = {}
SPECIFICATION Spec
INVARIANTS
  TwoLayersSort
