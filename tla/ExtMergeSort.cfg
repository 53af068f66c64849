\* Pages of two elements; up to five ranges, which are merged in one or, with
\* maxWay = 3 and four or five of them, in two layers; one or two batches.
CONSTANTS
  item_per_page = 2
  Garbage = Garbage
  Cases <- MCCases
  Keys = {1, 2, 3}
  MaxN = 6
  MaxRanges = 5
  maxWays = {3, 5}
  BatchSizes = {8}
  BatchedSizes = {7, 9}
SPECIFICATION Spec
INVARIANTS
  LayersSort
  HeapPointsAtData
