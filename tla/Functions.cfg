CONSTANTS
  W = 8
  Calls = {"logarithms", "swap", "compare", "tags", "blocks", "bitonic", "compact", "two-way split",
           "interleave", "permute marks", "k-way split", "butterfly", "distribution",
           "permute", "bucket", "shell", "bisect", "solve", "choose", "join", "histogram", "oram",
           "balance", "sort", "distribute", "store", "copy", "trace"}
  TagBits = 5
  MaxSize = 130
  Compared = {1, 2, 3, 7, 8, 9, 12, 16, 17}
  Keys = {0, 1, 2}
  MaxSort = 9
  MaxCompact = 9
  MaxShuffle = 6
  FullSplit = 4
  MaxSplit = 8
  Balanced <- MCBalanced
  MaxPermute = 6
  Splits <- MCSplits
  Butterflies <- MCButterflies
  Distributions <- MCDistributions
  Permuted <- MCPermuted
  Bucketed <- MCBucketed
  MaxShell = 8
  MaxBound = 7
  MaxTarget = 40
  MaxTable = 2
  MaxKeys = 6
  MaxTree = 4
  Balancers <- MCBalancers
  Networks <- MCNetworks
  Distributed <- MCDistributed
  MaxChunks = 3
  MaxTraced = 4
  EventIds = {"Encrypt", "Decrypt"}
  MAX_TRACKER_REC = 2
  Small = 3
  HeapItems = 24
  ServerPage = 2
SPECIFICATION Spec
\* A behaviour is a single call.
CHECK_DEADLOCK FALSE
INVARIANTS
  WordsAndObjectsExact
  BitonicSorts
  CompactsAndShuffles
  MergeSplits
  NetworksDeliver
  WaksmanPermutes
  BaselinesSort
  
  AppsMatch
  TracesNest
  BalancerRoutes
  SortersSort
  StoresAgree
