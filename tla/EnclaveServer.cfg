SPECIFICATION FairSpec
CONSTANTS
  Threads = {t1, t2}
  Handles = {h1}
  Order = 0
  MaxCalls = 5
INVARIANTS AnsweredOnce OwnSecret PendingUntilReplaced SecretsFresh ExclusiveUntilStopped
CHECK_DEADLOCK FALSE
PROPERTY EveryCallReturns
