SPECIFICATION Spec
CONSTANTS
  NumBusinesses = 4
  GoMaxProcs = 2
  Subtrees = {0, 1}
  Spans <- MCSpans
  Present <- MCPresent
  Stored = {0, 1}
  CacheSizes = {0, 1, 2}
  MaxReadErrors = 2
  DumpBumps = TRUE
INVARIANT PoolInv
INVARIANT OneWorkerPerToken
INVARIANT AllAssembled
INVARIANT CacheConsistent
INVARIANT LoadsBounded
PROPERTY ImplementsTokenWork
CHECK_DEADLOCK FALSE
