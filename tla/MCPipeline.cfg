SPECIFICATION Spec
CONSTANTS
  NumMiners = 2
  NumSubtrees = 2
  HashesPerSubtree = 3
  NumBusinesses = 2
  NumSwaps <- MCNumSwaps
  Assignments <- MCAssignments
  MaxRuns = 2
  MaxFailures = 1
INVARIANT Inv
INVARIANT NoSilentLoss
INVARIANT BuiltOnFinalRoots
INVARIANT DiskHoldsWinner
INVARIANT ErrorOnlyAfterFailure
PROPERTY EveryRunEnds
CHECK_DEADLOCK FALSE
