SPECIFICATION Spec
CONSTANTS
  NumMiners = 2
  NumSubtrees = 3
  HashesPerSubtree = 4
  NumBusinesses = 2
  NumSwaps <- Jitter
  Assignments <- MCAssignments
  MaxRuns = 1
  MaxFailures = 1
INVARIANT NoBrokenBump
CHECK_DEADLOCK FALSE
