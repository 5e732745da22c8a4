SPECIFICATION ProofsSpec
CONSTANTS
  LeafRows <- MCLeafRows
  NumCPU = 3
  Threshold = 2
INVARIANT CompleteStore
INVARIANT PathsVerify
INVARIANT BatchMatchesSingle
INVARIANT BitcoinRootExactly
PROPERTY BuildEnds
CHECK_DEADLOCK FALSE
