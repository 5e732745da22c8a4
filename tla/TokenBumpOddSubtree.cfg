SPECIFICATION Spec
CONSTANTS
  HashesPerSubtree = 3
  NumSubtrees = 2
INVARIANT EveryTxidVerifies
CHECK_DEADLOCK FALSE
