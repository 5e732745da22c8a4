SPECIFICATION Spec
CONSTANTS
  HashesPerSubtree = 4
  NumSubtrees = 3
INVARIANT EveryTxidVerifies
INVARIANT FlagsExactlyOwn
INVARIANT EntriesAreNodes
INVARIANT PathsAgree
CHECK_DEADLOCK FALSE
