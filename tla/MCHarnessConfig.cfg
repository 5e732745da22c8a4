SPECIFICATION ConfigSpec
CONSTANTS
  BytesPerTxidBase = 5
  BytesPerTxidPerMiner = 1
  OverheadBytes = 1229
  MinBudget = 819
  DefaultSubtree = 4
  NotGiven = NotGiven
  Memories <- MCMemories
  CommandLines <- MCCommandLines
INVARIANT ScaledToBudget
INVARIANT FlagsKeptExactly
CHECK_DEADLOCK FALSE
