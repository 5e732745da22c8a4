SPECIFICATION Spec
CONSTANTS
  Clients = {c1, c2}
  Tokens = {t1, t2}
  Roots <- MCRoots
  Kinds = {"store", "mem", "disk"}
  ChunkSize = 1
  MaxBatch = 2
  MaxEntries = 3
  MaxFailures = 1
  MaxOpens = 2
INVARIANT AllStored
INVARIANT PrefixWritten
INVARIANT DiscoverComplete
PROPERTY NothingLost
CHECK_DEADLOCK FALSE
SYMMETRY MCSymmetry
