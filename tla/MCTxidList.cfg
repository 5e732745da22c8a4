SPECIFICATION Spec
CONSTANTS
  Clients = {c1, c2}
  NoClient = none
  Hashes = {h1, h2}
  NoHash = nohash
  Kinds = {"raw", "buffered"}
  BufSizes = {0, 2}
  Windows <- MCWindows
  MaxLen = 2
  MaxFailures = 1
  MaxCrashes = 1
INVARIANT ListInv
INVARIANT KeysContiguous
INVARIANT TailFresh
INVARIANT GetLinearizable
INVARIANT SliceWhole
PROPERTY ImplementsSeq
PROPERTY EveryCallReturns
