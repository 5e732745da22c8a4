SPECIFICATION Spec
CONSTANTS
  Clients = {c1, c2}
  Txids = {x1, x2}
  Tokens = {t1, t2}
  NoToken = notoken
  Kinds = {"mem", "disk", "buffered"}
  BufSizes = {0, 3}
  MaxSets = 4
  MaxFailures = 1
  MaxCrashes = 1
INVARIANT NewestVisible
INVARIANT GetFresh
INVARIANT FlushCovers
