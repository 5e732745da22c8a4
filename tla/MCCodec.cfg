SPECIFICATION CodecSpec
CONSTANTS
  Base = 5
  Hashes = {h1, h2}
  Items <- MCItems
INVARIANT RoundTripExactly
INVARIANT TornIsError
CHECK_DEADLOCK FALSE
