\* Two streams, one frame of channel space, one model error, one unload, one cancel.
CONSTANTS
  Request = {r1, r2}
  MaxTokens = {2}
  Capacity = 1
  MaxFailures = 1
  MaxUnloads = 1
  MaxCancels = 1
SPECIFICATION FairSpec
INVARIANTS
  EndsOnceWithReason
  InflightTracksEngine
  TokensAccounted
PROPERTY StreamsEnd
CHECK_DEADLOCK FALSE
