\* Three requests at two instances, handed on at most once, a Redis that
\* fails, leases that expire and a restart.
CONSTANTS
  Request = {q1, q2, q3}
  Instance = {i1, i2}
  Faults = TRUE
  MaxHops = 2
  MaxCrashes = 1
SPECIFICATION FairSpec
INVARIANTS
  OneTimerPerWindow
  SentOnce
PROPERTY QueuedIsSent
CHECK_DEADLOCK FALSE
