\* Three requests at two gateway instances; hangups and expiry at any time.
CONSTANTS
  Request = {q1, q2, q3}
  Gateway = {g1, g2}
  Hangups = TRUE
  Faults = TRUE
SPECIFICATION Spec
SYMMETRY Symmetry
INVARIANTS
  OneCallPerInstance
  OnlyWaitersMisjudged
  WaitersWoken
  RevocationHolds
CHECK_DEADLOCK FALSE
