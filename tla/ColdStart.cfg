\* Two requests, two pods of KAI and one in the file; a reload and a weight
\* update at any point.
CONSTANTS
  Request = {q1, q2}
  Pod = {p1, p2}
  FilePod = {f1}
  MaxReloads = 1
  MaxWeights = 1
SPECIFICATION FairSpec
INVARIANTS
  WaitsForReason
  WokenIsRouted
PROPERTY EveryoneAnswered
CHECK_DEADLOCK FALSE
