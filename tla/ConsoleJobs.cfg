\* Two processes that boot three times in all; three hours and two requests; three
\* migrations; two thresholds on two channels.
CONSTANTS
  Instance = {p1, p2}
  MaxBoots = 3
  Migration = 3
  Event = {e1, e2}
  MaxHour = 3
  Thresholds <- MCThresholds
  GpuLabels <- MCGpuLabels
  Channels <- MCChannels
  MaxChanges = 4
SPECIFICATION Spec
SYMMETRY Symmetry
INVARIANTS
  SchemaInOrder
  UsageBilled
  AlertedOnce
CHECK_DEADLOCK FALSE
