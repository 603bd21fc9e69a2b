\* Two deliveries and two ticks at a time, two incidents of one alert or one rule;
\* statements fail and processes die at any point, and an operator acts twice.
CONSTANTS
  Delivery = {d1, d2}
  Tick = {t1, t2}
  Incident = {i1, i2}
  Fingerprint = {f1}
  Rule = {r1}
  MaxOps = 2
SPECIFICATION Spec
SYMMETRY Symmetry
INVARIANTS
  DuplicatesAreRaces
  ActiveMeansFiring
PROPERTY OnlyOperatorsReopen
CHECK_DEADLOCK FALSE
