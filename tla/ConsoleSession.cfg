\* A developer and a reader, one row, two tokens and two calls; the
\* developer may be removed.
CONSTANTS
  u1 = u1
  u2 = u2
  User = {u1, u2}
  Token = {t1, t2}
  Row = {k1}
  RoleOf <- MCRoleOf
  Request = {r1, r2}
  Retries = 1
  FormPages = {"api-keys"}
  Leavers = {u1}
SPECIFICATION SessionSpec
SYMMETRY Symmetry
INVARIANTS
  OutcomeTruthful
  ChangesByOwner
PROPERTIES
  SessionEndsForCause
CHECK_DEADLOCK FALSE
