\* As Aggregate.cfg, over scalar columns that hold values whose `op` key is null,
\* which the CHECK of the domains admits.
SPECIFICATION Spec
CONSTANTS
  Rows = {1, 2}
  Workers = {w1, w2}
  Terms = {1, 2}
  None = None
  Absent = Absent
  Bare = Bare
  BareScalars = TRUE
INVARIANTS
  ResultExact
CHECK_DEADLOCK FALSE
