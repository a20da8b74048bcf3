\* Four rows, two workers, two terms: ties, rows without a term before, between
\* and after rows with one, NULLs, and a worker that sees no row at all.
SPECIFICATION Spec
CONSTANTS
  Rows = {1, 2, 3, 4}
  Workers = {w1, w2}
  Terms = {1, 2}
  None = None
  Absent = Absent
  Bare = Bare
  BareScalars = FALSE
INVARIANTS
  IInv
  ResultExact
CHECK_DEADLOCK FALSE
