\* Arrays of up to two terms, terms of up to two blocks of two values each, NULL
\* and malformed ones included.
SPECIFICATION CompareSpec
CONSTANTS
  Bytes = {0, 1}
  MaxTerms = 2
  MaxBlocks = 2
  Null = Null
INVARIANTS
  CompareInv
  VerdictIsOrder
CHECK_DEADLOCK FALSE
