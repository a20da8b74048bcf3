\* Two selectors, documents of up to two entries of every admitted kind, needles
\* with and without ordering terms.
SPECIFICATION Spec
CONSTANTS
  Selectors = {"s1", "s2"}
  ArrayFlags = {"absent", "false", "true", "null", "junk"}
  MaxEntries = 2
INVARIANTS
  ContainmentIsSubset
  AccessorsAgree
  EntriesComeOut
  ArrayRowsComplete
CHECK_DEADLOCK FALSE
