\* Three files, each with any list of up to two targets: repeated lines,
\* self-edges, unknown and outside targets, every shape of cycle.
SPECIFICATION FairSpec
CONSTANTS
  Files = {1, 2, 3}
  MaxRequires = 2
  Missing = Missing
  Outside = Outside
INVARIANTS
  OrderInv
  RequiresFirst
  CycleVerdictExact
PROPERTIES
  Returns
  ImplementsPromise
\* surface_order returns: a state in which it has returned has no step.
CHECK_DEADLOCK FALSE
