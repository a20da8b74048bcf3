\* Three pushes to main and no failure.
SPECIFICATION Spec
CONSTANTS
  Branches = {}
  Finals = {1, 2, 3}
  Prereleases = {}
  Prepared = {TRUE}
  MaxCommits = 4
  MaxRuns = 6
  MaxFailures = 0
INVARIANT Lockstep
CHECK_DEADLOCK FALSE
