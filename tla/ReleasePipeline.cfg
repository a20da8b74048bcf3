\* One branch, one prerelease identity, two pushes to main and a version PR, four runs
\* started by people beside the release-plz runs these dispatch, one failure, every re-run.
SPECIFICATION FairSpec
CONSTANTS
  Branches = {"eql_v3"}
  Finals = {1, 2}
  Prereleases = {11}
  Prepared = {TRUE}
  MaxCommits = 3
  MaxRuns = 4
  MaxFailures = 1
INVARIANT OneSource
INVARIANT DocsBeforePackages
INVARIANT TagMeansPublished
INVARIANT CratesAlone
PROPERTY Converges
CHECK_DEADLOCK FALSE
