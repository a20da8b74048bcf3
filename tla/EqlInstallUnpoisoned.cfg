\* Plain psql -f, twice, by a superuser until demoted.
SPECIFICATION Spec
CONSTANTS
  Deployers = {d1}
  Roles = {admin}
  Modes = {"psql"}
  InitialSuper = {admin}
  Pgcrypto = {"none"}
  Upgrades = FALSE
  MaxScripts = 2
INVARIANT FailsLoudly
CHECK_DEADLOCK FALSE
