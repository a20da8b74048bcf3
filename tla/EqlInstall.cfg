\* One deployer and two roles, of which one is superuser at first; scripts in one
\* transaction or fed statement by statement.
SPECIFICATION Spec
CONSTANTS
  Deployers = {d1}
  Roles = {admin, app}
  Modes = {"txn", "psql", "stop"}
  InitialSuper = {admin}
  Pgcrypto = {"none", "other"}
  Upgrades = TRUE
  MaxScripts = 3
INVARIANTS DocumentsStayChecked InstalledIsWhole UninstalledIsGone OreIndexUsesItsClass DisabledStaysDisabled
PROPERTIES DataSurvives RerunRepairs
CHECK_DEADLOCK FALSE
