CONSTANTS
  old = old
  new = new
  Version <- TwoVersions
  None = None
  MaxCommands = 2
  MaxAccidents = 0
SPECIFICATION Spec
INVARIANTS
  UpgradeRuns
CHECK_DEADLOCK FALSE
