CONSTANTS
  old = old
  new = new
  Version <- TwoVersions
  None = None
  MaxCommands = 4
  MaxAccidents = 3
SPECIFICATION Spec
INVARIANTS
  TypeOK
  InstalledComesBack
  RemovedStaysGone
  PurgeIsFinal
CHECK_DEADLOCK FALSE
