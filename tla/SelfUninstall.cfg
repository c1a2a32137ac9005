CONSTANTS
  Jobs = {j1, j2}
  MaxErrors = 0
SPECIFICATION ScriptsSpec
CHECK_DEADLOCK FALSE
INVARIANT UninstallRemoves
