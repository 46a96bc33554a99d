SPECIFICATION Spec
CONSTANTS
  Unset = Unset
  MaxBackups = 2
  MaxAge = Unset
  Backups = {"a"}
  Incremental = {"a"}
  Retained = {}
  Prefixed = {}
  RestoreName = "r"
  Source = "a"
  Edited = {}
  MaxRuns = 2
  MaxGeneration = 1
  LateEdits = TRUE
INVARIANTS
  RestoreSourceStored
CHECK_DEADLOCK FALSE
