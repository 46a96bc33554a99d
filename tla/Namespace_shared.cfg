SPECIFICATION Spec
CONSTANTS
  Unset = Unset
  MaxBackups = 1
  MaxAge = Unset
  Backups = {"a", "b"}
  Incremental = {}
  Retained = {"a", "b"}
  Prefixed <- MCPrefixed
  RestoreName = "b"
  Source = "b"
  Edited = {"b"}
  MaxRuns = 2
  MaxGeneration = 2
  LateEdits = FALSE
INVARIANTS
  TypeOK
  RestoreSourceStored
  PodReadsOwnConfig
PROPERTIES
  PrunesOnlySuperseded
CHECK_DEADLOCK FALSE
