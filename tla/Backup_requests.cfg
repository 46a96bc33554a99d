SPECIFICATION Spec
CONSTANTS
  Schedules = {"none", "active", "suspended"}
  Dependencies = {}
  CacheLag = FALSE
  JobDeletion = "history_limit"
  MaxClock = 2
  MaxGeneration = 1
  MaxToggles = 1
  MaxTriggers = 1
  MaxFaults = 1
INVARIANTS
  TypeOK
  OneRunPerRequest
  PausedFromBirthIsInert
PROPERTIES
  RecordStays
CHECK_DEADLOCK FALSE
