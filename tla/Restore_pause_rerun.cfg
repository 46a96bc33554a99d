SPECIFICATION Spec
CONSTANTS
  Replicas = {op}
  Dependencies = {}
  CacheLag = FALSE
  PromptRecreate = FALSE
  CleanupErrors = FALSE
  MaxClock = 2
  MaxUid = 1
  MaxGeneration = 1
  MaxToggles = 2
  MaxFaults = 0
  MaxDeletedJobs = 1
PROPERTIES
  CompletedIsNotRerun
CHECK_DEADLOCK FALSE
