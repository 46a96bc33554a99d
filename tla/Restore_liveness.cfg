SPECIFICATION FairSpec
CONSTANTS
  Replicas = {op}
  Dependencies = {"backup", "cluster"}
  CacheLag = FALSE
  PromptRecreate = TRUE
  CleanupErrors = TRUE
  MaxClock = 1
  MaxUid = 1
  MaxGeneration = 2
  MaxToggles = 1
  MaxFaults = 1
  MaxDeletedJobs = 1
PROPERTIES
  CompletedIsNotRerun
  OutcomeReported
  PauseIsTracked
  DeletionCompletes
  StatusSettles
CHECK_DEADLOCK FALSE
