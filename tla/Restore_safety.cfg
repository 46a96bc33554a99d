SPECIFICATION Spec
CONSTANTS
  Replicas = {op}
  Dependencies = {"cluster"}
  CacheLag = TRUE
  PromptRecreate = FALSE
  CleanupErrors = FALSE
  MaxClock = 2
  MaxUid = 2
  MaxGeneration = 1
  MaxToggles = 1
  MaxFaults = 1
  MaxDeletedJobs = 0
INVARIANTS
  TypeOK
  FinalizerGuardsJobs
  CompletionIsGenuine
  PausedFromBirthIsInert
  OneJobPerRestore
  RestoreInv
PROPERTIES
  ImplementsOneShotRestore
CHECK_DEADLOCK FALSE
