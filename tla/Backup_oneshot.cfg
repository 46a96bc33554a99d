SPECIFICATION FairSpec
CONSTANTS
  Schedules = {"none"}
  Dependencies = {}
  CacheLag = TRUE
  JobDeletion = "nobody"
  MaxClock = 2
  MaxGeneration = 1
  MaxToggles = 1
  MaxTriggers = 1
  MaxFaults = 1
INVARIANTS
  FinalizerGuardsResources
PROPERTIES
  OutcomeRecorded
  TriggerConsumed
  DeletionCompletes
  StatusSettles
CHECK_DEADLOCK FALSE
