SPECIFICATION FairSpec
CONSTANTS
  Schedules = {"active", "suspended"}
  Dependencies = {"cluster", "config"}
  CacheLag = FALSE
  JobDeletion = "anybody"
  MaxClock = 1
  MaxGeneration = 2
  MaxToggles = 1
  MaxTriggers = 0
  MaxFaults = 0
PROPERTIES
  CronJobFollowsSchedule
  PauseIsTracked
  ErrorClears
CHECK_DEADLOCK FALSE
