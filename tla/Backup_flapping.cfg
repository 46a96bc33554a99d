SPECIFICATION FairSpec
CONSTANTS
  Schedules = {"active"}
  Dependencies = {}
  CacheLag = FALSE
  JobDeletion = "nobody"
  MaxClock = 1
  MaxGeneration = 1
  MaxToggles = 0
  MaxTriggers = 0
  MaxFaults = 0
PROPERTIES
  StatusSettles
CHECK_DEADLOCK FALSE
