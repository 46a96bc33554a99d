SPECIFICATION Spec
CONSTANTS
  Unset = Unset
  MaxBackups = Unset
  MaxAge = 1
  RetryGaps = TRUE
  MaxParallel = 2
  MaxClock = 3
  MaxFaults = 0
PROPERTIES
  InProgressSpared

CHECK_DEADLOCK FALSE
