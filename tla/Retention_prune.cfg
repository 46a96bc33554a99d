SPECIFICATION FairSpec
CONSTANTS
  Unset = Unset
  MaxBackups = 2
  MaxAge = 2
  RetryGaps = FALSE
  MaxParallel = 2
  MaxClock = 4
  MaxFaults = 1
INVARIANTS
  TypeOK
PROPERTIES
  KeepsNewest
  InProgressSpared
  RecordedAreRemoved
  HistoryMatchesStorage
CHECK_DEADLOCK FALSE
