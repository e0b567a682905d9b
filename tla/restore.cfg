SPECIFICATION FairSpec
CONSTANTS
  Handles = {"own", "live"}
  Encryptions = {"plain", "encrypted"}
  Selections <- SomeSelections
  Torn = Torn
  MaxRestores = 2
  MaxFaults = 1
  MaxJournalFaults = 1
  MaxCrashes = 1
  MaxDeletes = 1
INVARIANTS
  TypeOK
  AllOrNothing
  HistoryIsTrue
  RecoverySourceKept
PROPERTIES
  MaintenanceEnds
CHECK_DEADLOCK FALSE
