SPECIFICATION FairSpec
CONSTANTS
  Handles = {"live"}
  Encryptions = {"plain"}
  Selections <- SomeSelections
  Torn = Torn
  MaxRestores = 1
  MaxFaults = 0
  MaxJournalFaults = 0
  MaxCrashes = 1
  MaxDeletes = 0
PROPERTIES
  InterruptedRollsBack
CHECK_DEADLOCK FALSE
