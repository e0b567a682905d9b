SPECIFICATION FairSpec
CONSTANTS
  NoFile = NoFile
  MaxWrites = 2
  MaxRestores = 2
  MaxCrashes = 3
  MaxFaults = 3
INVARIANTS
  TypeOK
  Recoverable
PROPERTIES
  AtomicForReaders
  BecomesAvailable
CHECK_DEADLOCK FALSE
