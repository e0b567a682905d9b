SPECIFICATION FairSpec
CONSTANTS
  Releases = {1, 2, 3}
  Schemas <- MCSchemas
  MaxChanges = 2
  MaxCrashes = 2
  MaxFaults = 1
INVARIANTS
  TypeOK
  CoreKept
  RollbackSetsKept
  TelemetryRecoverable
PROPERTIES
  StartupSettles
