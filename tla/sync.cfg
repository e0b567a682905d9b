SPECIFICATION CommandSpec
CONSTANTS
  a = a
  Clients <- MCClients
  Editors <- MCClients
  Switching <- MCClients
  Scoped = FALSE
  MaxStartupAttempts = 2
  MaxChanges = 3
  MaxFaults = 2
CHECK_DEADLOCK FALSE
INVARIANTS
  TypeOK
  
  
  WorkerExplained
PROPERTIES
  MutationsEnd
