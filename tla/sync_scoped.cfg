SPECIFICATION FairSpec
CONSTANTS
  a = a
  Clients <- MCClients
  Editors <- MCClients
  Switching = {}
  Scoped = TRUE
  MaxStartupAttempts = 1
  MaxChanges = 1
  MaxFaults = 0
CHECK_DEADLOCK FALSE
PROPERTIES
  OpenBrowsersReconcile
