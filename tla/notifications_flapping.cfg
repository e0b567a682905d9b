SPECIFICATION FairSpec
CONSTANTS
  Host = host
  Children = {}
  Repeated = {}
  Points = {p}
  Reminders = FALSE
  Cooldowns = TRUE
  MaxAttempts = 1
  MaxIncidents = 2
  MaxRequests = 1
  MaxMutes = 1
  MaxCrashes = 1
CHECK_DEADLOCK FALSE
INVARIANTS OneIncidentPerEvent
PROPERTY HostRecoverySettles
