SPECIFICATION Spec
CONSTANTS
  Host = host
  Children = {service}
  Repeated = {service}
  Points = {p}
  Reminders = TRUE
  Cooldowns = FALSE
  MaxAttempts = 1
  MaxIncidents = 1
  MaxRequests = 1
  MaxMutes = 0
  MaxCrashes = 1
CHECK_DEADLOCK FALSE
INVARIANTS
  TypeOK
  OutageInhibits
  RecoveryNeedsOpening
  UnmonitoredEnds
PROPERTIES
  DeliveredIsFinal
