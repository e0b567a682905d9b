SPECIFICATION FairSpec
CONSTANTS
  Host = host
  Children = {service}
  Repeated = {}
  Points = {p}
  Reminders = FALSE
  Cooldowns = FALSE
  MaxAttempts = 2
  MaxIncidents = 1
  MaxRequests = 0
  MaxMutes = 0
  MaxCrashes = 1
CHECK_DEADLOCK FALSE
PROPERTIES
  DeliveriesSettle
