CONSTANTS
  ItemType <- MCItemType
  Owner <- MCOwner
  PortType <- MCPortType
  Speed <- MCSpeed
  Face <- MCFace
  FanOut = {"strip"}
  Bends = {1}
  Labels = {1}
  Positions = {1}
  AssignmentIds = {1}
  Slots = {1}
  Routes <- MCRoutes
  Movable = {"srv"}
  Starts <- MCStarts
  Plugs <- MCPlugs
  MaxRevision = 4
  MaxOthers = 1
SPECIFICATION Spec
INVARIANTS TypeOK CablesSound DerivedCurrent StoreMatchesEngine BrowserMatches
INVARIANTS InverseRestores
PROPERTIES IdsNeverReused
