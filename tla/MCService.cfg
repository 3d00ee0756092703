SPECIFICATION ServiceSpec
CONSTANTS
  d1 = d1
  d2 = d2
  h1 = h1
  h2 = h2
  h3 = h3
  Null = Null
  Devices <- MCDevices
  Handles <- MCHandles
  MaxChanges = 3
INVARIANTS
  OwnedOnce
  ConsolesMatch
PROPERTIES
  Stops
CHECK_DEADLOCK FALSE
