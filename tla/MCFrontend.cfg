SPECIFICATION FairSpec
CONSTANTS
  c1 = c1
  c2 = c2
  c3 = c3
  Callers <- MCCallers
  MaxReferences = 2
  Settings <- MCSettings
INVARIANTS
  ResourcesMatch
PROPERTIES
  PageOutlivesMapping
  OfflineEjected
  SetStateReturns
  AbiReturns
CHECK_DEADLOCK FALSE
