SPECIFICATION FairSpec
CONSTANTS
  c1 = c1
  c2 = c2
  None = None
  Conns <- MCConns
  MAXIMUM_WAIT_OBJECTS = 2
INVARIANTS
  WritesListed
  FreedUnused
PROPERTIES
  DestroyCompletes
CHECK_DEADLOCK FALSE
