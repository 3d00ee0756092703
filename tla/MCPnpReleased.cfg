SPECIFICATION Spec
CONSTANTS
  d = d
  p1 = p1
  p2 = p2
  x = x
  Pdos <- MCPdos
  Default = d
  Names <- MCNames
  NoName = NoName
  Cases <- MCCasesLive
  MaxDowns = 1
INVARIANT
  ReleasedWhenDestroyed
CHECK_DEADLOCK FALSE
