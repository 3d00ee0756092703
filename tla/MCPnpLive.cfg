SPECIFICATION FairSpec
CONSTANTS
  d = d
  p1 = p1
  p2 = p2
  x = x
  Pdos <- MCPdos
  Default = d
  Names <- MCNames
  NoName = NoName
  Cases <- MCCasesLive
  MaxDowns = 0
PROPERTIES
  DevicesAppear
  RemovalCompletes
CHECK_DEADLOCK FALSE
