SPECIFICATION Spec
CONSTANTS
  d = d
  p1 = p1
  p2 = p2
  x = x
  Pdos <- MCPdos
  Default = d
  Names <- MCNames
  NoName = NoName
  Cases <- MCCases
  MaxDowns = 1
INVARIANTS
  DevnodesListed
  OneDevicePerName
  AbiBalanced
CHECK_DEADLOCK FALSE
