SPECIFICATION Spec
CONSTANTS
  f = f
  p1 = p1
  None = None
  Fdo = f
  Pdos <- MCPdos
  Threads <- MCThreads
  States <- MCStates
  LowerCapabilities <- MCLower
  MaxIndex = 1
  Cases <- MCCases
INVARIANTS
  IrpsHeld
  NoUseAfterFree
  Settled
  OneDistribution
PROPERTIES
  ImplementsPowerTree
