SPECIFICATION FairSpec
CONSTANTS
  r1 = r1
  r2 = r2
  w1 = w1
  None = None
  Irps <- MCIrps
  Reads <- MCReads
  Length <- MCLength
  InSize = 2
  OutSize = 1
INVARIANTS
  IrpAccounted
  CancelNotParked
  NoLostWakeup
  NoEmptyTransfer
  NoUseAfterFree
PROPERTIES
  ImplementsIrpQueue
  FirstIrpServed
  DestroyCompletes
CHECK_DEADLOCK FALSE
