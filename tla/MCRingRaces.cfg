SPECIFICATION Spec
CONSTANTS
  f1 = f1
  f2 = f2
  r1 = r1
  w1 = w1
  w2 = w2
  c1 = c1
  c2 = c2
  None = None
  Files <- MCFiles
  Irps <- MCIrps
  Reads <- MCReads
  FileOf <- MCFileOf
  Length <- MCLength
  Cpus <- MCCpus
  Boot = c1
  InSize = 1
  OutSize = 1
  IdxMod = 2
  Cases <- MCCases
INVARIANTS
  IrpAccounted
  CloseCancels
  NoUseAfterDisconnect
CHECK_DEADLOCK FALSE
