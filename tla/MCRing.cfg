SPECIFICATION FairSpec
CONSTANTS
  f1 = f1
  r1 = r1
  r2 = r2
  w1 = w1
  c1 = c1
  None = None
  Files <- MCFiles
  Irps <- MCIrps
  Reads <- MCReads
  FileOf <- MCFileOf
  Length <- MCLength
  Cpus <- MCCpus
  Boot = c1
  InSize = 2
  OutSize = 1
  IdxMod = 4
  Cases <- MCCases
INVARIANTS
  NoLostWakeup
PROPERTIES
  ImplementsFifos
  FirstReadServed
CHECK_DEADLOCK FALSE
