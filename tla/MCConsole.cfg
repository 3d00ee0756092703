SPECIFICATION FairSpec
CONSTANTS
  f1 = f1
  f2 = f2
  i1 = i1
  i2 = i2
  i3 = i3
  None = None
  Files <- MCFiles
  Irps <- MCIrps
  FileOf <- MCFileOf
  Watched = f1
  MaxSleeps = 2
INVARIANTS
  ListedLive
  NoLostIrp
PROPERTIES
  UsesStreams
  DestructionCompletes
CHECK_DEADLOCK FALSE
