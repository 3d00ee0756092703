SPECIFICATION TtySpec
CONSTANTS
  MaxLine = 5
  MaxRead = 3
  MaxTyped = 7
INVARIANTS
  LineEdited
CHECK_DEADLOCK FALSE
