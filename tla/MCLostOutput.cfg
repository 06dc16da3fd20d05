CONSTANTS
  Bodies <- OneLine
  MaxOut = 9
  MaxErr = 2
  Chunk = 4
  PipeSize = 4
SPECIFICATION Spec
CHECK_DEADLOCK FALSE
INVARIANTS
  NothingLostUnflagged
