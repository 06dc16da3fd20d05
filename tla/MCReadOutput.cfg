CONSTANTS
  Bodies <- ShortBodies
  MaxOut = 3
  MaxErr = 2
  Chunk = 2
  PipeSize = 2
SPECIFICATION Spec
CHECK_DEADLOCK FALSE
INVARIANTS
  TypeOK
  KeepsPrefix
  TruncatedHonest
  KilledForCause
  ValueReported
PROPERTIES
  ReaderReturns
