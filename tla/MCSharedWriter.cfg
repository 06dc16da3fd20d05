CONSTANTS
  Clients = {c1, c2}
  Settings = {"mysqlPlain"}
  MaxFrames = 1
  NoStream = NoStream
SPECIFICATION Spec
CHECK_DEADLOCK FALSE
INVARIANTS
  OwnFramesOnly
