CONSTANTS
  Clients = {c1, c2}
  Settings = {"postgres", "mysqlPlain", "mysqlTls"}
  MaxFrames = 2
  NoStream = NoStream
SPECIFICATION Spec
CHECK_DEADLOCK FALSE
INVARIANTS
  TypeOK
  ForwardsScreenedPrefix
  RelaysInOrder
PROPERTIES
  EndsWhenBothGone
  AnswersArrive
