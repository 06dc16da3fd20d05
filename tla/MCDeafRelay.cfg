CONSTANTS
  Clients = {c1}
  Settings = {"mysqlTls"}
  MaxFrames = 1
  NoStream = NoStream
SPECIFICATION Spec
CHECK_DEADLOCK FALSE
PROPERTIES
  AnswersArriveOverTls
