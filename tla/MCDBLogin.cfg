CONSTANTS
  Settings <- SomeSettings
  Upstreams <- SomeUpstreams
  Openings = {"startup", "ssl", "gss"}
SPECIFICATION Spec
CHECK_DEADLOCK FALSE
INVARIANTS
  TypeOK
  CredentialsProtected
  SessionMeansAccepted
  InSequence
  FailsForCause
PROPERTIES
  LoginEnds
  ImplementsDBProxy
