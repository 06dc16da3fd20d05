CONSTANTS
  Hosts = {"a", "b"}
  Addrs = {pub1, pub2, priv}
  Private = {priv}
  Requests <- SomeRequests
  Policies <- TwoEntryPolicies
  MaxChunks = 1
  None = None
SPECIFICATION Spec
CHECK_DEADLOCK FALSE
INVARIANTS
  TypeOK
  OnlyListed
  OnlyScreened
  RefusedMeansUnopened
  OriginClosed
PROPERTIES
  NothingCutOff
  AnswersArrive
  EndsWhenBothGone
