CONSTANTS
  Tables = {"orders", "audit"}
  Ops = {"SELECT", "UNION", "INSERT", "COMMIT"}
  Clients = {"c1", "c2", "c3"}
  Deaf = {"c3"}
  Texts <- SomeTexts
  Policies <- OnePolicy
  Tls = TRUE
  Workers = 2
  MaxTexts = 3
SPECIFICATION Spec
CHECK_DEADLOCK FALSE
INVARIANTS
  TypeOK
  VerdictsFollowPolicy
  NoNeedlessTimeout
PROPERTIES
  EveryTextAnswered
  ExitsUnlessStuck
