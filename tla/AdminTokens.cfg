CONSTANTS
  Secrets = {s1, s2, s3}
  NoSecret = NoSecret
  Commands = {c1, c2}
  Logins = {l1, l2}
  SetUp <- NothingSetUp
  SetUpAlone = TRUE
  MaxTime = 2
  SessionTTL = 1

SPECIFICATION Spec

SYMMETRY Symmetries

INVARIANTS
  TypeOK
  StaleSessionsExplained

PROPERTIES
  RotateReplacesActive
