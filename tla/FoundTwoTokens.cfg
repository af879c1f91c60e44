CONSTANTS
  Secrets = {s1, s2, s3}
  NoSecret = NoSecret
  Commands = {c1, c2}
  Logins = {l1}
  SetUp <- NothingSetUp
  SetUpAlone = FALSE
  MaxTime = 2
  SessionTTL = 1

SPECIFICATION Spec

PROPERTY RotateReplacesActive
