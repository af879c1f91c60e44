CONSTANTS
  InitialEndpoints = 1
  MaxEndpoints = 2
  MaxEdits = 3
  Editors = {op1, op2}
  Refreshers = {job1}
  PageSize = 2
  MaxPages = 2
  Accounts = {3, 4, 5}

SPECIFICATION FairSpec

INVARIANTS
  TypeOK
  SidecarExplained
  CredentialExplained
  ShownQuotaIsOwn

PROPERTY RefreshEnds
