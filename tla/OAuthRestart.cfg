CONSTANTS
  Clients = {c1}
  NoClient = NoClient
  Issuers = {i1, i2}
  Unbound = Unbound
  Scopes <- MCOffline
  Verifiers = {v1}
  LegacyGrants = 2
  LegacyCodes = 1
  MaxKeys = 3
  MaxCodes = 1
  MaxTime = 2
  CodeTTL = 1
  AccessTTL = 1
  RefreshTTL = 2

SPECIFICATION Spec

INVARIANT VerifyLinearizes

PROPERTY
  BindingKept
