CONSTANTS
  Clients = {c1}
  NoClient = NoClient
  Issuers = {i1}
  Unbound = Unbound
  Scopes <- MCScopes
  Verifiers = {}
  LegacyGrants = 0
  LegacyCodes = 0
  MaxKeys = 3
  MaxCodes = 1
  MaxTime = 3
  CodeTTL = 1
  AccessTTL = 1
  RefreshTTL = 2

SPECIFICATION Spec

INVARIANTS
  TypeOK
  GrantIsNewest
  ReplayKillsFamily
  CodeRedeemedOnce
  FamilyKeepsApproval

PROPERTIES
  RevocationEndsFamily
  ImplementsFamilies
