CONSTANTS
  InitialEndpoints = 2
  BlankRows = {}
  MaxEndpoints = 2
  MaxTime = 2
  MaxCooldown = 1
  TicksPerSecond = 1
  Requests = {r1, r2}
  MaxRetries = 2
  Durations = {0, 1}
  Transient = 1

SPECIFICATION Spec
SYMMETRY RequestSymmetry

INVARIANTS
  TypeOK

PROPERTIES
  RetryAcrossKeys
  CooldownEndsForAReason
