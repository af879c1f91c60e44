CONSTANTS
  InitialEndpoints = 1
  BlankRows = {1}
  MaxEndpoints = 2
  MaxTime = 3
  MaxCooldown = 2
  TicksPerSecond = 2
  Requests = {r1}
  MaxRetries = 3
  Durations = {0, 2}
  Transient = 1

SPECIFICATION FairSpec

INVARIANTS
  SelectionWithinASecond
  HealthTellsService

PROPERTIES
  EveryRequestAnswered
  ImplementsContract
