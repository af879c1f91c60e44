CONSTANTS
  Handlers = {h1, h2}
  MaxInvites = 1
  MaxRedemptions = 2
  MaxTime = 3
  TicksPerSecond = 2

SPECIFICATION Spec

INVARIANTS
  TypeOK
  RedemptionsBounded
  CodesArePaidFor

PROPERTY
  DeadNeverRedeemed
