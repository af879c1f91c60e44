CONSTANTS
  Users = {u1, u2}
  Browsers = {b1, b2}
  NoBrowser = NoBrowser
  NoForm = NoForm
  Forms = {f1, f2}
  Apps = {p1}
  NoApp = NoApp
  Handlers = {h1, h2}
  Admins = {a1, a2}
  MaxFlows = 1
  MaxTokens = 2
  MaxRevisions = 2
  MaxTime = 1
  FlowTTL = 1

SPECIFICATION Spec
SYMMETRY Symmetries

INVARIANTS
  TypeOK
  OneApprovalPerSignIn
  SecretOfItsApp

PROPERTY
  ApprovedAsStarted
