CONSTANTS
  Requests = {r1, r2}
  MaxRetries = 2
  Outcomes <- MCOutcomes
  Retention = 2
  PageSize = 2

SPECIFICATION Spec
SYMMETRY Symmetries

INVARIANTS
  TypeOK
  KeepsTheNewest
  RowsTellTheStory
  CountsAgreeWithLog
  PagingPassesOverNone
