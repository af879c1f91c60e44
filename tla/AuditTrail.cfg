CONSTANTS
  Operators = {a1, a2}
  Edited = {"base_url", "quota", "quota_key"}
  MaxRows = 1
  MaxChanges = 4

SPECIFICATION Spec
SYMMETRY Symmetries

INVARIANTS
  TypeOK
  ChangesAccounted
  TrailMovesForward

CHECK_DEADLOCK FALSE
