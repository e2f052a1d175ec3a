SPECIFICATION FairSpec
CONSTANTS
  Clients = {c1, c2}
  InOrder = FALSE
  Rules = {r1}
  MaxChanges = 3
  MaxFailures = 2
  MaxErrors = 1
INVARIANTS
  RowIsLastChange
  PatchesKept
  CalmInSync
PROPERTY
  ChangesSettle
  ImplementsMirror
CHECK_DEADLOCK FALSE
