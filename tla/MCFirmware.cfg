SPECIFICATION Spec
CONSTANTS
  Requests = {q1, q2}
  Versions = {1, 2}
  MaxNonces = 3
  MaxInbox = 1
  MaxErrors = 1
SYMMETRY Symmetry
INVARIANTS
  SucceededWasInstalled
  OnePendingPerVersion
  ManifestMatchesRecord
  ResultRecorded
PROPERTY
  ImplementsOrders
CHECK_DEADLOCK FALSE
