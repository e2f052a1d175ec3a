SPECIFICATION FairSpec
CONSTANTS
  Codes = {c1}
  Devices = {d1, d2}
  Requests = {q1}
  RoleStep = TRUE
  MaxFailures = 2
  MaxErrors = 3
  None = None
PROPERTY AnsweredBecomesReady
INVARIANTS
  DoneLeftUsable RevokedStaysRevoked
CHECK_DEADLOCK FALSE
