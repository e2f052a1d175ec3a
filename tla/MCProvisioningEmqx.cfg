SPECIFICATION Spec
CONSTANTS
  Codes = {c1, c2}
  Devices = {d1, d2}
  Requests = {q1, q2}
  RoleStep = FALSE
  MaxFailures = 2
  MaxErrors = 3
  None = None
SYMMETRY Symmetry
INVARIANTS
  OneDevicePerCode
  CredentialsWithEvent
  UnusedCodesBounded
CHECK_DEADLOCK FALSE
