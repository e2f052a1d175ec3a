SPECIFICATION Spec
CONSTANTS
  Clients = {c1}
  Devices = {d1, d2}
  p1 = p1 p2 = p2 p3 = p3
  Ports <- MCPorts
  PinOf <- MCPinOf
  Names = {n1, n2}
  Schedules = {}
  MaxChanges = 2
  MaxFailures = 2
  MaxErrors = 0
CHECK_DEADLOCK FALSE
INVARIANTS FreePinCanBeUsed
