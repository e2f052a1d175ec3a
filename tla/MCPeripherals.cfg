SPECIFICATION Spec
CONSTANTS
  Clients = {c1, c2}
  Devices = {d1}
  p1 = p1 p2 = p2 p3 = p3
  Ports <- MCPorts
  PinOf <- MCPinOf
  Names = {n1, n2}
  Schedules = {"s"}
  MaxChanges = 3
  MaxFailures = 2
  MaxErrors = 1
SYMMETRY MCSymmetry
CHECK_DEADLOCK FALSE
INVARIANTS ActiveUnique DeviceMatchesRow TopicMatchesRows
PROPERTY ImplementsMirror
