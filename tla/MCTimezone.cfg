SPECIFICATION FairSpec
CONSTANTS
  utc = utc z1 = z1
  Clients = {c1, c2}
  Devices = {d1}
  Zones <- MCZones
  Default = utc
  Table <- MCTable
  FallbackRule = "UTC0"
  MaxChanges = 3
  MaxFailures = 2
  MaxErrors = 1
  None = None
INVARIANTS AllDevicesTold ConfigMatchesAccount
CHECK_DEADLOCK FALSE
PROPERTY DevicesCatchUp
