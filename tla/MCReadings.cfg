SPECIFICATION ReadingsSpec
CONSTANTS
  temp = temp ph = ph
  Fields = {temp, ph}
  Peripherals = {"ds18b20-4", "ph-34"}
  NsOf <- MCNsOf
  Wanted = {temp}
  Short = 1
  Long = 2
  MaxRows = 2
  MaxTime = 3
INVARIANTS NeverGoesBack ChartComplete
PROPERTY LastReadingsShown
CHECK_DEADLOCK FALSE
