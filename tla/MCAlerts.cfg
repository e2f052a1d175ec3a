SPECIFICATION FairSpec
CONSTANTS
  Events = {"e1", "e2"}
  MaxDeliveries = 2
  MaxPatches = 1
  MaxRetry = 1
  MaxErrors = 1
  Unrendered <- MCUnrendered
CHECK_DEADLOCK FALSE
INVARIANTS FiringTracked AlertsJustified
PROPERTIES FiringIsAlerted
