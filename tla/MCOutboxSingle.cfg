SPECIFICATION FairSpec
CONSTANTS
  Runners = {r1}
  Events = {1, 2, 4}
  Types <- MCTypes
  TypeOf <- MCTypeOf
  Registered <- MCRegistered
  NoTimeout <- MCNoTimeout
  MaxAttempts = 2
  BatchSize = 2
  MaxFaults = 2
PROPERTIES
  ImplementsClaims
  SettledUnlessHung
INVARIANT CallsWithinBudget
CHECK_DEADLOCK FALSE
