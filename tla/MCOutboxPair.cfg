SPECIFICATION FairSpec
CONSTANTS
  Runners = {r1, r2}
  Events = {1, 3}
  Types <- MCTypes
  TypeOf <- MCTypeOf
  Registered <- MCRegistered
  NoTimeout <- MCNoTimeout
  MaxAttempts = 2
  BatchSize = 2
  MaxFaults = 0
INVARIANTS
  AttemptsWithinBudget
  CompletedWasDelivered
PROPERTY
  SettledUnlessHung
CHECK_DEADLOCK FALSE
