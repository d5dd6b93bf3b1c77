CONSTANTS
  Calls <- MCCalls
  Tick = 2
  Ceiling <- MCCeiling
  FuelPerMs = 1
  MaxEpoch = 3
SPECIFICATION Spec
INVARIANT FreeNeedsNothing
CHECK_DEADLOCK FALSE
