CONSTANTS
  Calls <- MCCalls
  Tick = 2
  Ceiling <- MCCeiling
  FuelPerMs = 1
  MaxEpoch = 3
SPECIFICATION Spec
INVARIANTS
  TypeOK
  RunsOnlySanctioned
  InterruptedNotEarly
  TickerJoined
PROPERTY
  Returns
CHECK_DEADLOCK FALSE
