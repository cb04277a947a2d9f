CONSTANTS
  StackLimit = 3
  ByteValues = 16
  ValueBound = 200
  AnyAtMost = 4
  PushingAtMost = 5
  Scenarios <- MCScenarios
SPECIFICATION LoopSpec
INVARIANTS
  StackWithinLimit
PROPERTIES
  FaultKeepsState
CHECK_DEADLOCK FALSE
