CONSTANTS
  StackLimit = 8
  ByteValues = 256
  ValueBound = 200
  AnyAtMost = 0
  PushingAtMost = 0
  Scenarios <- DocolCall
SPECIFICATION LoopSpec
INVARIANTS
  CallsMatchMetadata
CHECK_DEADLOCK FALSE
