SPECIFICATION Spec
CONSTANTS
  Half = 128
  StackCapacity = 2
  ReturnCapacity = 2
  MaxInstructions = 2
  Modes <- MCStepOnly
  Scenarios <- MCLongScenarios
INVARIANT EveryHandlerIsChecked
CHECK_DEADLOCK FALSE
