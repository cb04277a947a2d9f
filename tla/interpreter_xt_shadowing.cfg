SPECIFICATION Spec
CONSTANTS
  Half = 128
  StackCapacity = 2
  ReturnCapacity = 2
  MaxInstructions = 2
  Modes <- MCBothModes
  Scenarios <- MCShadowing
INVARIANT XtIsUnambiguous
CHECK_DEADLOCK FALSE
