SPECIFICATION Spec
CONSTANTS
  Half = 128
  StackCapacity = 2
  ReturnCapacity = 2
  MaxInstructions = 2
  Modes <- MCBothModes
  Scenarios <- MCAllScenarios
INVARIANTS TypeOK StateIsConsistent
PROPERTIES OnlyExecuteOverruns ImplementsForthMachine LoopFreeProgramsStop
CHECK_DEADLOCK FALSE
