CONSTANTS
  StackLimit = 3
  ByteValues = 16
  ValueBound = 100
  LexemesAtMost = 4
  PhrasesAtMost = 4
  Sources <- MCSources
  Scenarios = {}
SPECIFICATION Spec
INVARIANTS
  SlotsReserved
  AcceptsExactlyWellFormed
  OnInstruction
PROPERTIES
  ImplementsSource
  Terminates
CHECK_DEADLOCK FALSE
