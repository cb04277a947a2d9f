SPECIFICATION Spec
CONSTANTS
  Half = 4
  StackSize = 3
  MaxCells = 7
  Literals = {0, 1, 2, 3}
  Opcodes = {"+", "-", "*", "/", "%", "=", "^"}
  Contexts = {"fresh", "reused"}
INVARIANTS TypeOK ValuesMatchSource
PROPERTY ImplementsRpnStack
CHECK_DEADLOCK FALSE
