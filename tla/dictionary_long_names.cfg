SPECIFICATION Spec
CONSTANTS
  CellSize = 2
  NameMod = 4
  HandlerMod = 4
  DataMod = 4
  CellMod = 8
  Capacity = 12
  StackCells = 2
  MaxWords = 0
  Writers <- MCRuntime
  Requests <- MCLongNames
INVARIANT NewestDefinitionFound
