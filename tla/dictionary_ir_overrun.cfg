SPECIFICATION Spec
CONSTANTS
  CellSize = 2
  NameMod = 4
  HandlerMod = 4
  DataMod = 4
  CellMod = 8
  Capacity = 6
  StackCells = 4
  MaxWords = 3
  Writers <- MCIR
  Requests <- MCRequests
INVARIANT StacksUntouched
