SPECIFICATION Spec
CONSTANTS
  CellSize = 2
  NameMod = 4
  HandlerMod = 4
  DataMod = 4
  CellMod = 8
  Capacity = 9
  StackCells = 4
  MaxWords = 3
  Writers <- MCBoth
  Requests <- MCRequests
INVARIANTS ChainIsHistory EntriesAreDisjoint IterationIsSnapshot LookupsFindTheirWord
PROPERTIES AppendOnly PythonLeavesStacks ImplementsWordList
