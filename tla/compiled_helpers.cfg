SPECIFICATION Spec
CONSTANTS
  ArenaSize = 32
  ByteBits = 2
  CopyCalls <- MCCopyCalls
  CompareCalls <- MCCompareCalls
  WalkCalls <- MCWalkCalls
  ThresholdCalls <- MCThresholdCalls
  StagedCalls <- MCStagedCalls
  NodeValues = {1, 2}
  MaxNodes = 4
  Half = 3
  StackSize = 3
  CellLiterals = {0, 1, 2}
  CellOpcodes = {"+", "-", "*", "/", "%", "=", "?"}
  MaxCellCount = 7
  STACK_SIZE = 3
  StackValues = {0, 1}
  FieldNames <- MCFieldNames
  bit_offset <- MCBitOffset
  bit_width <- MCBitWidth
  StorageBits = 4
  ValueBits = {1, 4}
  StructDeclarations <- MCStructDeclarations
  Preds = {"p", "q", "r"}
  MaxArity = 2
  MaxEntries = 2
  MergeCalls <- MCMergeCalls
  RegionCalls <- MCRegionCalls
  ModuleIds = {"a", "b"}
  MaxGeneration = 4
  MaxEffects = 4
  ExportNames = {"e", "f"}
  ExportSignatures = {"i64_of_i64", "i64_of_none"}
  MaxBodies = 2
INVARIANTS
  TypeOK ChunksMakeTheCopy ResultsAreRight ArenaIsHistory ListResults FieldsAreIndependent
  LayoutIsLlvmLayout PhisMatchPredecessors ResourcesBalanced CallablesAreWhole
PROPERTIES EveryCallEnds EvalImplementsRpnStack OnlyBoundStackChanges RefusalEmitsNothing
  StaleTokensAreDead
CHECK_DEADLOCK FALSE
