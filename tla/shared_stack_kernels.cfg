SPECIFICATION Spec
CONSTANTS
  StackSize = 4
  MemorySize = 5
  CellBytes = 2
  ByteBits = 2
  MaxWords = 2
  DataSeeds <- MCDataSeeds
  ReturnSeeds <- MCReturnSeeds
  SeedMemory <- MCSeedMemory
INVARIANTS TypeOK VariantsAgree
PROPERTIES WordsImplementEffects
CHECK_DEADLOCK FALSE
