SPECIFICATION Spec
CONSTANTS
  Arrays <- MCArrays
  Dims <- MCDims
  Programs <- MCPrograms
  Refers <- MCRefers
  GlobalAt <- MCGlobalAt
  Entry <- MCEntry
  FrameWords = 14
  Junk = 7
INVARIANTS TypeOK ElementsReached MemoryMatches
