SPECIFICATION Spec
CONSTANTS
  Functions <- MCFunctions
  Bottom = 133
  Share = 44
  MaxDepth = 3
INVARIANTS TypeOK RegistersKept
PROPERTIES Implements
