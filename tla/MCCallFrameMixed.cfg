SPECIFICATION Spec
CONSTANTS
  Functions <- MixedFunctions
  Bottom = 60
  Share = 15
  MaxDepth = 2
INVARIANTS ArgumentsArrive
