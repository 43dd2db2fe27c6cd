SPECIFICATION Spec
CONSTANTS
  MaxDefs = 4
  Inputs <- MCInputs
INVARIANTS ComponentsMerged NothingLost
PROPERTY Ends
