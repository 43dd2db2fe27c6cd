SPECIFICATION Spec
CONSTANTS
  Names <- MCNames
  Inputs <- MCInputs
  MaxCallLevel = 6
  NullaryAnywhere = FALSE
INVARIANTS TypeOK TreesBuilt InitialisersKept NamesResolved
