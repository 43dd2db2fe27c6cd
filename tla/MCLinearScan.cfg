SPECIFICATION Spec
CONSTANTS
  MaxIntervals = 4
  MaxTime = 4
  IntRegs <- MCIntRegs
  FpRegs <- MCFpRegs
  Inputs <- MCInputs
INVARIANTS
  TypeOK NoClash VictimExists NoNeedlessSpill SavedConsecutive
PROPERTIES
  LatestEndSpilled
