SPECIFICATION Spec
CONSTANTS
  IntRegs <- MCIntRegs
  FpRegs <- MCFpRegs
  Programs <- MCFetch
  NearSlots = 1
INVARIANT RunsLikeVirtual
