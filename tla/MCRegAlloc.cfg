SPECIFICATION Spec
CONSTANTS
  IntRegs <- MCIntRegs
  FpRegs <- MCFpRegs
  Programs <- MCPrograms
  NearSlots = 1
INVARIANTS TypeOK RunsLikeVirtual
PROPERTIES UsesReloaded EveryVregMapped SharingKept CarriedKept
