SPECIFICATION Spec
CONSTANTS
  BlockEvery = 500
  FunctionEvery = 160
  UnitEvery = 600
  Units <- MCUnits
INVARIANTS TypeOK AddressesFound PoolsSkipped PoolsNear
