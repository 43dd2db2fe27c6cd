SPECIFICATION Spec
CONSTANTS
  Names = {a}
  None = None
  Leaves = 3
  Ints <- MCInts
  Floats <- MCFloats
  Calls <- MCCalls
  Items <- MCItems
INVARIANTS TypeOK ValuesAgree FoldsAgree StoresAgree
CHECK_DEADLOCK FALSE
