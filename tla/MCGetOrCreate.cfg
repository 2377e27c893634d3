SPECIFICATION Spec
CONSTANTS
  PtrSpan = 1000
  Empty = ""
  MaxHoles = 0
  Images <- MCImages
INVARIANTS
  GetOrCreate
CHECK_DEADLOCK FALSE
