SPECIFICATION Spec
CONSTANTS
  PtrSpan = 1000
  Empty = ""
  MaxHoles = 2
  Images <- MCImages
INVARIANTS
  TypeOK
  CursorOnTarget
  WellNested
  PointersValid
  LookupLatest
  NestingBounded
PROPERTIES
  ImplementsMetadata
  Termination
CHECK_DEADLOCK FALSE
