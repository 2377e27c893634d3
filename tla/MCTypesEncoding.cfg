SPECIFICATION Spec
CONSTANTS
  MaxLength = 5
  Encodings <- AnyString
INVARIANTS
  TypeOK
  CallsNest
PROPERTIES
  WorkDecreases
  Termination
CHECK_DEADLOCK FALSE
