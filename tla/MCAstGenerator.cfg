SPECIFICATION Spec
CONSTANTS
  Metadatas <- Generated
INVARIANTS
  TypeOK
  OwnUnit
  Reprints
  Faithful
PROPERTIES
  Termination
CHECK_DEADLOCK FALSE
