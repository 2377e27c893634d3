SPECIFICATION Spec
CONSTANTS
  Metadatas <- Undecodable
INVARIANTS
  NoNullType
CHECK_DEADLOCK FALSE
