SPECIFICATION SignatureSpec
CONSTANTS
  Encodings <- Texts
  Phrases <- AllPhrases
  Signatures <- SomeSignatures
  Sizes <- OneDigit
INVARIANTS
  RoundTrip
CHECK_DEADLOCK FALSE
