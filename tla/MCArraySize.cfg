SPECIFICATION SignatureSpec
CONSTANTS
  Encodings <- Texts
  Phrases <- AllPhrases
  Signatures <- SomeSignatures
  Sizes <- TwoDigits
INVARIANTS
  RoundTrip
CHECK_DEADLOCK FALSE
