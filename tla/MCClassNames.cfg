CONSTANTS
  MaxSteps = 4
  MaxTypes = 2
SPECIFICATION Spec
INVARIANTS
  RoundTrip
  SubstitutionsAgree
  CutNamesShown
  TailKept
  ClassKept
CHECK_DEADLOCK FALSE
