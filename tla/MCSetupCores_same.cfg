CONSTANTS
  NumCpus = 2
  Allowed = {0, 1}
  Option <- MCOption
SPECIFICATION Spec
INVARIANTS
  SecondaryDifferent
CHECK_DEADLOCK FALSE
