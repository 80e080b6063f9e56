CONSTANTS
  Calls <- MCCalls
  Den = 10
  IntMax = 50000
SPECIFICATION FairSpec
INVARIANTS
  TypeOK
  ArithmeticDefined
  ResultConsistent
  ReachesTarget
  SpentBounded
PROPERTIES
  Terminates
CHECK_DEADLOCK FALSE
