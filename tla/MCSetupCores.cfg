CONSTANTS
  NumCpus = 4
  Allowed = {0, 1, 2}
  Option <- MCOption
SPECIFICATION FairSpec
INVARIANTS
  TypeOK
  DistinctOrWarned
  ChildIsFree
  BenchmarksPinned
PROPERTIES
  SetupEnds
  TerminatedForAReason
CHECK_DEADLOCK FALSE
