CONSTANTS
  NumBenchmarks = 5
  NumCategories = 4
  CategoryBenchmarkMap <- MCMap
  MaxWords = 2
SPECIFICATION Spec
INVARIANTS
  TypeOK
  ListsSelection
  RunsAsAsked
CHECK_DEADLOCK FALSE
