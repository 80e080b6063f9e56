CONSTANTS
  Cost = {4, 5, 6}
  Delay = {0, 2}
  Step = 100
  Limit = 300
  IntHalf = 128
  Full = 4
  MinSpeed = {0, 3}
  MaxDecrease = {0, 1}
  MaxTickKnown = {TRUE, FALSE}
  TickKnown = {TRUE}
  MayMigrate = TRUE
SPECIFICATION FairCoreSpec
INVARIANTS
  CoreTypeOK
  WorksEveryBatch
  ReturnsByLimit
  WarmMeansReached
  NeverThrottled
PROPERTIES
  WarmupReturns
CHECK_DEADLOCK FALSE
