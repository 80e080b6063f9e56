CONSTANTS
  Cost = {4}
  Delay = {1, 250}
  Step = 100
  Limit = 600
  IntHalf = 128
  Full = 4
  MinSpeed = {3}
  MaxDecrease = {1}
  MaxTickKnown = {TRUE}
  TickKnown = {TRUE}
  MayMigrate = FALSE
SPECIFICATION CoreSpec
INVARIANTS
  WorksEveryBatch
CHECK_DEADLOCK FALSE
