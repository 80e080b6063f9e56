CONSTANTS
  Cost = {4}
  Delay = {0}
  Step = 100
  Limit = 600
  IntHalf = 128
  Full = 4
  MinSpeed = {3}
  MaxDecrease = {1}
  MaxTickKnown = {TRUE}
  TickKnown = {TRUE, FALSE}
  MayMigrate = FALSE
SPECIFICATION CoreSpec
INVARIANTS
  WarmMeansReached
CHECK_DEADLOCK FALSE
