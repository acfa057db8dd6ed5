SPECIFICATION MCSpec
CONSTANTS
  Workers <- MCWorkers
  Constraints = {1, 2}
  Cost = 2
  RopeRates = {1, 3}
  BufferCaps = {1, 2, 5}
  MaxSystemItems = 3
  MaxItems = 4
  MaxTime = 0
  MaxArrivals = 5
CHECK_DEADLOCK FALSE
INVARIANTS
  ItemsConserved
  SettledIsWorkConserving
  ConstraintNeverStarved
PROPERTIES
  ReleasedItemsFinish
