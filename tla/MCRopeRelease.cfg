SPECIFICATION SupervisorSpec
CONSTANTS
  Baseline <- MCNoBaseline
  Ceiling = 2
  MaxInt = 9
  Unlimited = Unlimited
  HeadBudgets = {}
  CustomLimits = {}
  Drums = {"A", "B"}
  BadDrum = BadDrum
  NoDrum = NoDrum
  Clients = {c1}
  WeightMode = TRUE
  RopeLimits = {1}
  MaxDisturbances = 3
  MaxFailedStarts = 1
CHECK_DEADLOCK FALSE
INVARIANTS
  WeightLimitReleased
