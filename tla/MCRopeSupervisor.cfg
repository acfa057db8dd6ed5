SPECIFICATION FairSupervisorSpec
CONSTANTS
  Baseline <- MCNoBaseline
  Ceiling = 2
  MaxInt = 9
  Unlimited = Unlimited
  HeadBudgets <- MCBudgets
  CustomLimits = {9}
  Drums = {"A", "B"}
  BadDrum = BadDrum
  NoDrum = NoDrum
  Clients = {c1}
  WeightMode = TRUE
  RopeLimits = {1}
  MaxDisturbances = 3
  MaxFailedStarts = 1
CHECK_DEADLOCK FALSE
INVARIANTS
  TightestApplied
  PressureHolds
  OneDrivingRope
  StatusAtRest
  GraphAnswers
  BudgetIsNotExceeded
PROPERTIES
  DesiredServed
  StopReleases
