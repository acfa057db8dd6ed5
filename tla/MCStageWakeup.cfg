SPECIFICATION FairStageSpec
CONSTANTS
  a = a
  b = b
  c = c
  none = none
  None = none
  Items <- ThreeItems
  Weight <- HeavyFirst
  Policies = {"Wait"}
  InitMaxWIP = 2
  OptMaxWIPWeight = 1
  MaxWIPArgs = {}
  WeightArgs = {}
  Capacity = 1
  InitWorkers = 1
  MaxSpawned = 1
  FailFast = FALSE
  MayFail = {}
  Impatient = {b}
  WorkerArgs = {}
  ParentMayCancel = FALSE
  MayPause = FALSE
CHECK_DEADLOCK FALSE
PROPERTY BlockedOnlyAtLimit
