SPECIFICATION FairStageSpec
CONSTANTS
  a = a
  b = b
  c = c
  none = none
  None = none
  Items <- TwoItems
  Weight <- TwoUnits
  Policies = {"Wait"}
  InitMaxWIP = 2
  OptMaxWIPWeight = 0
  MaxWIPArgs = {}
  WeightArgs = {}
  Capacity = 1
  InitWorkers = 1
  MaxSpawned = 2
  FailFast = TRUE
  MayFail = {a, b}
  Impatient = {}
  WorkerArgs = {1, 2}
  ParentMayCancel = TRUE
  MayPause = TRUE
CHECK_DEADLOCK FALSE
INVARIANTS
  CauseIsHonest
  NothingLeftBehind
PROPERTIES
  ImplementsContract
  ShutdownCompletes
  SubmitsReturn
  AcceptedDelivered
