\* Scaling, every control and a failing fn around CloseInput: an unbuffered
\* stage, an oversize Submit that is rejected or overtaken by a lowered limit,
\* and one that gives up.
SPECIFICATION StageSpec
CONSTANTS
  a = a
  b = b
  c = c
  none = none
  None = none
  Items <- TwoItems
  Weight <- MixedTwo
  Policies = {"Reject"}
  InitMaxWIP = 2
  OptMaxWIPWeight = 2
  MaxWIPArgs = {1}
  WeightArgs = {1}
  Capacity = 0
  InitWorkers = 2
  MaxSpawned = 3
  FailFast = TRUE
  MayFail = {a}
  Impatient = {a}
  WorkerArgs = {1, 2}
  ParentMayCancel = FALSE
  MayPause = TRUE
CHECK_DEADLOCK FALSE
INVARIANTS
  SlotLedger
  NoSendOnClosedInput
  WorkersWithinTarget
