SPECIFICATION MCSpec
CONSTANTS
  A = A
  B = B
  C = C
  NoStage = NoStage
  Stages = {A, B, C}
  Samples <- MCSamples
  Drums = {A}
  HysteresisWindows = 3
  DemotionWindows = 2
  MaxCount = 3
  Donors = {A, B, C}
  Receivers = {A, C}
  MinWorkers <- MCMin
  MaxWorkers <- MCMax
  StartWorkers = 2
  Cooldown = 2
  Stoppable = {A}
  MaxHandles = 5
INVARIANTS DiagnosisValid WithinPolicy WorkersConserved
PROPERTIES IncumbentEarned MovesRespectMax
