SPECIFICATION FairNetSpec
CONSTANTS
  a = a
  b = b
  e = e
  Inputs <- MCInputs
  BatchSize = 2
  Threshold = 2
  WeightFn <- MCWeightFn
  FnMayPanic = TRUE
  MayCancel = TRUE
CHECK_DEADLOCK FALSE
INVARIANTS
  OperatorsAccount
  LossIsReported
  UncanceledIsComplete
PROPERTIES
  NetworkEnds
