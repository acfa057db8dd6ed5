SPECIFICATION FairObservingSpec
CONSTANTS
  WorkMax = 7
  CountMax = 3
  NaN = NaN
  Tokens = {"p", "q"}
  Interest = "p"
  MaxPayload = 1
  Users = {"user"}
  Garbage = Garbage
  ForeignMessages <- MCForeign
  MaxSent = 2
  StageNames = {"x", "z"}
  MaxTime = 2
  PipelineID = "p"
  Observed <- MCObserved
  MaxItems = 1
  MaxClockSteps = 1
  AdapterID = "p"
  Sources <- MCSources
  NameOrder <- MCNameOrder
  Required = {"completions"}
  OptionalFields = {}
  PollInterval = 1
  StalenessWindows = 2
  MaxCount = 1
  Publishers = {"observer", "adapter", "program"}
  Subscribing = {"program"}
  Batches <- MCBatches
  Diagnoses <- MCDiagnoses
CHECK_DEADLOCK FALSE
INVARIANTS
  HeardAddsUp
  QuietAfterClose
  ConversionsAreFaithful
PROPERTIES
  SubscriptionEnds
