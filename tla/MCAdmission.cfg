SPECIFICATION AdmissionSpec
CONSTANTS
  a = a
  b = b
  c = c
  d = d
  Items <- MCItems
  Weight <- MCWeight
  Policies = {"Reject", "Wait", "Allow"}
  InitMaxWIP = 2
  OptMaxWIPWeight = 2
  MaxWIPArgs = {1, 3}
  WeightArgs = {0, 3}
INVARIANTS
  TypeOK
  PermitConservation
PROPERTIES
  ImplementsPool
  FifoGrants
  WeightLimitRespected
  NoMissedGrant
