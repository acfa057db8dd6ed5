SPECIFICATION AdmissionSpec
CONSTANTS
  a = a
  b = b
  c = c
  d = d
  Items <- MCItems
  Weight <- MCWeight
  Policies = {"Allow"}
  InitMaxWIP = 2
  OptMaxWIPWeight = 1
  MaxWIPArgs = {}
  WeightArgs = {}
PROPERTY OneOversizeAtATime
