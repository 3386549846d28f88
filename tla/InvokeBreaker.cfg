SPECIFICATION FairInvokeSpec
CONSTANTS
  r1 = r1
  r2 = r2
  r3 = r3
  Invocations <- MCRequests
  FailureThreshold = 2
  SuccessThreshold = 2
  Timeout = 2
INVARIANTS
  InvokeTypeOK
  ClosedBelowThreshold
  HalfOpenEarned
PROPERTIES
  RejectsWhileCooling
  RecoversWhenHealthy
