SPECIFICATION FairSpec
CONSTANTS
  r1 = r1
  r2 = r2
  key = key
  tenant = tenant
  Requests <- MCRequests
  Cancellable <- MCCancellable
  Direct <- MCNoDirect
  KeyOf <- MCKeyOf
  TenantOf <- MCTenantOf
  TenantLimit = 2
  Delegating = TRUE
  Faults <- MCNoFaults
  NoKey = NoKey
  NoTask = NoTask
INVARIANTS
  OrchestratorsAreIsolated
CHECK_DEADLOCK FALSE
