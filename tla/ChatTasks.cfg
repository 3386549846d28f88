SPECIFICATION FairSpec
CONSTANTS
  r1 = r1
  r2 = r2
  key = key
  tenant = tenant
  Requests <- MCRequests
  Cancellable <- MCCancellable
  Direct <- MCDirect
  KeyOf <- MCKeyOf
  TenantOf <- MCTenantOf
  TenantLimit = 1
  Delegating = TRUE
  Faults <- MCFaults
  NoKey = NoKey
  NoTask = NoTask
INVARIANTS
  TypeOK
  RunningIsAlive
  EndedIsStored
  SessionAgrees
PROPERTIES
  CancelSticks
  RepeatsAreReplayed
  AcceptedTaskEnds
CHECK_DEADLOCK FALSE
