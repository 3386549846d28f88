SPECIFICATION FairSpec
CONSTANTS
  d1 = d1
  d2 = d2
  t1 = t1
  t2 = t2
  Dispatches <- MCDispatches
  Streaming <- MCStreaming
  Prompting <- MCPrompting
  Tasks <- MCTasks
  TaskOf <- MCTaskOf
  Slots <- MCSlots
  Faults <- MCFaults
  MaxUses = 2
  MaxCancels = 2
  NoTask = NoTask
  Nobody = Nobody
  NoContainer = NoContainer
  NotStarted = NotStarted
INVARIANTS
  TypeOK
  ExclusiveLease
  LeaseBacked
  BusyAccounted
  SuccessIsOwnWork
PROPERTIES
  LeaseSpec
  ContainerComesBack
CHECK_DEADLOCK FALSE
