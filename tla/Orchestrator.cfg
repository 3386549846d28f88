SPECIFICATION FairSpec
CONSTANTS
  e1 = e1
  e2 = e2
  e3 = e3
  front = front
  back = back
  frontRole = frontRole
  backRole = backRole
  Executions <- MCExecutions
  Cuttable <- MCCuttable
  Limit = 2
  Types <- MCTypes
  RoleOf <- MCRoleOf
  MaxIterations = 5
  CallLists <- MCCallLists
  NoList = NoList
INVARIANTS
  TypeOK
  TurnsAreRemembered
  HistoryStaysUsable
PROPERTIES
  FinalizedIsReviewed
  ExecutionEnds
CHECK_DEADLOCK FALSE
