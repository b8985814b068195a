SPECIFICATION Spec
CONSTANTS
  ti1 = ti1
  ti2 = ti2
  dr = dr
  dg = dg
  l1 = l1
  l2 = l2
  Row <- MCRow
  TableOf <- MCTableOf
  ExecutorOf <- MCExecutorOf
  StatesOf <- MCStatesOf
  Lane = {l1, l2}
  LaneOf <- MCLaneOf
  BatchSize = 2
  MaxRetries = 1
  MaxChanges = 4
  MaxFailures = 1
INVARIANTS
  TypeOK
  NothingPassedOver
  LostOnlyNearPoison
  LatestEventIsCurrent
PROPERTIES
  Drains
CHECK_DEADLOCK FALSE
