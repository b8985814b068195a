SPECIFICATION Spec
CONSTANTS
  ti1 = ti1
  ti2 = ti2
  dr = dr
  dg = dg
  l1 = l1
  l2 = l2
  Row <- MCRow
  TableOf <- MCTableOf
  ExecutorOf <- MCExecutorOf
  StatesOf <- MCStatesOf
  Lane = {l1, l2}
  LaneOf <- MCLaneOf
  BatchSize = 2
  MaxRetries = 1
  MaxChanges = 1
  MaxFailures = 0
INVARIANT RetryWakesScheduler
CHECK_DEADLOCK FALSE
