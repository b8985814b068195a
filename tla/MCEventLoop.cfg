SPECIFICATION Spec
CONSTANTS
  a = a
  b = b
  Dags <- MCDags
  PoolSlots = 1
  Manual = manual
INVARIANTS
  TypeOK
  DagIsArmed
  IntervalsSkippedByManualRunOnly
  NoWorkWithoutWakeUp
  UpdatesConsumedOnce
PROPERTIES
  RunsWithinLimit
  RunEnds
CHECK_DEADLOCK FALSE
