SPECIFICATION Spec
CONSTANTS
  taskInstance = taskInstance
  taskFail = taskFail
  instance = instance
  mappedInstance = mappedInstance
  failure = failure
  r1 = r1
  r2 = r2
  Runner = {r1, r2}
  Row = {instance, mappedInstance, failure}
  Models <- MCModels
  Rebuilt = {taskInstance}
  Latest = 3
  TableOf <- MCTableOf
  RunIdAt <- MCRunIdAt
  MapIndexAt = 3
  Mapped = {mappedInstance}
  Connections = 2
  MaxCalls = 3
  MaxKilled = 1
  MaxRemoved = 2
SYMMETRY Symmetry
INVARIANTS
  TypeOK
  MigrationsAlone
PROPERTIES
  NothingLost
  StampIsTrue
  CompletedIsLatest
CHECK_DEADLOCK FALSE
