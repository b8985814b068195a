SPECIFICATION Spec
CONSTANTS
  Dag = {d1, d2}
  NoCron = {d2}
  Updater = {u1, u2}
  MaxReceives = 2
  MaxChanges = 3
  MaxFailures = 1
INVARIANTS
  TypeOK
  StaleOnlyByRaceOrExpiry
PROPERTIES
  EventuallyHandled
CHECK_DEADLOCK FALSE
