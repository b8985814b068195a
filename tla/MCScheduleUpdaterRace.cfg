SPECIFICATION Spec
CONSTANTS
  Dag = {d1}
  NoCron = {}
  Updater = {u1, u2}
  MaxReceives = 2
  MaxChanges = 2
  MaxFailures = 0
INVARIANT RuleFollowsDag
CHECK_DEADLOCK FALSE
