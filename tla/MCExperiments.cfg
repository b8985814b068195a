SPECIFICATION Spec
CONSTANTS
  d1 = d1
  d2 = d2
  Dag = {d1, d2}
  ExportDag = export
  Plan <- MCPlan
  MaxFailures = 2
INVARIANTS
  TypeOK
  ResultsAreItsOwn
CHECK_DEADLOCK FALSE
