SPECIFICATION Spec
CONSTANTS
  a = a
  b = b
  c = c
  a1 = a1
  b1 = b1
  b2 = b2
  c1 = c1
  r1 = r1
  r2 = r2
  r3 = r3
  d1 = d1
  d2 = d2
  p = p
  NoLimit = NoLimit
  NoScheduler = NoScheduler
  TI <- MCTI
  Run <- MCRun
  Task <- MCTask
  Dag = {d1, d2}
  Pool = {p}
  RunOf <- MCRunOf
  TaskOf <- MCTaskOf
  DagOf <- MCDagOf
  PoolOf <- MCPoolOf
  Slots <- MCSlots
  MaxActiveTasks <- MCMaxActiveTasks
  TaskLimit <- MCTaskLimit
  Rank <- MCRank
  MaxTis = 2
  PoolSizes = {2}
  Unstable = {d1}
  Scheduler = {s1, s2}
SYMMETRY MCSymmetry
INVARIANTS
  TypeOK
  NoMissedWork
  PriorityRespected
PROPERTIES
  RespectsLimits
  QueuesOnlyScheduled
