-------------------------- MODULE EventLoop_proofs --------------------------
(***************************************************************************)
(* The event loop: a dag is armed again, skips no interval, is woken when  *)
(* there is work, consumes every update of its dataset once, and keeps     *)
(* max_active_runs when it creates runs as when it starts them.            *)
(***************************************************************************)
EXTENDS EventLoop, FiniteSetTheorems, WellFoundedInduction, TLAPS

-----------------------------------------------------------------------------
(* The operators of the model.                                             *)

\* A non-empty set of naturals up to n has a maximum, and Max finds it.
LEMMA MaxExists ==
  ASSUME NEW n \in Nat, NEW S \in SUBSET (0 .. n), S # {}
  PROVE  Max(S) \in S /\ \A y \in S : Max(S) >= y
<1> DEFINE bounds == {k \in Nat : \A y \in S : y <= k}
<1>1. n \in bounds  OBVIOUS
<1>2. PICK m \in bounds :
        \A k \in bounds : ~(<<k, m>> \in OpToRel(<, Nat))
  BY <1>1, NatLessThanWellFounded, WFMin, Zenon
<1>3. \A k \in bounds : ~(k < m)  BY <1>2, Zenon DEF OpToRel
<1>4. m \in S
  <2>1. SUFFICES ASSUME m \notin S  PROVE FALSE  OBVIOUS
  <2>0. m \in bounds  OBVIOUS
  <2>2. /\ m \in Nat /\ \A y \in S : y <= m
        /\ \A y \in S : y \in Nat /\ y # m
    BY <2>0, <2>1
  <2>3. m # 0
    <3>1. PICK y \in S : y \in Nat /\ y <= m /\ y # m  BY <2>2
    <3> QED  BY <2>2, <3>1
  <2>4. m - 1 \in Nat /\ m - 1 \in bounds
    <3>1. m - 1 \in Nat  BY <2>2, <2>3
    <3>2. \A y \in S : y <= m - 1  BY <2>2
    <3> QED  BY <3>1, <3>2
  <2> HIDE DEF bounds
  <2> QED  BY <1>3, <2>2, <2>4
<1>5. \E x \in S : \A y \in S : x >= y  BY <1>4
<1> QED  BY <1>5 DEF Max

\* The smaller of two, where both are there.
LEMMA MinOfTwo ==
  ASSUME NEW a \in Int, NEW b \in Int
  PROVE  Min({a, b}) \in {a, b} /\ Min({a, b}) <= a /\ Min({a, b}) <= b
<1>1. \E x \in {a, b} : \A y \in {a, b} : x =< y
  <2>1. CASE a <= b  BY <2>1
  <2>2. CASE b <= a  BY <2>2
  <2> QED  BY <2>1, <2>2
<1>2. Min({a, b}) \in {a, b} /\ \A y \in {a, b} : Min({a, b}) =< y  BY <1>1 DEF Min
<1> QED  BY <1>2

\* What the assumption says of the dag at hand.
LEMMA DagFacts ==
  ASSUME dag \in Dags
  PROVE  /\ dag.max_active_runs \in Nat \ {0} /\ dag.retries \in Nat
         /\ dag.schedule \in {"cron", "dataset"} /\ dag.intervals \in Nat
         /\ dag.disturbances \in Nat /\ PoolSlots \in Nat
         /\ Interval \subseteq Nat /\ 0 \notin Interval /\ Manual \notin Interval
         /\ IsFiniteSet(Run) /\ IsFiniteSet(TI)
         /\ Run = Interval \cup {Manual}
<1>1. /\ dag.max_active_runs \in Nat \ {0} /\ dag.retries \in Nat
      /\ dag.schedule \in {"cron", "dataset"} /\ dag.intervals \in Nat
      /\ dag.disturbances \in Nat /\ PoolSlots \in Nat
      /\ IsFiniteSet(DOMAIN dag.upstream) /\ Manual \notin 1 .. dag.intervals
  BY LoopAssumption
<1>2. IsFiniteSet(Interval)
  <2>1. PICK n \in Int : n = dag.intervals  BY <1>1
  <2>2. IsFiniteSet(1 .. n)  BY FS_Interval
  <2> QED  BY <2>1, <2>2 DEF Interval
<1>3. IsFiniteSet(Run)  BY <1>2, FS_AddElement DEF Run
<1>4. IsFiniteSet(TI)  BY <1>1, <1>3, FS_Product DEF TI
<1>5. Interval \subseteq Nat /\ 0 \notin Interval  BY <1>1 DEF Interval
<1> QED  BY <1>1, <1>3, <1>4, <1>5 DEF Interval, Run

\* The rules: what ends or is to be scheduled wakes the scheduler.
LEMMA Rules ==
  /\ Wakes("none") /\ Wakes("scheduled") /\ Wakes("success") /\ Wakes("failed")
  /\ Wakes("upstream_failed")
  /\ "scheduler" \in DagRunRoute("success") /\ "scheduler" \in DagRunRoute("failed")
  /\ DagRunRoute("queued") = {} /\ "scheduler" \in DagRoute
BY DEF Wakes, TaskRoute, WakingStates, Converts, ConvertibleStates, DagRunRoute, DagRoute

-----------------------------------------------------------------------------
(* Types.                                                                  *)

\* A row of the dataset queue that was read stays until it is deleted, only a
\* pass that examines has runs to examine, and a dag has one kind of schedule.
Shape ==
  /\ loop.pc = "consume" => loop.due # 0 /\ loop.due = queuedAt
  /\ loop.pc # "examine" => loop.todo = {}
  /\ dag.schedule = "dataset" => next = 1 /\ ~armed
  /\ dag.schedule = "cron" => queuedAt = 0 /\ \A u \in Interval : update[u] = "none"

LEMMA SameDag ==
  ASSUME [Next]_vars
  PROVE  dag' = dag /\ Interval' = Interval /\ Run' = Run /\ TI' = TI
<1>1. dag' = dag
  BY DEF Next, vars, Tick, CronEvent, TogglePause, TriggerRun, MarkRun, StampUpdate,
         CommitUpdate, SchedulerStep, Wake, CreateRun, ReadQueue, CreateDatasetRun,
         StartRuns, ExamineRun, QueueTis, RunTimers, FailPass, WorkerStep, StartTi,
         EndTi, RetryTi, RetryDue, datasetVars, dagVars
<1>2. Interval' = Interval  BY <1>1 DEF Interval
<1>3. Run' = Run  BY <1>2 DEF Run
<1>4. TI' = TI  BY <1>1, <1>3, Zenon DEF TI
<1> QED  BY <1>1, <1>2, <1>3, <1>4, Zenon

\* A step that makes no run RUNNING keeps their number within max_active_runs.
LEMMA NoMoreRunning ==
  ASSUME TypeOK, [Next]_vars, \A r \in Run : run'[r] = "running" => run[r] = "running"
  PROVE  Cardinality(With("running")') <= dag'.max_active_runs
<1>1. With("running")' \in SUBSET With("running")  BY SameDag DEF With
<1>2. /\ IsFiniteSet(With("running")) /\ Cardinality(With("running")) \in Nat
      /\ dag.max_active_runs \in Nat
      /\ Cardinality(With("running")) <= dag.max_active_runs
  BY DagFacts, FS_Subset, FS_CardinalityType DEF TypeOK, With
<1>3. /\ Cardinality(With("running")') \in Nat
      /\ Cardinality(With("running")') <= Cardinality(With("running"))
  BY <1>1, <1>2, FS_Subset, FS_CardinalityType
<1> QED  BY <1>2, <1>3, SameDag

\* The users and the workers.
LEMMA OutsideTypes ==
  ASSUME TypeOK, Shape, [Next]_vars,
         \/ Tick \/ CronEvent \/ TogglePause \/ TriggerRun \/ StampUpdate
         \/ \E r \in Run : MarkRun(r)
         \/ \E u \in Interval : CommitUpdate(u)
         \/ \E ti \in TI : WorkerStep(ti)
  PROVE  TypeOK' /\ Shape'
<1> USE SameDag
<1>0. dag \in Dags  BY DEF TypeOK
<1>1. CASE Tick
  <2>1. now' \in 0 .. dag.intervals  BY <1>0, <1>1, DagFacts DEF TypeOK, Tick
  <2> QED  BY <1>1, <2>1, NoMoreRunning
           DEF TypeOK, Shape, Tick, datasetVars, taskVars
<1>2. CASE CronEvent
  BY <1>2, NoMoreRunning DEF TypeOK, Shape, CronEvent, datasetVars, dagVars, taskVars
<1>3. CASE TogglePause
  <2>1. disturbances' \in 0 .. dag.disturbances
    BY <1>0, <1>3, DagFacts DEF TypeOK, TogglePause
  <2> QED  BY <1>3, <2>1, NoMoreRunning
           DEF TypeOK, Shape, TogglePause, datasetVars, taskVars
<1>4. CASE TriggerRun
  <2>1. run' \in [Run -> DagRunState \cup {"none"}]
    BY <1>4 DEF TypeOK, TriggerRun, DagRunState
  <2>2. \A r \in Run : run'[r] = "running" => run[r] = "running"
    BY <1>4 DEF TypeOK, TriggerRun
  <2> QED  BY <1>4, <2>1, <2>2, NoMoreRunning
           DEF TypeOK, Shape, TriggerRun, datasetVars, taskVars
<1>5. CASE StampUpdate
  <2>1. now' \in 0 .. dag.intervals /\ now + 1 \in Interval
    BY <1>0, <1>5, DagFacts DEF TypeOK, StampUpdate, Interval
  <2>2. update' \in [Interval -> {"none", "stamped", "committed"}]
    BY <1>5 DEF TypeOK, StampUpdate
  <2> QED  BY <1>5, <2>1, <2>2, NoMoreRunning
           DEF TypeOK, Shape, StampUpdate, datasetVars, taskVars
<1>6. ASSUME NEW r \in Run, MarkRun(r)  PROVE TypeOK' /\ Shape'
  <2>1. run' \in [Run -> DagRunState \cup {"none"}]
    BY <1>6 DEF TypeOK, MarkRun, DagRunState
  <2>2. \A q \in Run : run'[q] = "running" => run[q] = "running"
    BY <1>6 DEF TypeOK, MarkRun
  <2>3. task' \in [TI -> TaskInstanceState]
    BY <1>6 DEF TypeOK, MarkRun, TaskInstanceState
  <2>4. disturbances' \in 0 .. dag.disturbances
    BY <1>0, <1>6, DagFacts DEF TypeOK, MarkRun
  <2> QED  BY <1>6, <2>1, <2>2, <2>3, <2>4, NoMoreRunning
           DEF TypeOK, Shape, MarkRun, datasetVars
<1>7. ASSUME NEW u \in Interval, CommitUpdate(u)  PROVE TypeOK' /\ Shape'
  <2>1. now' \in 0 .. dag.intervals /\ queuedAt' \in {0} \cup Interval
    <3>1. CASE queuedAt = 0
      BY <1>0, <1>7, <3>1, DagFacts DEF TypeOK, CommitUpdate, Interval
    <3>2. CASE queuedAt # 0
      BY <1>7, <3>2 DEF TypeOK, CommitUpdate
    <3> QED  BY <3>1, <3>2
  <2>2. update' \in [Interval -> {"none", "stamped", "committed"}]
    BY <1>7 DEF TypeOK, CommitUpdate
  <2>3. pending' \in BOOLEAN  BY <1>7 DEF TypeOK, CommitUpdate
  <2>4. TypeOK'
    BY <1>7, <2>1, <2>2, <2>3, NoMoreRunning DEF TypeOK, CommitUpdate, taskVars
  <2>5. loop.pc = "consume" => queuedAt' = queuedAt  BY <1>7 DEF Shape, CommitUpdate
  <2>6. dag.schedule # "cron"  BY <1>7 DEF Shape, CommitUpdate
  <2> QED  BY <1>7, <2>4, <2>5, <2>6 DEF Shape, CommitUpdate
<1>8. ASSUME NEW ti \in TI, WorkerStep(ti)  PROVE TypeOK' /\ Shape'
  <2>1. task' \in [TI -> TaskInstanceState]
    BY <1>8 DEF TypeOK, WorkerStep, StartTi, EndTi, RetryTi, RetryDue, Becomes,
                TaskInstanceState
  <2>2. tries' \in [TI -> 0 .. dag.retries]
    <3>1. CASE tries' = tries  BY <3>1 DEF TypeOK
    <3>2. CASE RetryTi(ti)
      BY <1>0, <3>2, DagFacts DEF TypeOK, RetryTi
    <3> QED  BY <1>8, <3>1, <3>2 DEF WorkerStep, StartTi, EndTi, RetryDue
  <2>3. pending' \in BOOLEAN /\ silent' \in BOOLEAN
    BY <1>8 DEF TypeOK, WorkerStep, StartTi, EndTi, RetryTi, RetryDue, Becomes
  <2>4. UNCHANGED <<dagVars, run, loop, disturbances>>
    BY <1>8 DEF WorkerStep, StartTi, EndTi, RetryTi, RetryDue
  <2> QED  BY <2>1, <2>2, <2>3, <2>4, NoMoreRunning
           DEF TypeOK, Shape, datasetVars, dagVars
<1> QED  BY <1>1, <1>2, <1>3, <1>4, <1>5, <1>6, <1>7, <1>8

\* A pass of the scheduler.
LEMMA RearmTypes ==
  ASSUME TypeOK, Shape, [Next]_vars, NEW i \in 0 .. dag.intervals, NEW A, Rearm(i, A)
  PROVE  /\ next' \in 1 .. dag.intervals + 1 /\ armed' \in BOOLEAN
         /\ marked' \in BOOLEAN
         /\ dag.schedule = "dataset" => next' = 1 /\ ~armed'
<1>1. dag \in Dags  BY DEF TypeOK
<1>2. i + 1 \in 1 .. dag.intervals + 1  BY <1>1, DagFacts
<1> QED  BY <1>1, <1>2, DagFacts DEF TypeOK, Shape, Rearm

LEMMA PassTypes ==
  ASSUME TypeOK, Shape, [Next]_vars, SchedulerStep \/ FailPass
  PROVE  TypeOK' /\ Shape'
<1> USE SameDag
<1>0. dag \in Dags  BY DEF TypeOK
<1>1. CASE Wake
  BY <1>1, NoMoreRunning
  DEF TypeOK, Shape, Wake, NoPass, datasetVars, dagVars, taskVars
<1>2. CASE FailPass
  <2>1. disturbances' \in 0 .. dag.disturbances
    BY <1>0, <1>2, DagFacts DEF TypeOK, FailPass
  <2> QED  BY <1>2, <2>1, NoMoreRunning
           DEF TypeOK, Shape, FailPass, NoPass, datasetVars, dagVars, taskVars
<1>3. CASE ReadQueue
  BY <1>3, NoMoreRunning
  DEF TypeOK, Shape, ReadQueue, DatasetDue, datasetVars, dagVars, taskVars
<1>4. CASE CreateRun
  <2>1. CASE Due
    <3>1. next \in Interval /\ next \in 0 .. dag.intervals
      BY <1>0, <2>1, DagFacts DEF TypeOK, Due, Interval
    <3>2. \E A : Rearm(next, A)  BY <1>4, <2>1 DEF CreateRun
    <3>3. /\ next' \in 1 .. dag.intervals + 1 /\ armed' \in BOOLEAN
          /\ marked' \in BOOLEAN
          /\ dag.schedule = "dataset" => next' = 1 /\ ~armed'
      BY <1>0, <3>1, <3>2, RearmTypes, DagFacts
    <3>4. run' = [run EXCEPT ![next] = IF @ = "none" THEN "queued" ELSE @]
      BY <1>4, <2>1 DEF CreateRun
    <3>5. run' \in [Run -> DagRunState \cup {"none"}]
      BY <3>4 DEF TypeOK, DagRunState
    <3>6. \A r \in Run : run'[r] = "running" => run[r] = "running"
      BY <3>4 DEF TypeOK
    <3>7. pending' \in BOOLEAN  BY <1>4, <2>1 DEF TypeOK, CreateRun
    <3> QED
      BY <1>4, <3>3, <3>5, <3>6, <3>7, NoMoreRunning
      DEF TypeOK, Shape, CreateRun, datasetVars, taskVars
  <2>2. CASE ~Due
    BY <1>4, <2>2, NoMoreRunning DEF TypeOK, Shape, CreateRun, datasetVars, taskVars
  <2> QED  BY <2>1, <2>2
<1>5. CASE CreateDatasetRun
  <2>1. loop.due \in Interval /\ loop.due \in Run
    BY <1>0, <1>5, DagFacts DEF TypeOK, Shape, CreateDatasetRun
  <2>2. run' \in [Run -> DagRunState \cup {"none"}]
    BY <1>5, <2>1 DEF TypeOK, CreateDatasetRun, DagRunState
  <2>3. \A r \in Run : run'[r] = "running" => run[r] = "running"
    BY <1>5 DEF TypeOK, CreateDatasetRun
  <2>4. consumed' \in [Interval -> SUBSET Interval]
    BY <1>5 DEF TypeOK, CreateDatasetRun, Updates
  <2>5. late' \subseteq Interval /\ pending' \in BOOLEAN
    BY <1>5 DEF TypeOK, CreateDatasetRun
  <2> QED
    BY <1>5, <2>2, <2>3, <2>4, <2>5, NoMoreRunning
    DEF TypeOK, Shape, CreateDatasetRun, taskVars
<1>6. CASE StartRuns
  <2>1. PICK S : /\ S \in IF paused THEN {{}} ELSE Startable
                 /\ run' = [r \in Run |-> IF r \in S THEN "running" ELSE run[r]]
                 /\ loop' = [NoPass EXCEPT !.pc = "examine",
                             !.todo = IF paused THEN {} ELSE With("running") \cup S]
    BY <1>6 DEF StartRuns
  <2>2. S \subseteq With("queued") /\ (S # {} => MayStart(S))  BY <2>1 DEF Startable
  <2>3. run' \in [Run -> DagRunState \cup {"none"}]
    BY <2>1 DEF TypeOK, DagRunState
  <2>4. Cardinality(With("running")') <= dag'.max_active_runs
    <3>1. CASE S = {}
      BY <2>1, <3>1, NoMoreRunning
    <3>2. CASE S # {}
      <4>1. With("running")' = With("running") \cup S
        BY <2>1, <2>2 DEF With
      <4> QED  BY <2>2, <3>2, <4>1 DEF MayStart
    <3> QED  BY <3>1, <3>2
  <2>5. With("running") \cup S \subseteq Run  BY <2>2 DEF With
  <2> QED
    BY <1>6, <2>1, <2>3, <2>4, <2>5
    DEF TypeOK, Shape, StartRuns, NoPass, datasetVars, dagVars, taskVars
<1>7. ASSUME NEW r \in loop.todo, ExamineRun(r)  PROVE TypeOK' /\ Shape'
  <2>0. r \in Run  BY DEF TypeOK
  <2>1. /\ loop' \in [pc : {"idle", "create", "consume", "start", "examine", "timers"},
                      due : {0} \cup Interval, todo : SUBSET Run]
        /\ loop'.pc = "examine"
    BY <1>7 DEF TypeOK, ExamineRun
  <2>2. /\ next' \in 1 .. dag.intervals + 1 /\ armed' \in BOOLEAN
        /\ marked' \in BOOLEAN
        /\ dag.schedule = "dataset" => next' = 1 /\ ~armed'
        /\ pending' \in BOOLEAN
        /\ task' \in [TI -> TaskInstanceState]
        /\ run' \in [Run -> DagRunState \cup {"none"}]
        /\ \A q \in Run : run'[q] = "running" => run[q] = "running"
    <3>1. CASE run[r] = "running" /\ EndRun(r)
      <4>1. IntervalOf(r) \in 0 .. dag.intervals
        BY <1>0, <2>0, DagFacts DEF TypeOK, IntervalOf, Interval
      <4>2. \E A : Rearm(IntervalOf(r), A)  BY <3>1 DEF EndRun
      <4>3. /\ next' \in 1 .. dag.intervals + 1 /\ armed' \in BOOLEAN
            /\ marked' \in BOOLEAN
            /\ dag.schedule = "dataset" => next' = 1 /\ ~armed'
        BY <1>0, <4>1, <4>2, RearmTypes
      <4>4. \E end \in {"success", "failed"} : run' = [run EXCEPT ![r] = end]
        BY <3>1 DEF EndRun, Outcome
      <4>5. /\ run' \in [Run -> DagRunState \cup {"none"}]
            /\ \A q \in Run : run'[q] = "running" => run[q] = "running"
        BY <4>4 DEF TypeOK, DagRunState
      <4>6. pending' \in BOOLEAN  BY <3>1 DEF TypeOK, EndRun
      <4>7. task' \in [TI -> TaskInstanceState]
        BY <3>1 DEF TypeOK, EndRun, TaskInstanceState
      <4> QED  BY <4>3, <4>5, <4>6, <4>7
    <3>2. CASE run[r] = "running" /\ ScheduleTis(r)
      <4>1. task' \in [TI -> TaskInstanceState]
        BY <3>2 DEF TypeOK, ScheduleTis, TaskInstanceState
      <4> QED  BY <3>2, <4>1 DEF TypeOK, Shape, ScheduleTis
    <3>3. CASE run[r] # "running"
      BY <1>7, <3>3 DEF TypeOK, Shape, ExamineRun
    <3> QED  BY <1>7, <3>1, <3>2, <3>3 DEF ExamineRun
  <2> QED
    BY <1>7, <2>1, <2>2, NoMoreRunning DEF TypeOK, Shape, ExamineRun, datasetVars
<1>8. CASE QueueTis
  <2>1. task' \in [TI -> TaskInstanceState]
    BY <1>8 DEF TypeOK, QueueTis, TaskInstanceState
  <2> QED
    BY <1>8, <2>1, NoMoreRunning
    DEF TypeOK, Shape, QueueTis, NoPass, datasetVars, dagVars
<1>9. CASE RunTimers
  <2>1. task' \in [TI -> TaskInstanceState]
    BY <1>9 DEF TypeOK, RunTimers, TaskInstanceState
  <2>2. run' \in [Run -> DagRunState \cup {"none"}]
    BY <1>9 DEF TypeOK, RunTimers, DagRunState, Outcome
  <2>3. \A r \in Run : run'[r] = "running" => run[r] = "running"
    BY <1>9 DEF TypeOK, RunTimers, Outcome
  <2>4. pending' \in BOOLEAN /\ marked' \in BOOLEAN  BY <1>9 DEF TypeOK, RunTimers
  <2> QED
    BY <1>9, <2>1, <2>2, <2>3, <2>4, NoMoreRunning
    DEF TypeOK, Shape, RunTimers, NoPass, datasetVars
<1> QED
  BY <1>1, <1>2, <1>3, <1>4, <1>5, <1>6, <1>7, <1>8, <1>9 DEF SchedulerStep

LEMMA TypeInvariance == Spec => [](TypeOK /\ Shape)
<1>1. Init => TypeOK /\ Shape
  <2> SUFFICES ASSUME Init  PROVE TypeOK /\ Shape  OBVIOUS
  <2>1. With("running") = {}  BY DEF Init, With
  <2>2. dag \in Dags  BY DEF Init
  <2>3. 0 \in 0 .. dag.intervals /\ 1 \in 1 .. dag.intervals + 1
        /\ 0 \in 0 .. dag.retries /\ 0 \in 0 .. dag.disturbances
        /\ Cardinality(With("running")) <= dag.max_active_runs
    BY <2>1, <2>2, DagFacts, FS_EmptySet
  <2> HIDE DEF With
  <2> QED  BY <2>2, <2>3, DagFacts DEF Init, TypeOK, Shape, NoPass, TaskInstanceState
<1>2. TypeOK /\ Shape /\ [Next]_vars => (TypeOK /\ Shape)'
  <2> SUFFICES ASSUME TypeOK, Shape, [Next]_vars  PROVE TypeOK' /\ Shape'  OBVIOUS
  <2>1. CASE UNCHANGED vars
    BY <2>1, NoMoreRunning, SameDag DEF TypeOK, Shape, vars
  <2>2. CASE Next
    BY <2>2, OutsideTypes, PassTypes DEF Next
  <2> QED  BY <2>1, <2>2
<1> QED  BY <1>1, <1>2, PTL DEF Spec

\* Every variable has its type, and no more runs run than max_active_runs.
THEOREM TypeCorrect == Spec => []TypeOK
BY TypeInvariance, PTL

-----------------------------------------------------------------------------
(* The runs.                                                               *)

Ended == {"success", "failed"}

\* A run that exists stays, and the manual one is over for good; only a pass that
\* creates runs adds one of an interval.
LEMMA RunSteps ==
  ASSUME TypeOK, Shape, [Next]_vars
  PROVE  \A r \in Run :
           /\ run[r] # "none" => run'[r] # "none"
           /\ r = Manual /\ run[r] \in Ended => run'[r] = run[r]
           /\ run[r] = "none" /\ run'[r] # "none" =>
                \/ r = Manual /\ TriggerRun
                \/ r = next /\ CreateRun /\ Due
                \/ r = loop.due /\ CreateDatasetRun
<1> SUFFICES ASSUME NEW r \in Run
             PROVE  /\ run[r] # "none" => run'[r] # "none"
                    /\ r = Manual /\ run[r] \in Ended => run'[r] = run[r]
                    /\ run[r] = "none" /\ run'[r] # "none" =>
                         \/ r = Manual /\ TriggerRun
                         \/ r = next /\ CreateRun /\ Due
                         \/ r = loop.due /\ CreateDatasetRun
  OBVIOUS
<1>0. run \in [Run -> DagRunState \cup {"none"}]  BY DEF TypeOK
<1>1. CASE run' = run  BY <1>1
<1>2. CASE TriggerRun  BY <1>0, <1>2 DEF TriggerRun, Ended
<1>3. ASSUME NEW q \in Run, MarkRun(q)
      PROVE  (run[r] = "none" <=> run'[r] = "none")
             /\ (r = Manual /\ run[r] \in Ended => run'[r] = run[r])
  BY <1>0, <1>3 DEF MarkRun, Ended
<1>4. CASE CreateRun
  <2>1. CASE Due  BY <1>0, <1>4, <2>1 DEF CreateRun, Ended
  <2>2. CASE ~Due  BY <1>1, <1>4, <2>2 DEF CreateRun
  <2> QED  BY <2>1, <2>2
<1>5. CASE CreateDatasetRun
  <2>1. dag \in Dags /\ loop.due \in Interval
    BY <1>5 DEF TypeOK, Shape, CreateDatasetRun
  <2>2. loop.due # Manual  BY <2>1, DagFacts
  <2>3. run' = [run EXCEPT ![loop.due] = "queued"]  BY <1>5 DEF CreateDatasetRun
  <2> QED  BY <1>0, <1>5, <2>2, <2>3
<1>6. CASE StartRuns
  <2>1. PICK S : /\ S \subseteq With("queued")
                 /\ run' = [q \in Run |-> IF q \in S THEN "running" ELSE run[q]]
    BY <1>6 DEF StartRuns, Startable
  <2> QED  BY <2>1 DEF With, Ended
<1>7. ASSUME NEW q \in loop.todo, ExamineRun(q)
      PROVE  (run[r] = "none" <=> run'[r] = "none")
             /\ (r = Manual /\ run[r] \in Ended => run'[r] = run[r])
  <2>1. CASE run[q] = "running" /\ EndRun(q)
    <3>1. \E end \in {"success", "failed"} : run' = [run EXCEPT ![q] = end]
      BY <2>1 DEF EndRun, Outcome
    <3> QED  BY <1>0, <2>1, <3>1 DEF Ended
  <2>2. CASE run' = run  BY <2>2
  <2> QED  BY <1>7, <2>1, <2>2 DEF ExamineRun, ScheduleTis
<1>8. CASE RunTimers
  BY <1>0, <1>8 DEF RunTimers, With, Outcome, Ended
<1>9. \/ run' = run \/ TriggerRun \/ (\E q \in Run : MarkRun(q))
      \/ CreateRun \/ CreateDatasetRun \/ StartRuns
      \/ (\E q \in loop.todo : ExamineRun(q)) \/ RunTimers
  BY DEF Next, vars, Tick, CronEvent, TogglePause, StampUpdate, CommitUpdate,
         SchedulerStep, Wake, ReadQueue, QueueTis, FailPass, WorkerStep, StartTi, EndTi,
         RetryTi, RetryDue
<1> QED  BY <1>1, <1>2, <1>3, <1>4, <1>5, <1>6, <1>7, <1>8, <1>9

\* Sets of active runs can be counted.
LEMMA ActiveFinite ==
  ASSUME TypeOK
  PROVE  /\ IsFiniteSet(Active) /\ Cardinality(Active) \in Nat
         /\ \A S \in SUBSET Active : Cardinality(S) <= Cardinality(Active)
BY DagFacts, FS_Subset, FS_CardinalityType DEF TypeOK, Active, With

\* Whoever leaves room for another run arms the dag, or is a user or the timer.
LEMMA ArmedStep ==
  ASSUME TypeOK, Shape, [Next]_vars, TypeOK', DagIsArmed
  PROVE  DagIsArmed'
<1> USE SameDag
<1> SUFFICES ASSUME dag.schedule = "cron", ~armed',
                    Cardinality(Active') < dag.max_active_runs
             PROVE  marked'
  BY DEF DagIsArmed
<1>0. /\ dag \in Dags /\ run \in [Run -> DagRunState \cup {"none"}]
      /\ dag.max_active_runs \in Nat
  BY DagFacts DEF TypeOK
<1>1. Cardinality(Active') \in Nat
  BY DagFacts, <1>0, FS_Subset, FS_CardinalityType DEF Active, With
<1>2. Active \subseteq Active' /\ ~armed /\ marked' = marked => marked'
  <2> SUFFICES ASSUME Active \subseteq Active', ~armed, marked' = marked  PROVE marked'
    OBVIOUS
  <2>1. IsFiniteSet(Active')
    BY DagFacts, <1>0, FS_Subset DEF Active, With
  <2>2. Cardinality(Active) <= Cardinality(Active') /\ Cardinality(Active) \in Nat
    BY <2>1, ActiveFinite, FS_Subset
  <2> QED  BY <1>0, <1>1, <2>2 DEF DagIsArmed
<1>3. ASSUME NEW i, Rearm(i, Active')  PROVE FALSE
  <2>1. armed' = (dag.schedule = "cron")  BY <1>0, <1>1, <1>3 DEF Rearm
  <2> QED  BY <2>1
<1>4. CASE armed' = armed /\ marked' = marked /\ run' = run
  <2>1. Active' = Active  BY <1>4 DEF Active, With
  <2> QED  BY <1>2, <1>4, <2>1
<1>5. CASE TriggerRun
  <2>1. Active \subseteq Active'  BY <1>0, <1>5 DEF Active, With, TriggerRun
  <2> QED  BY <1>2, <1>5, <2>1 DEF TriggerRun
<1>6. ASSUME NEW r \in Run, MarkRun(r)  PROVE marked'
  BY <1>6 DEF MarkRun
<1>7. CASE CreateRun
  <2>1. CASE Due
    <3>1. Active' = Active \cup (IF run[next] = "none" THEN {next} ELSE {})
      <4>1. next \in Run
        <5>1. next \in Interval  BY <1>0, <2>1, DagFacts DEF Due, TypeOK, Interval
        <5> QED  BY <5>1 DEF Run
      <4> QED  BY <1>0, <1>7, <2>1, <4>1 DEF CreateRun, Active, With
    <3>2. Rearm(next, Active')  BY <1>7, <2>1, <3>1 DEF CreateRun
    <3> QED  BY <1>3, <3>2
  <2>2. CASE ~Due  BY <1>4, <1>7, <2>2 DEF CreateRun
  <2> QED  BY <2>1, <2>2
<1>8. CASE CreateDatasetRun
  <2>1. Active \subseteq Active'  BY <1>0, <1>8 DEF Active, With, CreateDatasetRun
  <2> QED  BY <1>2, <1>8, <2>1 DEF CreateDatasetRun
<1>9. CASE StartRuns
  <2>1. PICK S : /\ S \subseteq With("queued")
                 /\ run' = [q \in Run |-> IF q \in S THEN "running" ELSE run[q]]
    BY <1>9 DEF StartRuns, Startable
  <2>2. Active \subseteq Active'  BY <1>0, <2>1 DEF Active, With
  <2> QED  BY <1>2, <1>9, <2>2 DEF StartRuns, dagVars
<1>10. ASSUME NEW r \in loop.todo, ExamineRun(r)  PROVE marked'
  <2>1. CASE run[r] = "running" /\ EndRun(r)
    <3>1. \E end \in {"success", "failed"} : run' = [run EXCEPT ![r] = end]
      BY <2>1 DEF EndRun, Outcome
    <3>2. Active' = Active \ {r}  BY <1>0, <2>1, <3>1 DEF Active, With
    <3>3. Rearm(IntervalOf(r), Active')  BY <2>1, <3>2 DEF EndRun
    <3> QED  BY <1>3, <3>3
  <2>2. CASE ~(run[r] = "running" /\ EndRun(r))
    BY <1>4, <1>10, <2>2 DEF ExamineRun, ScheduleTis
  <2> QED  BY <2>1, <2>2
<1>11. CASE RunTimers
  <2>1. marked \in BOOLEAN  BY DEF TypeOK
  <2>2. marked' \/ (marked' = marked /\ armed' = armed /\ run' = run)
    BY <1>0, <1>11, <2>1 DEF RunTimers
  <2> QED  BY <1>4, <2>2
<1>12. \/ armed' = armed /\ marked' = marked /\ run' = run
       \/ TriggerRun \/ (\E r \in Run : MarkRun(r))
       \/ CreateRun \/ CreateDatasetRun \/ StartRuns
       \/ (\E r \in loop.todo : ExamineRun(r)) \/ RunTimers
  BY DEF Next, vars, Tick, CronEvent, TogglePause, StampUpdate, CommitUpdate,
         SchedulerStep, Wake, ReadQueue, QueueTis, FailPass, WorkerStep, StartTi, EndTi,
         RetryTi, RetryDue, dagVars
<1> QED
  BY <1>4, <1>5, <1>6, <1>7, <1>8, <1>9, <1>10, <1>11, <1>12

\* A dag with room for another run is armed, or a user or the timer ended one.
THEOREM ArmedAgain == Spec => []DagIsArmed
<1>1. Init => DagIsArmed  BY DEF Init, DagIsArmed
<1>2. (TypeOK /\ Shape) /\ (TypeOK /\ Shape)' /\ DagIsArmed /\ [Next]_vars => DagIsArmed'
  BY ArmedStep
<1> QED  BY <1>1, <1>2, TypeInvariance, PTL DEF Spec

-----------------------------------------------------------------------------
(* The intervals.                                                          *)

\* Whoever ends a run moves next_dagrun behind it, which may be back: so nothing
\* is missing before any run there is, and not only before the next.
NoGap ==
  dag.schedule = "cron" =>
    \A i \in Interval :
      /\ run[i] = "none"
      /\ i < next \/ \E r \in Interval : run[r] # "none" /\ i < r
      => i <= manualAt /\ run[Manual] \in Ended

LEMMA NoGapStep ==
  ASSUME TypeOK, Shape, [Next]_vars, NoGap
  PROVE  NoGap'
<1> USE SameDag
<1> DEFINE Covered(i) == i <= manualAt /\ run[Manual] \in Ended
<1> SUFFICES ASSUME dag.schedule = "cron", NEW i \in Interval, run'[i] = "none",
                    i < next' \/ \E r \in Interval : run'[r] # "none" /\ i < r
             PROVE  Covered(i)'
  BY DEF NoGap
<1>0. /\ dag \in Dags /\ run \in [Run -> DagRunState \cup {"none"}]
      /\ Interval \subseteq Run /\ Manual \in Run /\ Manual \notin Interval
      /\ next \in Nat /\ i \in Nat /\ manualAt \in Nat
  BY DagFacts DEF TypeOK, Run
<1>1. run[i] = "none"  BY <1>0, RunSteps
<1>2. Covered(i) => Covered(i)'
  <2>1. manualAt' = manualAt \/ TriggerRun
    BY Zenon
    DEF Next, vars, Tick, CronEvent, TogglePause, MarkRun, StampUpdate,
           CommitUpdate, SchedulerStep, Wake, CreateRun, ReadQueue, CreateDatasetRun,
           StartRuns, ExamineRun, QueueTis, RunTimers, FailPass, WorkerStep, StartTi,
           EndTi, RetryTi, RetryDue, dagVars
  <2>2. run[Manual] \in Ended => ~TriggerRun /\ run'[Manual] = run[Manual]
    BY <1>0, RunSteps DEF TriggerRun, Ended
  <2> QED  BY <2>1, <2>2
<1>3. i < next => Covered(i)  BY <1>1 DEF NoGap
<1>4. ASSUME NEW r \in Interval, run[r] # "none", i < r  PROVE Covered(i)
  BY <1>1, <1>4 DEF NoGap
<1>5. ~CreateDatasetRun  BY DEF Shape, CreateDatasetRun
<1>6. ASSUME NEW r \in Interval, run'[r] # "none", i < r  PROVE Covered(i)
  <2>1. CASE run[r] # "none"  BY <1>4, <1>6, <2>1
  <2>2. CASE run[r] = "none"
    <3>1. r = next  BY <1>0, <1>5, <1>6, <2>2, RunSteps
    <3> QED  BY <1>3, <1>6, <3>1
  <2> QED  BY <2>1, <2>2
<1>7. CASE i < next'
  <2>1. CASE next' = next  BY <1>2, <1>3, <1>7, <2>1
  <2>2. CASE CreateRun /\ Due
    <3>1. next' = next \/ next' = next + 1  BY <2>2 DEF CreateRun, Rearm
    <3>2. i # next
      <4>1. run' = [run EXCEPT ![next] = IF @ = "none" THEN "queued" ELSE @]
        BY <2>2 DEF CreateRun
      <4> QED  BY <1>0, <4>1
    <3> QED  BY <1>0, <1>2, <1>3, <1>7, <3>1, <3>2
  <2>3. ASSUME NEW r \in loop.todo, ExamineRun(r), run[r] = "running", EndRun(r)
        PROVE  Covered(i)'
    <3>0. r \in Run  BY DEF TypeOK
    <3>1. next' = next \/ next' = IntervalOf(r) + 1  BY <2>3 DEF EndRun, Rearm
    <3>2. CASE r = Manual /\ next' = IntervalOf(r) + 1
      <4>1. i <= manualAt  BY <1>0, <1>7, <3>2 DEF IntervalOf
      <4>2. run'[Manual] \in Ended
        BY <1>0, <2>3, <3>2 DEF EndRun, Outcome, Ended
      <4>3. manualAt' = manualAt  BY <2>3 DEF ExamineRun
      <4> QED  BY <4>1, <4>2, <4>3
    <3>3. CASE r # Manual /\ next' = IntervalOf(r) + 1
      <4>1. r \in Interval /\ r \in Nat /\ IntervalOf(r) = r
        BY <1>0, <3>0, <3>3, DagFacts DEF IntervalOf
      <4>2. i # r /\ run[r] # "none"  BY <1>1, <2>3
      <4>3. i < r
        <5>1. i < r + 1  BY <1>7, <3>3, <4>1
        <5> QED  BY <1>0, <4>1, <4>2, <5>1
      <4> QED  BY <1>2, <1>4, <4>1, <4>2, <4>3
    <3> QED  BY <2>1, <3>1, <3>2, <3>3
  <2>4. \/ next' = next
        \/ (CreateRun /\ Due)
        \/ \E r \in loop.todo : ExamineRun(r) /\ run[r] = "running" /\ EndRun(r)
    BY Zenon
    DEF Next, vars, Tick, CronEvent, TogglePause, TriggerRun, MarkRun, StampUpdate,
           CommitUpdate, SchedulerStep, Wake, CreateRun, ReadQueue, CreateDatasetRun,
           StartRuns, ExamineRun, ScheduleTis, QueueTis, RunTimers, FailPass, WorkerStep,
           StartTi, EndTi, RetryTi, RetryDue, dagVars
  <2> QED  BY <2>1, <2>2, <2>3, <2>4
<1> QED  BY <1>2, <1>6, <1>7

\* No interval is passed over, but by the end of a manual run.
THEOREM SkippedByManualRun == Spec => []IntervalsSkippedByManualRunOnly
<1>1. Init => NoGap  BY DagFacts DEF Init, NoGap, Run, Interval
<1>2. (TypeOK /\ Shape) /\ NoGap /\ [Next]_vars => NoGap'  BY NoGapStep
<1>3. TypeOK /\ Shape /\ NoGap => IntervalsSkippedByManualRunOnly
  <2> SUFFICES ASSUME TypeOK, Shape, NoGap, NEW i \in Interval, i < next, run[i] = "none"
               PROVE  i <= manualAt /\ run[Manual] \in {"success", "failed"}
    BY DEF IntervalsSkippedByManualRunOnly
  <2>1. dag \in Dags /\ i \in Nat /\ i # 0  BY DagFacts DEF TypeOK
  <2>2. dag.schedule = "cron"  BY <2>1, DagFacts DEF Shape
  <2> QED  BY <2>2 DEF NoGap, Ended
<1> QED  BY <1>1, <1>2, <1>3, TypeInvariance, PTL DEF Spec

-----------------------------------------------------------------------------
(* The updates of the dataset.                                             *)

Created == {r \in Interval : run[r] # "none"}
After(u) == {r \in Created : u < r}
Consumers(u) == {r \in Interval : u \in consumed[r]}

\* Nothing is later than the last time stamp, and no two things have the same;
\* what is stamped when a later run is created is late; an update that is not is
\* consumed by one run, if there is a later one, and else by none.
Consumption ==
  dag.schedule = "dataset" =>
    /\ \A u \in Interval : update[u] # "none" => u <= now
    /\ \A r \in Created : r <= now /\ update[r] = "none"
    /\ \A r \in Interval : /\ consumed[r] \subseteq Updates
                           /\ r \notin Created => consumed[r] = {}
    /\ queuedAt # 0 => /\ queuedAt <= now /\ update[queuedAt] = "none"
                       /\ \A r \in Created : r < queuedAt
    /\ \A u \in Interval : update[u] = "stamped" /\ After(u) # {} => u \in late
    /\ \A u \in Updates \ late :
         /\ After(u) = {} => Consumers(u) = {}
         /\ After(u) # {} => \E r \in Interval : Consumers(u) = {r}

\* What Previous finds.
LEMMA PreviousFacts ==
  ASSUME TypeOK, NEW t \in Interval
  PROVE  /\ Previous(t) \in Nat
         /\ \A r \in Created : r < t => r <= Previous(t)
         /\ Previous(t) = 0 \/ (Previous(t) \in Created /\ Previous(t) < t)
<1> DEFINE S == {0} \cup {r \in Interval : run[r] # "none" /\ r < t}
<1>1. dag \in Dags /\ dag.intervals \in Nat  BY DagFacts DEF TypeOK
<1>2. S \in SUBSET (0 .. dag.intervals) /\ S # {}  BY <1>1 DEF Interval
<1>3. Max(S) \in S /\ \A y \in S : Max(S) >= y  BY <1>1, <1>2, MaxExists
<1>4. Previous(t) = Max(S)  BY DEF Previous
<1>5. S \subseteq Nat  BY <1>1, <1>2
<1> QED  BY <1>3, <1>4, <1>5 DEF Created

LEMMA ConsumptionStep ==
  ASSUME TypeOK, Shape, [Next]_vars, Consumption
  PROVE  Consumption'
<1> USE SameDag
<1> SUFFICES ASSUME dag.schedule = "dataset"  PROVE Consumption'
  BY DEF Consumption
<1>0. /\ dag \in Dags /\ Interval \subseteq Nat /\ 0 \notin Interval
      /\ Interval \subseteq Run /\ Manual \notin Interval /\ now \in Nat
      /\ update \in [Interval -> {"none", "stamped", "committed"}]
      /\ consumed \in [Interval -> SUBSET Interval] /\ queuedAt \in {0} \cup Interval
  BY DagFacts DEF TypeOK, Run
<1>1. /\ \A u \in Interval : update[u] # "none" => u <= now
      /\ \A r \in Created : r <= now /\ update[r] = "none"
      /\ \A r \in Interval : /\ consumed[r] \subseteq Updates
                             /\ r \notin Created => consumed[r] = {}
      /\ queuedAt # 0 => /\ queuedAt <= now /\ update[queuedAt] = "none"
                         /\ \A r \in Created : r < queuedAt
      /\ \A u \in Interval : update[u] = "stamped" /\ After(u) # {} => u \in late
      /\ \A u \in Updates \ late :
           /\ After(u) = {} => Consumers(u) = {}
           /\ After(u) # {} => \E r \in Interval : Consumers(u) = {r}
  BY DEF Consumption
<1>7. \A r \in Created : r \in Interval /\ r \in Nat  BY <1>0 DEF Created
<1>2. ~CreateDatasetRun => Created' = Created
  BY <1>0, RunSteps DEF Created, Shape, Due
<1>3. CASE StampUpdate
  <2>1. /\ now' = now + 1 /\ now + 1 \in Interval
        /\ update' = [update EXCEPT ![now + 1] = "stamped"]
        /\ UNCHANGED <<queuedAt, consumed, late, run>>
    BY <1>0, <1>3, DagFacts DEF StampUpdate, Interval, TypeOK
  <2>2. Created' = Created  BY <2>1 DEF Created
  <2>3. update[now + 1] = "none"  BY <1>0, <1>1, <2>1
  <2>4. Updates' = Updates  BY <1>0, <2>1, <2>3 DEF Updates
  <2>5. \A u \in Interval : After(u)' = After(u) /\ Consumers(u)' = Consumers(u)
    BY <2>1, <2>2 DEF After, Consumers
  <2>6. After(now + 1) = {}
    <3>1. \A r \in Created : ~(now + 1 < r)  BY <1>0, <1>1, <1>7
    <3> QED  BY <3>1 DEF After
  <2>7. /\ \A u \in Interval : update'[u] # "none" => u <= now'
        /\ \A r \in Created : r <= now' /\ update'[r] = "none"
        /\ queuedAt # 0 => queuedAt <= now' /\ update'[queuedAt] = "none"
    BY <1>0, <1>1, <2>1 DEF Created
  <2>8. \A u \in Interval : update'[u] = "stamped" /\ After(u) # {} => u \in late
    BY <1>0, <1>1, <2>1, <2>6
  <2>9. Updates \subseteq Interval  BY DEF Updates
  <2> QED  BY <1>1, <2>1, <2>2, <2>4, <2>5, <2>7, <2>8, <2>9 DEF Consumption
<1>4. ASSUME NEW u \in Interval, CommitUpdate(u)  PROVE Consumption'
  <2>1. /\ update[u] = "stamped" /\ update' = [update EXCEPT ![u] = "committed"]
        /\ UNCHANGED <<consumed, late, run>>
        /\ now' \in Nat /\ now <= now'
        /\ \/ queuedAt' = queuedAt
           \/ queuedAt' = now + 1 /\ now' = now + 1 /\ now + 1 \in Interval
    <3>1. CASE queuedAt = 0
      BY <1>0, <1>4, <3>1, DagFacts DEF CommitUpdate, Interval
    <3>2. CASE queuedAt # 0
      BY <1>0, <1>4, <3>2 DEF CommitUpdate
    <3> QED  BY <3>1, <3>2
  <2>2. Created' = Created  BY <2>1 DEF Created
  <2>3. Updates' = Updates \cup {u}  BY <1>0, <2>1 DEF Updates
  <2>4. \A v \in Interval : After(v)' = After(v) /\ Consumers(v)' = Consumers(v)
    BY <2>1, <2>2 DEF After, Consumers
  <2>5. u \notin Updates  BY <2>1 DEF Updates
  <2>6. Consumers(u) = {}  BY <1>1, <2>5 DEF Consumers
  <2>7. u \notin late => After(u) = {}  BY <1>1, <2>1
  <2>8. \A v \in Interval : /\ update'[v] # "none" <=> update[v] # "none"
                            /\ update'[v] = "stamped" => update[v] = "stamped"
    BY <1>0, <2>1
  <2>10. queuedAt' # 0 => /\ queuedAt' <= now' /\ update'[queuedAt'] = "none"
                          /\ \A r \in Created : r < queuedAt'
    <3>1. CASE queuedAt' = queuedAt  BY <1>0, <1>1, <2>1, <2>8, <3>1
    <3>2. CASE queuedAt' = now + 1 /\ now' = now + 1 /\ now + 1 \in Interval
      <4>1. update[now + 1] = "none"  BY <1>0, <1>1, <3>2
      <4>2. update'[now + 1] = "none"  BY <2>8, <3>2, <4>1
      <4>3. \A r \in Created : r < now + 1  BY <1>0, <1>1, <1>7
      <4>4. now + 1 <= now'  BY <1>0, <3>2
      <4> QED  BY <3>2, <4>2, <4>3, <4>4
    <3> QED  BY <2>1, <3>1, <3>2
  <2>11. /\ \A v \in Interval : update'[v] # "none" => v <= now'
         /\ \A r \in Created : r <= now' /\ update'[r] = "none"
    <3>1. \A v \in Nat : v <= now => v <= now'  BY <1>0, <2>1
    <3> QED  BY <1>0, <1>1, <1>7, <2>8, <3>1
  <2>12. \A v \in Updates' \ late :
           /\ After(v) = {} => Consumers(v) = {}
           /\ After(v) # {} => \E r \in Interval : Consumers(v) = {r}
    BY <1>1, <2>3, <2>6, <2>7
  <2>13. Updates' \subseteq Interval  BY <2>3 DEF Updates
  <2> QED
    BY <1>1, <2>1, <2>2, <2>3, <2>4, <2>8, <2>10, <2>11, <2>12, <2>13 DEF Consumption
<1>5. CASE CreateDatasetRun
  <2> DEFINE t == loop.due
             new == {u \in Updates : Previous(t) < u /\ u <= t}
  <2>1. /\ run' = [run EXCEPT ![t] = "queued"]
        /\ consumed' = [consumed EXCEPT ![t] = new]
        /\ late' = late \cup {u \in Interval : update[u] = "stamped" /\ u < t}
        /\ queuedAt' = 0 /\ UNCHANGED <<update, now>>
        /\ t # 0 /\ t = queuedAt
    BY <1>5 DEF CreateDatasetRun, Shape
  <2>2. /\ t \in Interval /\ t \in Nat /\ t <= now /\ update[t] = "none"
        /\ \A r \in Created : r < t
    BY <1>0, <1>1, <2>1
  <2>3. t \notin Created  BY <2>2
  <2>4. Created' = Created \cup {t}
    BY <1>0, <2>1, <2>2 DEF Created, TypeOK
  <2>5. /\ Previous(t) \in Nat
        /\ \A r \in Created : r <= Previous(t)
        /\ Previous(t) = 0 \/ Previous(t) \in Created
    BY <2>2, PreviousFacts
  <2>6. Updates' = Updates  BY <2>1 DEF Updates
  <2>7. new \subseteq Updates  OBVIOUS
  <2>8. \A u \in Interval : After(u)' = After(u) \cup (IF u < t THEN {t} ELSE {})
    BY <2>4 DEF After
  <2>9. \A u \in Interval :
          Consumers(u)' = Consumers(u) \cup (IF u \in new THEN {t} ELSE {})
    BY <1>0, <1>1, <2>1, <2>2, <2>3 DEF Consumers
  <2>10. \A u \in Updates : u \in new <=> u < t /\ After(u) = {}
    <3> SUFFICES ASSUME NEW u \in Updates
                 PROVE  (Previous(t) < u /\ u <= t) <=> (u < t /\ After(u) = {})
      OBVIOUS
    <3>1. u \in Interval /\ u \in Nat /\ u # t /\ u \notin Created
      BY <1>0, <1>1, <2>2 DEF Updates
    <3>2. u <= t <=> u < t  BY <2>2, <3>1
    <3>3. Previous(t) < u => After(u) = {}
      <4> SUFFICES ASSUME Previous(t) < u, NEW r \in Created, u < r  PROVE FALSE
        BY DEF After
      <4>1. r \in Nat /\ r <= Previous(t)  BY <1>7, <2>5
      <4> HIDE DEF t
      <4> QED  BY <2>5, <3>1, <4>1
    <3>4. After(u) = {} => Previous(t) < u
      <4>1. CASE Previous(t) = 0  BY <1>0, <3>1, <4>1
      <4>2. CASE Previous(t) \in Created
        BY <2>5, <3>1, <4>2 DEF After
      <4> QED  BY <2>5, <4>1, <4>2
    <3> QED  BY <3>2, <3>3, <3>4
  <2> HIDE DEF new, t
  <2>11. \A u \in Updates' \ late' :
           /\ After(u)' = {} => Consumers(u)' = {}
           /\ After(u)' # {} => \E r \in Interval : Consumers(u)' = {r}
    <3> SUFFICES ASSUME NEW u \in Updates \ late
                 PROVE  /\ After(u)' = {} => Consumers(u)' = {}
                        /\ After(u)' # {} => \E r \in Interval : Consumers(u)' = {r}
      BY <2>1, <2>6
    <3>1. u \in Interval  BY DEF Updates
    <3>2. CASE u < t /\ After(u) = {}
      <4>1. u \in new /\ Consumers(u) = {}  BY <1>1, <2>10, <3>2
      <4>2. After(u)' = {t} /\ Consumers(u)' = {t}  BY <2>8, <2>9, <3>1, <3>2, <4>1
      <4> QED  BY <2>2, <4>2
    <3>3. CASE u < t /\ After(u) # {}
      <4>1. u \notin new  BY <2>10, <3>3
      <4>2. After(u)' # {} /\ Consumers(u)' = Consumers(u)
        BY <2>8, <2>9, <3>1, <3>3, <4>1
      <4> QED  BY <1>1, <3>3, <4>2
    <3>4. CASE ~(u < t)
      <4>1. u \notin new  BY <2>10, <3>4
      <4>2. After(u)' = After(u) /\ Consumers(u)' = Consumers(u)
        BY <2>8, <2>9, <3>1, <3>4, <4>1
      <4> QED  BY <1>1, <4>2
    <3> QED  BY <3>2, <3>3, <3>4
  <2>12. \A u \in Interval : update[u] = "stamped" /\ After(u)' # {} => u \in late'
    BY <1>1, <2>1, <2>8
  <2>13. \A r \in Interval : /\ consumed'[r] \subseteq Updates
                             /\ r \notin Created' => consumed'[r] = {}
    BY <1>0, <1>1, <2>1, <2>4, <2>7
  <2>14. \A r \in Created' : r <= now /\ update[r] = "none"  BY <1>1, <2>2, <2>4
  <2> QED
    BY <1>1, <2>1, <2>6, <2>11, <2>12, <2>13, <2>14 DEF Consumption
<1>6. CASE UNCHANGED <<update, queuedAt, consumed, late, now>> /\ ~CreateDatasetRun
  <2>1. Created' = Created /\ Updates' = Updates  BY <1>2, <1>6 DEF Updates
  <2>2. \A u \in Interval : After(u)' = After(u) /\ Consumers(u)' = Consumers(u)
    BY <1>6, <2>1 DEF After, Consumers
  <2>3. Updates \subseteq Interval  BY DEF Updates
  <2> QED  BY <1>1, <1>6, <2>1, <2>2, <2>3 DEF Consumption
<1> QED
  <2>1. \/ UNCHANGED <<update, queuedAt, consumed, late, now>>
        \/ StampUpdate \/ CreateDatasetRun
        \/ \E u \in Interval : CommitUpdate(u)
    BY Zenon
    DEF Next, vars, Tick, CronEvent, TogglePause, TriggerRun, MarkRun,
           SchedulerStep, Wake, CreateRun, ReadQueue, StartRuns, ExamineRun, QueueTis,
           RunTimers, FailPass, WorkerStep, StartTi, EndTi, RetryTi, RetryDue,
           dagVars, datasetVars
  <2> QED  BY <1>3, <1>4, <1>5, <1>6, <2>1

LEMMA ConsumptionHolds == Spec => []Consumption
<1>1. Init => Consumption
  <2> SUFFICES ASSUME Init  PROVE Consumption  OBVIOUS
  <2>1. Interval \subseteq Run  BY DEF Run
  <2>2. Created = {} /\ Updates = {}  BY <2>1 DEF Init, Created, Updates
  <2> QED  BY <2>2 DEF Init, Consumption, After
<1>2. (TypeOK /\ Shape) /\ Consumption /\ [Next]_vars => Consumption'
  BY ConsumptionStep
<1> QED  BY <1>1, <1>2, TypeInvariance, PTL DEF Spec

\* Every update that was committed in time is consumed by exactly one run.
THEOREM ConsumedOnce == Spec => []UpdatesConsumedOnce
<1>1. TypeOK /\ Shape /\ Consumption => UpdatesConsumedOnce
  <2> SUFFICES ASSUME TypeOK, Shape, Consumption, NEW u \in Updates \ late
               PROVE  Cardinality(Consumers(u)) = IF After(u) = {} THEN 0 ELSE 1
    BY DEF UpdatesConsumedOnce, Consumers, After, Created
  <2>1. dag.schedule = "dataset"
    BY DagFacts DEF TypeOK, Shape, Updates
  <2>2. CASE After(u) = {}
    <3>1. Consumers(u) = {}  BY <2>1, <2>2 DEF Consumption
    <3> QED  BY <2>2, <3>1, FS_EmptySet
  <2>3. CASE After(u) # {}
    <3>1. PICK r \in Interval : Consumers(u) = {r}  BY <2>1, <2>3 DEF Consumption
    <3>2. Cardinality({r}) = 1  BY FS_Singleton
    <3> QED  BY <2>3, <3>1, <3>2
  <2> QED  BY <2>2, <2>3
<1> QED  BY <1>1, ConsumptionHolds, TypeInvariance, PTL

-----------------------------------------------------------------------------
(* Work and wake-ups.                                                      *)

StartWork == ~paused /\ \E r \in With("queued") : MayStart({r})
RunWork(r) == Over(r) \/ Ready(r) # {} \/ Doomed(r) # {}
QueueWork == Queueable # {} /\ FreeSlots > 0

\* If nobody is on the way to wake the scheduler, then a pass has left no work of
\* the kinds it has gone through; what turns up behind its back has an event.
Told ==
  \/ pending \/ silent
  \/ /\ loop.pc \notin {"create", "consume"} => ~Due /\ ~DatasetDue
     /\ loop.pc \in {"examine", "timers", "idle"} =>
          /\ ~StartWork
          /\ ~paused => \A r \in With("running") \ loop.todo : ~RunWork(r)
     /\ loop.pc \in {"timers", "idle"} => ~QueueWork

\* Who looks at what.
LEMMA Frames ==
  ASSUME [Next]_vars
  PROVE  /\ UNCHANGED <<paused, armed, next, now>> => (Due' <=> Due)
         /\ UNCHANGED <<paused, queuedAt, run>> => (DatasetDue' <=> DatasetDue)
         /\ UNCHANGED <<paused, run>> => (StartWork' <=> StartWork)
         /\ UNCHANGED run => \A s : With(s)' = With(s)
         /\ UNCHANGED task => \A r : RunWork(r)' <=> RunWork(r)
         /\ UNCHANGED <<task, run, paused>> => (QueueWork' <=> QueueWork)
<1> USE SameDag
<1>1. UNCHANGED <<paused, armed, next, now>> => (Due' <=> Due)  BY DEF Due
<1>2. UNCHANGED run => \A s : With(s)' = With(s)  BY DEF With
<1>3. UNCHANGED <<paused, queuedAt, run>> => (DatasetDue' <=> DatasetDue)
  BY DEF DatasetDue, Active, With
<1>4. UNCHANGED <<paused, run>> => (StartWork' <=> StartWork)
  BY DEF StartWork, MayStart, With
<1>5. UNCHANGED task => \A r : RunWork(r)' <=> RunWork(r)
  BY DEF RunWork, Over, Ready, Doomed, Of, InState, Upstreams
<1>6. UNCHANGED <<task, run, paused>> => (QueueWork' <=> QueueWork)
  BY DEF QueueWork, Queueable, FreeSlots, InState
<1> QED  BY <1>1, <1>2, <1>3, <1>4, <1>5, <1>6

\* Between SCHEDULED, QUEUED and RUNNING nothing happens that a run looks at.
Midway == {"scheduled", "queued", "running"}

LEMMA UpstreamsExist ==
  ASSUME dag \in Dags, NEW r \in Run, NEW ti \in Of(r)
  PROVE  ti \in TI /\ Upstreams(ti) \subseteq TI
<1>1. PICK t \in DOMAIN dag.upstream : ti = <<r, t>>  BY DEF Of
<1>2. dag.upstream[t] \subseteq DOMAIN dag.upstream  BY LoopAssumption
<1> QED  BY <1>1, <1>2 DEF TI, Upstreams

LEMMA MidwayFrame ==
  ASSUME TypeOK, [Next]_vars,
         \A ti \in TI : task'[ti] = task[ti] \/ (task[ti] \in Midway /\ task'[ti] \in Midway)
  PROVE  \A r \in Run : RunWork(r)' <=> RunWork(r)
<1> USE SameDag
<1>1. InState(FINISHED_STATES)' = InState(FINISHED_STATES)
  BY DEF InState, FINISHED_STATES, Midway
<1>2. \A ti \in TI : \A s \in {"none", "success", "failed", "upstream_failed"} :
        task'[ti] = s <=> task[ti] = s
  BY DEF Midway
<1>3. \A ti \in TI :
        /\ task'[ti] = "none" <=> task[ti] = "none"
        /\ task'[ti] = "success" <=> task[ti] = "success"
        /\ task'[ti] \in {"failed", "upstream_failed"}
             <=> task[ti] \in {"failed", "upstream_failed"}
  BY <1>2
<1> SUFFICES ASSUME NEW r \in Run  PROVE RunWork(r)' <=> RunWork(r)
  OBVIOUS
<1>4. Over(r)' <=> Over(r)  BY <1>1 DEF Over, Of
<1>5. Of(r)' = Of(r) /\ \A ti \in Of(r) : Upstreams(ti)' = Upstreams(ti)
  BY DEF Of, Upstreams
<1>6. \A ti \in Of(r) : ti \in TI /\ Upstreams(ti) \subseteq TI
  BY UpstreamsExist DEF TypeOK
<1>7. Ready(r)' = Ready(r)
  BY <1>3, <1>5, <1>6 DEF Ready
<1>8. Doomed(r)' = Doomed(r)
  BY <1>3, <1>5, <1>6 DEF Doomed
<1> QED  BY <1>4, <1>7, <1>8 DEF RunWork

\* An event on its way stays until the scheduler wakes up.
LEMMA Lasting ==
  ASSUME [Next]_vars, ~Wake
  PROVE  (pending => pending') /\ (silent => silent')
<1>1. ASSUME NEW r \in loop.todo, ExamineRun(r)
      PROVE  (pending => pending') /\ silent' = silent
  BY <1>1 DEF ExamineRun, EndRun, ScheduleTis
<1>2. CASE CreateRun
  BY <1>2 DEF CreateRun
<1>3. ASSUME NEW ti \in TI, WorkerStep(ti)
      PROVE  (pending => pending') /\ (silent => silent')
  <2>1. CASE StartTi(ti)  BY <2>1 DEF StartTi
  <2>2. CASE RetryDue(ti)  BY <2>2 DEF RetryDue
  <2>3. CASE \E s : Becomes(ti, s)  BY <2>3 DEF Becomes
  <2> QED  BY <1>3, <2>1, <2>2, <2>3 DEF WorkerStep, EndTi, RetryTi
<1>4. CASE RunTimers \/ CreateDatasetRun \/ StartRuns \/ QueueTis \/ ReadQueue \/ FailPass
  <2>1. CASE RunTimers  BY <2>1 DEF RunTimers
  <2>2. CASE CreateDatasetRun  BY <2>2 DEF CreateDatasetRun
  <2>3. CASE StartRuns  BY <2>3 DEF StartRuns
  <2>4. CASE QueueTis  BY <2>4 DEF QueueTis
  <2>5. CASE ReadQueue \/ FailPass  BY <2>5 DEF ReadQueue, FailPass
  <2> QED  BY <1>4, <2>1, <2>2, <2>3, <2>4, <2>5
<1>5. CASE UNCHANGED vars  BY <1>5 DEF vars
<1>6. CASE \/ Tick \/ CronEvent \/ TogglePause \/ TriggerRun \/ StampUpdate
           \/ \E r \in Run : MarkRun(r)
           \/ \E u \in Interval : CommitUpdate(u)
  <2>1. CASE Tick \/ CronEvent \/ TogglePause \/ TriggerRun \/ StampUpdate
    <3>1. CASE Tick  BY <3>1 DEF Tick
    <3>2. CASE CronEvent \/ TogglePause  BY <3>2 DEF CronEvent, TogglePause
    <3>3. CASE TriggerRun  BY <3>3 DEF TriggerRun
    <3>4. CASE StampUpdate  BY <3>4 DEF StampUpdate
    <3> QED  BY <2>1, <3>1, <3>2, <3>3, <3>4
  <2>2. ASSUME NEW r \in Run, MarkRun(r)
        PROVE  (pending => pending') /\ (silent => silent')
    BY <2>2 DEF MarkRun
  <2>3. ASSUME NEW u \in Interval, CommitUpdate(u)
        PROVE  (pending => pending') /\ (silent => silent')
    BY <2>3 DEF CommitUpdate
  <2> QED  BY <1>6, <2>1, <2>2, <2>3
<1> QED  BY <1>1, <1>2, <1>3, <1>4, <1>5, <1>6 DEF Next, SchedulerStep

\* What QueueTis leaves is nothing, or there are no slots.
LEMMA QueueingExhausts ==
  ASSUME TypeOK, QueueTis, dag' = dag
  PROVE  /\ ~QueueWork'
         /\ \A ti \in TI :
              task'[ti] = task[ti] \/ (task[ti] \in Midway /\ task'[ti] \in Midway)
<1>1. PICK S \in SUBSET Queueable :
        /\ Cardinality(S) = Min({FreeSlots, Cardinality(Queueable)})
        /\ task' = [ti \in TI |-> IF ti \in S THEN "queued" ELSE task[ti]]
  BY DEF QueueTis
<1>2. run' = run /\ paused' = paused /\ TI' = TI
  BY DEF QueueTis, dagVars, TI, Run, Interval
<1>3. \A ti \in Queueable : ti \in TI /\ task[ti] = "scheduled"
  BY DEF Queueable, InState
<1>4. /\ dag \in Dags /\ PoolSlots \in Nat /\ IsFiniteSet(TI)
      /\ task \in [TI -> TaskInstanceState]
  BY DagFacts DEF TypeOK
<1>5. Queueable \in SUBSET TI /\ S \in SUBSET TI  BY <1>3
<1>6. /\ IsFiniteSet(Queueable) /\ Cardinality(Queueable) \in Nat
      /\ IsFiniteSet(S) /\ Cardinality(S) \in Nat
  BY <1>4, <1>5, FS_Subset, FS_CardinalityType
<1>7. Queueable' = Queueable \ S
  BY <1>1, <1>2, <1>3, <1>5 DEF Queueable, InState
<1>8. FreeSlots \in Int /\ FreeSlots' = FreeSlots - Cardinality(S)
  <2> DEFINE held == InState(EXECUTION_STATES)
  <2>1. held \in SUBSET TI /\ held \cap S = {}
    BY <1>3 DEF InState, EXECUTION_STATES
  <2>2. held' = held \cup S
    BY <1>1, <1>2, <1>5 DEF InState, EXECUTION_STATES
  <2>3. IsFiniteSet(held) /\ Cardinality(held) \in Nat
    BY <1>4, <2>1, FS_Subset, FS_CardinalityType
  <2>4. Cardinality(held \cup S) = Cardinality(held) + Cardinality(S)
    <3>1. Cardinality(held \cup S)
            = Cardinality(held) + Cardinality(S) - Cardinality(held \cap S)
      BY <1>6, <2>3, FS_Union
    <3>2. Cardinality(held \cap S) = 0  BY <2>1, FS_EmptySet
    <3> HIDE DEF held
    <3> QED  BY <1>6, <2>3, <3>1, <3>2
  <2>5. FreeSlots = PoolSlots - Cardinality(held)
        /\ FreeSlots' = PoolSlots - Cardinality(held')
    BY DEF FreeSlots
  <2> HIDE DEF held
  <2> QED  BY <1>4, <1>6, <2>2, <2>3, <2>4, <2>5
<1>9. Cardinality(S) = FreeSlots \/ Cardinality(S) = Cardinality(Queueable)
  BY <1>1, <1>6, <1>8, MinOfTwo
<1>10. CASE Cardinality(S) = FreeSlots
  <2>1. FreeSlots' = 0  BY <1>6, <1>8, <1>10
  <2> QED  BY <1>1, <1>3, <2>1 DEF QueueWork, Midway
<1>11. CASE Cardinality(S) = Cardinality(Queueable)
  <2>1. S = Queueable  BY <1>6, <1>11, FS_Subset
  <2> QED  BY <1>1, <1>3, <1>7, <2>1 DEF QueueWork, Midway
<1> QED  BY <1>9, <1>10, <1>11

\* What StartRuns leaves queued has no room.
LEMMA StartingExhausts ==
  ASSUME TypeOK, StartRuns, dag' = dag
  PROVE  /\ ~StartWork'
         /\ DatasetDue' <=> DatasetDue
         /\ ~paused => With("running")' \subseteq loop'.todo
<1>0. /\ paused' = paused /\ queuedAt' = queuedAt /\ Run' = Run
  BY DEF StartRuns, dagVars, datasetVars, Run, Interval
<1>1. PICK S : /\ S \in IF paused THEN {{}} ELSE Startable
               /\ run' = [r \in Run |-> IF r \in S THEN "running" ELSE run[r]]
               /\ loop' = [NoPass EXCEPT !.pc = "examine",
                           !.todo = IF paused THEN {} ELSE With("running") \cup S]
  BY DEF StartRuns
<1>2. S \subseteq With("queued")  BY <1>1 DEF Startable
<1>3. With("running")' = With("running") \cup S /\ With("queued")' = With("queued") \ S
  BY <1>0, <1>1, <1>2 DEF With
<1>4. Active' = Active  BY <1>2, <1>3 DEF Active
<1>5. DatasetDue' <=> DatasetDue  BY <1>0, <1>4 DEF DatasetDue
<1>6. ~StartWork'
  <2> SUFFICES ASSUME ~paused, NEW r \in With("queued") \ S, MayStart({r})'  PROVE FALSE
    BY <1>0, <1>3 DEF StartWork
  <2>1. ~MayStart(S \cup {r})  BY <1>1 DEF Startable
  <2>2. (With("running") \cup S) \cup {r} = With("running") \cup (S \cup {r})  OBVIOUS
  <2> QED  BY <1>3, <2>1, <2>2 DEF MayStart
<1>7. ~paused => loop'.todo = With("running") \cup S  BY <1>1 DEF NoPass
<1> QED  BY <1>3, <1>5, <1>6, <1>7

LEMMA ToldStep ==
  ASSUME TypeOK, Shape, [Next]_vars, Shape', Told
  PROVE  Told'
<1> USE SameDag
<1> SUFFICES ASSUME ~pending', ~silent', ~Wake  PROVE Told'
  BY DEF Told, Wake, NoPass
<1>0. ~pending /\ ~silent  BY Lasting
<1>1. /\ loop.pc \notin {"create", "consume"} => ~Due /\ ~DatasetDue
      /\ loop.pc \in {"examine", "timers", "idle"} =>
           /\ ~StartWork
           /\ ~paused => \A r \in With("running") \ loop.todo : ~RunWork(r)
      /\ loop.pc \in {"timers", "idle"} => ~QueueWork
  BY <1>0 DEF Told
<1>2. CASE UNCHANGED <<paused, armed, next, now, queuedAt, run, task, loop>>
  BY <1>1, <1>2, Frames DEF Told
<1>3. CASE Tick
  <2>1. paused /\ UNCHANGED <<paused, queuedAt, run, task, loop>>
    BY <1>3, Rules DEF Tick, datasetVars, taskVars
  <2>2. ~Due'  BY <2>1 DEF Due
  <2> QED  BY <1>1, <2>1, <2>2, Frames DEF Told
<1>4. CASE StampUpdate
  <2>1. UNCHANGED <<paused, armed, queuedAt, run, task, loop>> /\ ~armed
    BY <1>4 DEF StampUpdate, Shape, taskVars
  <2>2. ~Due'  BY <2>1 DEF Due
  <2> QED  BY <1>1, <2>1, <2>2, Frames DEF Told
<1>5. CASE CreateRun
  <2>1. ~Due  BY <1>5, Rules DEF CreateRun
  <2>2. ~DatasetDue /\ UNCHANGED <<paused, armed, next, now, queuedAt, run>>
        /\ loop'.pc = "start"
    BY <1>5, <2>1 DEF CreateRun, datasetVars, TypeOK
  <2> QED  BY <2>1, <2>2, Frames DEF Told
<1>6. CASE ReadQueue
  BY <1>6 DEF ReadQueue, Told, TypeOK
<1>7. CASE CreateDatasetRun
  <2>1. queuedAt' = 0 /\ armed' = armed /\ loop'.pc = "start" /\ queuedAt # 0
    BY <1>7 DEF CreateDatasetRun, Shape, TypeOK
  <2>2. ~armed  BY <2>1, DagFacts DEF TypeOK, Shape
  <2> QED  BY <2>1, <2>2 DEF Told, Due, DatasetDue
<1>8. CASE StartRuns
  <2>1. /\ UNCHANGED <<paused, armed, next, now>> /\ loop.pc = "start"
        /\ loop'.pc = "examine"
    BY <1>8 DEF StartRuns, dagVars, NoPass
  <2> QED  BY <1>1, <1>8, <2>1, StartingExhausts, Frames DEF Told
<1>9. ASSUME NEW r \in loop.todo, ExamineRun(r)  PROVE Told'
  <2>0. r \in Run  BY DEF TypeOK
  <2>1. /\ loop.pc = "examine" /\ loop'.pc = "examine" /\ loop'.todo = loop.todo \ {r}
        /\ UNCHANGED <<paused, now, queuedAt>>
    BY <1>9 DEF ExamineRun, TypeOK, datasetVars
  <2>2. ~(run[r] = "running" /\ EndRun(r))
    <3> SUFFICES ASSUME EndRun(r)  PROVE pending'
      OBVIOUS
    <3>1. \E end \in {"success", "failed"} : run' = [run EXCEPT ![r] = end]
      BY DEF EndRun, Outcome
    <3>2. run'[r] \in {"success", "failed"}  BY <2>0, <3>1 DEF TypeOK
    <3> QED  BY <3>2, Rules DEF EndRun
  <2>3. CASE run[r] = "running" /\ ScheduleTis(r)
    <3>1. Ready(r) = {} /\ Doomed(r) = {} /\ ~Over(r)
      BY <2>3, Rules DEF ScheduleTis
    <3>2. task' = task  BY <2>3, <3>1 DEF ScheduleTis, TypeOK
    <3>3. UNCHANGED <<run, armed, next>>  BY <2>3 DEF ScheduleTis
    <3>4. ~RunWork(r)  BY <3>1 DEF RunWork
    <3> QED  BY <1>1, <2>1, <3>2, <3>3, <3>4, Frames DEF Told
  <2>4. CASE run[r] # "running"
    <3>1. UNCHANGED <<run, armed, next, task>>  BY <1>9, <2>4 DEF ExamineRun
    <3>2. r \notin With("running")  BY <2>4 DEF With
    <3> QED  BY <1>1, <2>1, <3>1, <3>2, Frames DEF Told
  <2> QED  BY <1>9, <2>2, <2>3, <2>4 DEF ExamineRun
<1>10. CASE QueueTis
  <2>1. /\ UNCHANGED <<paused, armed, next, now, queuedAt, run>>
        /\ loop.pc = "examine" /\ loop.todo = {}
    BY <1>10 DEF QueueTis, dagVars, datasetVars
  <2>2. \A r \in Run : RunWork(r)' <=> RunWork(r)
    BY <1>10, QueueingExhausts, MidwayFrame
  <2>3. With("running") \subseteq Run /\ With("running")' = With("running")
    BY <2>1 DEF With
  <2> QED  BY <1>1, <1>10, <2>1, <2>2, <2>3, QueueingExhausts, Frames DEF Told
<1>11. CASE RunTimers
  <2> DEFINE ended == IF paused THEN {r \in With("running") : Over(r)} ELSE {}
             doomed == IF paused THEN UNION {Doomed(r) : r \in With("running")} ELSE {}
  <2>1. /\ run' = [r \in Run |-> IF r \in ended THEN Outcome(r) ELSE run[r]]
        /\ task' = [ti \in TI |-> IF ti \in doomed THEN "upstream_failed" ELSE task[ti]]
        /\ pending' = \/ pending
                      \/ \E r \in ended : "scheduler" \in DagRunRoute(run'[r])
                      \/ doomed # {} /\ Wakes("upstream_failed")
        /\ UNCHANGED <<paused, armed, next, now, queuedAt>>
        /\ loop.pc = "timers" /\ loop'.pc \in {"idle", "create"}
    BY <1>11 DEF RunTimers, datasetVars, NoPass
  <2>2. ended \subseteq Run  BY DEF With
  <2> HIDE DEF ended, doomed
  <2>3. doomed = {}  BY <2>1, Rules
  <2>4. ended = {}
    <3> SUFFICES ASSUME NEW r \in ended  PROVE pending'
      OBVIOUS
    <3>1. run'[r] \in {"success", "failed"}  BY <2>1, <2>2 DEF Outcome
    <3> QED  BY <2>1, <3>1, Rules
  <2>5. UNCHANGED <<run, task>>  BY <2>1, <2>3, <2>4 DEF TypeOK
  <2>6. loop.todo = {} /\ loop'.todo = {}  BY <2>1 DEF Shape
  <2> QED  BY <1>1, <2>1, <2>5, <2>6, Frames DEF Told
<1>12. ASSUME NEW ti \in TI, WorkerStep(ti)  PROVE Told'
  <2>1. CASE StartTi(ti)
    <3>1. /\ task[ti] = "queued" /\ task' = [task EXCEPT ![ti] = "running"]
          /\ UNCHANGED <<paused, armed, next, now, queuedAt, run, loop>>
      BY <2>1 DEF StartTi, dagVars, datasetVars
    <3>2. task \in [TI -> TaskInstanceState]  BY DEF TypeOK
    <3>3. \A r \in Run : RunWork(r)' <=> RunWork(r)
      <4>1. \A u \in TI : task'[u] = task[u] \/ (task[u] \in Midway /\ task'[u] \in Midway)
        BY <3>1, <3>2 DEF Midway
      <4> QED  BY <4>1, MidwayFrame
    <3>4. QueueWork' <=> QueueWork
      <4>1. InState({"scheduled"})' = InState({"scheduled"})
            /\ InState(EXECUTION_STATES)' = InState(EXECUTION_STATES)
        BY <3>1, <3>2 DEF InState, EXECUTION_STATES
      <4> QED  BY <3>1, <4>1 DEF QueueWork, Queueable, FreeSlots
    <3>5. With("running") \subseteq Run /\ With("running")' = With("running")
      BY <3>1 DEF With
    <3> QED  BY <1>1, <3>1, <3>3, <3>4, <3>5, Frames DEF Told
  <2>2. ~RetryDue(ti)  BY DEF RetryDue
  <2>3. ASSUME NEW s, Becomes(ti, s)  PROVE FALSE
    BY <2>3 DEF Becomes
  <2> QED  BY <1>12, <2>1, <2>2, <2>3 DEF WorkerStep, EndTi, RetryTi
<1>13. ~CronEvent /\ ~TogglePause /\ ~TriggerRun /\ ~FailPass
       /\ (\A r \in Run : ~MarkRun(r)) /\ (\A u \in Interval : ~CommitUpdate(u))
  BY Rules DEF CronEvent, TogglePause, TriggerRun, FailPass, MarkRun, CommitUpdate
<1>14. CASE UNCHANGED vars  BY <1>2, <1>14 DEF vars
<1> QED
  BY <1>3, <1>4, <1>5, <1>6, <1>7, <1>8, <1>9, <1>10, <1>11, <1>12, <1>13, <1>14
  DEF Next, SchedulerStep

\* As long as there is something to do, an event is on its way or a pass is under
\* way, but for retries, which nobody is told of.
THEOREM WorkIsTold == Spec => []NoWorkWithoutWakeUp
<1>1. Init => Told
  <2> SUFFICES ASSUME Init  PROVE Told  OBVIOUS
  <2>1. dag \in Dags /\ now = 0 /\ next = 1 /\ queuedAt = 0  BY DEF Init
  <2>2. \A s \in {"queued", "running"} : With(s) = {}  BY DEF Init, With
  <2>3. InState({"scheduled"}) = {}  BY DEF Init, InState
  <2>4. ~Due /\ ~DatasetDue  BY <2>1 DEF Due, DatasetDue
  <2>5. Queueable = {}  BY <2>3 DEF Queueable
  <2> QED  BY <2>2, <2>4, <2>5 DEF Told, StartWork, QueueWork
<1>2. (TypeOK /\ Shape) /\ (TypeOK /\ Shape)' /\ Told /\ [Next]_vars => Told'
  BY ToldStep
<1>3. Shape /\ Told => NoWorkWithoutWakeUp
  BY DEF Shape, Told, NoWorkWithoutWakeUp, Work, StartWork, RunWork, QueueWork
<1> QED  BY <1>1, <1>2, <1>3, TypeInvariance, PTL DEF Spec

-----------------------------------------------------------------------------
(* The limit.                                                              *)

\* The runs that the scheduler created.
Own == Active \ {Manual}

\* Between the decision to create a run and its creation no other is created but by
\* a user: armed, or with the dataset's queue read, the dag has room for a run.
Room ==
  armed \/ loop.pc = "consume" => Cardinality(Own) < dag.max_active_runs

\* Fewer runs leave as much room.
LEMMA FewerRuns ==
  ASSUME TypeOK, NEW S \in SUBSET Active
  PROVE  /\ IsFiniteSet(S) /\ Cardinality(S) \in Nat
         /\ \A R \in SUBSET S : Cardinality(R) \in Nat /\ Cardinality(R) <= Cardinality(S)
BY ActiveFinite, FS_Subset, FS_CardinalityType

LEMMA RoomStep ==
  ASSUME TypeOK, Shape, [Next]_vars, Room, TypeOK'
  PROVE  Room'
<1> USE SameDag
<1>0. /\ dag \in Dags /\ run \in [Run -> DagRunState \cup {"none"}]
      /\ dag.max_active_runs \in Nat /\ Own \subseteq Active
  BY DagFacts DEF TypeOK, Own
<1>1. ASSUME Own' \subseteq Own, armed' => armed,
             loop'.pc = "consume" => loop.pc = "consume"
      PROVE  Room'
  <2>1. Cardinality(Own') <= Cardinality(Own)
        /\ Cardinality(Own') \in Nat /\ Cardinality(Own) \in Nat
    BY <1>0, <1>1, FewerRuns
  <2> QED  BY <1>0, <1>1, <2>1 DEF Room
<1>2. ASSUME NEW i, Rearm(i, Active'), loop'.pc # "consume"
      PROVE  Room'
  <2> SUFFICES ASSUME armed'  PROVE Cardinality(Own') < dag.max_active_runs
    BY <1>2 DEF Room
  <2>1. /\ IsFiniteSet(Active') /\ Own' \subseteq Active'
    BY DagFacts, <1>0, FS_Subset DEF Active, With, Own
  <2>2. /\ Cardinality(Active') \in Nat /\ Cardinality(Own') \in Nat
        /\ Cardinality(Own') <= Cardinality(Active')
    BY <2>1, FS_Subset, FS_CardinalityType
  <2>3. ~(Cardinality(Active') >= dag.max_active_runs)  BY <1>2 DEF Rearm
  <2> QED  BY <1>0, <2>2, <2>3
<1>3. CASE armed' = armed /\ run' = run
           /\ (loop'.pc = "consume" => loop.pc = "consume")
  <2>1. Own' = Own  BY <1>3 DEF Own, Active, With
  <2> QED  BY <1>1, <1>3, <2>1
<1>4. CASE ReadQueue
  <2>1. Own' = Own  BY <1>4 DEF ReadQueue, Own, Active, With
  <2>2. Cardinality(Active) < dag.max_active_runs  BY <1>4 DEF ReadQueue, DatasetDue
  <2>3. /\ Cardinality(Own) <= Cardinality(Active)
        /\ Cardinality(Own) \in Nat /\ Cardinality(Active) \in Nat
    BY <1>0, FewerRuns
  <2>4. Cardinality(Own) < dag.max_active_runs  BY <1>0, <2>2, <2>3
  <2> QED  BY <2>1, <2>4 DEF Room
<1>5. CASE TriggerRun
  <2>1. Own' = Own  BY <1>0, <1>5 DEF Own, Active, With, TriggerRun
  <2> QED  BY <1>1, <1>5, <2>1 DEF TriggerRun
<1>6. ASSUME NEW r \in Run, MarkRun(r)  PROVE Room'
  <2>1. Own' \subseteq Own  BY <1>0, <1>6 DEF Own, Active, With, MarkRun
  <2> QED  BY <1>1, <1>6, <2>1 DEF MarkRun
<1>7. CASE CreateRun
  <2>0. loop'.pc = "start"  BY <1>7 DEF CreateRun, TypeOK
  <2>1. CASE Due
    <3>1. Active' = Active \cup (IF run[next] = "none" THEN {next} ELSE {})
      <4>1. next \in Run
        <5>1. next \in Interval  BY <1>0, <2>1, DagFacts DEF Due, TypeOK, Interval
        <5> QED  BY <5>1 DEF Run
      <4> QED  BY <1>0, <1>7, <2>1, <4>1 DEF CreateRun, Active, With
    <3>2. Rearm(next, Active')  BY <1>7, <2>1, <3>1 DEF CreateRun
    <3> QED  BY <1>2, <2>0, <3>2
  <2>2. CASE ~Due  BY <1>3, <1>7, <2>0, <2>2 DEF CreateRun
  <2> QED  BY <2>1, <2>2
<1>8. CASE CreateDatasetRun
  <2>1. ~armed  BY <1>0, <1>8, DagFacts DEF Shape, CreateDatasetRun
  <2>2. ~armed' /\ loop'.pc = "start"  BY <1>8, <2>1 DEF CreateDatasetRun, TypeOK
  <2> QED  BY <2>2 DEF Room
<1>9. CASE StartRuns
  <2>1. PICK S : /\ S \subseteq With("queued")
                 /\ run' = [q \in Run |-> IF q \in S THEN "running" ELSE run[q]]
    BY <1>9 DEF StartRuns, Startable
  <2>2. Own' \subseteq Own  BY <1>0, <2>1 DEF Own, Active, With
  <2>3. armed' = armed /\ loop'.pc = "examine"
    BY <1>9 DEF StartRuns, dagVars, NoPass
  <2> QED  BY <1>1, <2>2, <2>3
<1>10. ASSUME NEW r \in loop.todo, ExamineRun(r)  PROVE Room'
  <2>0. loop'.pc = "examine"  BY <1>10 DEF ExamineRun, TypeOK
  <2>1. CASE run[r] = "running" /\ EndRun(r)
    <3>1. \E end \in {"success", "failed"} : run' = [run EXCEPT ![r] = end]
      BY <2>1 DEF EndRun, Outcome
    <3>2. Active' = Active \ {r}  BY <1>0, <2>1, <3>1 DEF Active, With
    <3>3. Rearm(IntervalOf(r), Active')  BY <2>1, <3>2 DEF EndRun
    <3> QED  BY <1>2, <2>0, <3>3
  <2>2. CASE ~(run[r] = "running" /\ EndRun(r))
    BY <1>3, <1>10, <2>0, <2>2 DEF ExamineRun, ScheduleTis
  <2> QED  BY <2>1, <2>2
<1>11. CASE RunTimers
  <2>1. Own' \subseteq Own
    BY <1>0, <1>11 DEF RunTimers, Own, Active, With, Outcome
  <2>2. armed' = armed /\ loop'.pc # "consume"
    BY <1>11 DEF RunTimers, NoPass
  <2> QED  BY <1>1, <2>1, <2>2
<1>12. \/ /\ armed' = armed /\ run' = run
          /\ loop'.pc = "consume" => loop.pc = "consume"
       \/ ReadQueue \/ TriggerRun \/ (\E r \in Run : MarkRun(r))
       \/ CreateRun \/ CreateDatasetRun \/ StartRuns
       \/ (\E r \in loop.todo : ExamineRun(r)) \/ RunTimers
  BY DEF Next, vars, Tick, CronEvent, TogglePause, StampUpdate, CommitUpdate,
         SchedulerStep, Wake, QueueTis, FailPass, WorkerStep, StartTi, EndTi,
         RetryTi, RetryDue, dagVars, NoPass, TypeOK
<1> QED
  BY <1>3, <1>4, <1>5, <1>6, <1>7, <1>8, <1>9, <1>10, <1>11, <1>12

\* A run that ends.
LEMMA OneEnds ==
  ASSUME NEW r \in DOMAIN run, run[r] \in {"queued", "running"},
         NEW e \in {"success", "failed"}, run' = [run EXCEPT ![r] = e]
  PROVE  \E S \in SUBSET DOMAIN run : Lifecycle!End(S)
<1> DEFINE end == [q \in {r} |-> e]
<1>1. end \in [{r} -> {"success", "failed"}]  OBVIOUS
<1>2. run' = [q \in DOMAIN run |-> IF q \in {r} THEN end[q] ELSE run[q]]
  <2>1. run' = [q \in DOMAIN run |-> IF q = r THEN e ELSE run[q]]  OBVIOUS
  <2> QED  BY <2>1
<1>3. {r} \subseteq Lifecycle!Having({"queued", "running"})  BY DEF Lifecycle!Having
<1>4. Lifecycle!End({r})  BY <1>1, <1>2, <1>3 DEF Lifecycle!End
<1> QED  BY <1>4

LEMMA LifecycleStep ==
  ASSUME TypeOK, Shape, [Next]_vars, TypeOK', Room, Consumption
  PROVE  [Lifecycle!Next]_(Lifecycle!vars)
<1> USE SameDag
<1>0. /\ dag \in Dags /\ run \in [Run -> DagRunState \cup {"none"}]
      /\ dag.max_active_runs \in Nat /\ DOMAIN run = Run
      /\ Manual \in Run /\ Manual \notin Interval /\ Interval \subseteq Run
      /\ UNCHANGED dag.max_active_runs
  BY DagFacts DEF TypeOK, Run
<1>1. \A S : Lifecycle!Cardinality(S) = Cardinality(S)
  BY DEF Lifecycle!Cardinality, Cardinality
<1>2. /\ Lifecycle!Own({"queued", "running"}) = Own
      /\ Lifecycle!Having({"queued", "running"}) = Active
      /\ Lifecycle!Having({"queued"}) = With("queued")
      /\ Lifecycle!Having({"running"}) = With("running")
  BY <1>0 DEF Lifecycle!Own, Lifecycle!Having, Own, Active, With
<1>3. CASE run' = run  BY <1>0, <1>3 DEF Lifecycle!vars
<1>4. ASSUME NEW r \in Run, run[r] = "none", run' = [run EXCEPT ![r] = "queued"],
             r # Manual => Cardinality(Own) < dag.max_active_runs
      PROVE  Lifecycle!Next
  <2>1. Lifecycle!Create(r)  BY <1>1, <1>2, <1>4 DEF Lifecycle!Create
  <2> QED  BY <1>0, <2>1 DEF Lifecycle!Next
<1>5. ASSUME NEW r \in Run, run[r] \in {"queued", "running"},
             NEW e \in {"success", "failed"}, run' = [run EXCEPT ![r] = e]
      PROVE  Lifecycle!Next
  BY <1>0, <1>5, OneEnds DEF Lifecycle!Next
<1>6. CASE TriggerRun  BY <1>0, <1>4, <1>6 DEF TriggerRun
<1>7. ASSUME NEW r \in Run, MarkRun(r)  PROVE Lifecycle!Next
  BY <1>5, <1>7 DEF MarkRun
<1>8. CASE CreateRun
  <2>1. CASE Due /\ run[next] = "none"
    <3>1. next \in Interval
      BY <1>0, <2>1, DagFacts DEF Due, TypeOK, Interval
    <3>2. Cardinality(Own) < dag.max_active_runs  BY <2>1 DEF Due, Room
    <3>3. run' = [run EXCEPT ![next] = "queued"]  BY <1>8, <2>1 DEF CreateRun
    <3> QED  BY <1>0, <1>4, <2>1, <3>1, <3>2, <3>3
  <2>2. CASE ~(Due /\ run[next] = "none")
    <3>1. run' = run  BY <1>0, <1>8, <2>2 DEF CreateRun
    <3> QED  BY <1>3, <3>1
  <2> QED  BY <2>1, <2>2
<1>9. CASE CreateDatasetRun
  <2>1. /\ loop.due \in Interval /\ loop.due = queuedAt /\ queuedAt # 0
        /\ dag.schedule = "dataset" /\ loop.pc = "consume"
    BY <1>0, <1>9, DagFacts DEF TypeOK, Shape, CreateDatasetRun
  <2>2. run[loop.due] = "none"
    <3>1. \A r \in Created : r < queuedAt  BY <2>1 DEF Consumption
    <3>2. loop.due \in Nat  BY <1>0, <2>1, DagFacts
    <3>3. loop.due \notin Created  BY <2>1, <3>1, <3>2
    <3> QED  BY <2>1, <3>3 DEF Created
  <2>3. Cardinality(Own) < dag.max_active_runs  BY <2>1 DEF Room
  <2>4. run' = [run EXCEPT ![loop.due] = "queued"]  BY <1>9 DEF CreateDatasetRun
  <2> QED  BY <1>0, <1>4, <2>1, <2>2, <2>3, <2>4
<1>10. CASE StartRuns
  <2>1. PICK S : /\ S \subseteq With("queued") /\ (S # {} => MayStart(S))
                 /\ run' = [q \in Run |-> IF q \in S THEN "running" ELSE run[q]]
    BY <1>10 DEF StartRuns, Startable
  <2>2. CASE S = {}
    <3>1. run' = run  BY <1>0, <2>1, <2>2
    <3> QED  BY <1>3, <3>1
  <2>3. CASE S # {}
    <3>1. Cardinality(With("running") \cup S) <= dag.max_active_runs
      BY <2>1, <2>3 DEF MayStart
    <3>2. Lifecycle!Start(S)  BY <1>0, <1>1, <1>2, <2>1, <3>1 DEF Lifecycle!Start
    <3>3. S \in SUBSET DOMAIN run  BY <1>0, <2>1 DEF With
    <3> QED  BY <1>0, <3>2, <3>3 DEF Lifecycle!Next
  <2> QED  BY <2>2, <2>3
<1>11. ASSUME NEW r \in loop.todo, ExamineRun(r)
       PROVE  [Lifecycle!Next]_(Lifecycle!vars)
  <2>0. r \in Run  BY DEF TypeOK
  <2>1. CASE run[r] = "running" /\ EndRun(r)
    <3>1. PICK e \in {"success", "failed"} : run' = [run EXCEPT ![r] = e]
      BY <2>1 DEF EndRun, Outcome
    <3> QED  BY <1>5, <2>0, <2>1, <3>1
  <2>2. CASE ~(run[r] = "running" /\ EndRun(r))
    BY <1>3, <1>11, <2>2 DEF ExamineRun, ScheduleTis
  <2> QED  BY <2>1, <2>2
<1>12. CASE RunTimers
  <2> DEFINE S == IF paused THEN {r \in With("running") : Over(r)} ELSE {}
             end == [r \in S |-> Outcome(r)]
  <2>1. run' = [r \in Run |-> IF r \in S THEN Outcome(r) ELSE run[r]]
    BY <1>12 DEF RunTimers
  <2>2. S \subseteq Active /\ S \in SUBSET DOMAIN run  BY <1>0 DEF Active, With
  <2>3. end \in [S -> {"success", "failed"}]  BY DEF Outcome
  <2> HIDE DEF S
  <2>4. run' = [r \in DOMAIN run |-> IF r \in S THEN end[r] ELSE run[r]]
    BY <1>0, <2>1
  <2> HIDE DEF end
  <2>5. Lifecycle!End(S)  BY <1>2, <2>2, <2>3, <2>4 DEF Lifecycle!End
  <2> QED  BY <1>0, <2>2, <2>5 DEF Lifecycle!Next
<1>13. \/ run' = run \/ TriggerRun \/ (\E r \in Run : MarkRun(r))
       \/ CreateRun \/ CreateDatasetRun \/ StartRuns
       \/ (\E r \in loop.todo : ExamineRun(r)) \/ RunTimers
  BY DEF Next, vars, Tick, CronEvent, TogglePause, StampUpdate, CommitUpdate,
         SchedulerStep, Wake, ReadQueue, QueueTis, FailPass, WorkerStep, StartTi, EndTi,
         RetryTi, RetryDue
<1> QED
  BY <1>3, <1>6, <1>7, <1>8, <1>9, <1>10, <1>11, <1>12, <1>13

\* The loop implements DagRuns: whatever users, failed passes and the timer do between
\* the decision to create a run and its creation, a run is created once, ends once and
\* for good, and the scheduler never has more than max_active_runs of its own active,
\* nor lets more than that many run.
THEOREM LimitKept == Spec => RunsWithinLimit
<1>1. Init => Room /\ Lifecycle!Init
  <2> SUFFICES ASSUME Init  PROVE Room /\ Lifecycle!Init  OBVIOUS
  <2>1. dag \in Dags /\ dag.max_active_runs \in Nat \ {0}  BY DagFacts DEF Init
  <2>2. run = [r \in DOMAIN run |-> "none"]  BY DEF Init
  <2>3. Own = {}  BY DEF Init, Own, Active, With
  <2>4. Cardinality(Own) = 0  BY <2>3, FS_EmptySet
  <2> QED  BY <2>1, <2>2, <2>4 DEF Room, Lifecycle!Init
<1>2. (TypeOK /\ Shape) /\ (TypeOK /\ Shape)' /\ Room /\ [Next]_vars => Room'
  BY RoomStep
<1>3. (TypeOK /\ Shape) /\ (TypeOK /\ Shape)' /\ Room /\ Consumption /\ [Next]_vars
        => [Lifecycle!Next]_(Lifecycle!vars)
  BY LifecycleStep
<1> QED
  BY <1>1, <1>2, <1>3, TypeInvariance, ConsumptionHolds, PTL
     DEF Spec, RunsWithinLimit, Lifecycle!Spec

=============================================================================
