----------------------------- MODULE EventLoop -----------------------------
(***************************************************************************)
(* The loop that closes over the whole system, for one dag.  The scheduler *)
(* is not a process that polls: it runs when an event wakes it, makes one  *)
(* pass per event and is gone.  A pass creates the dag run that is due,    *)
(* starts queued runs, examines the running ones, and queues task          *)
(* instances; workers end them; and every change of a row that matters     *)
(* must be an event that wakes the scheduler again, or the dag sleeps      *)
(* until its next cron event.                                              *)
(*                                                                         *)
(* The FIFO queue of the scheduler has one message group, so one           *)
(* invocation runs at a time.  The stream and the queue are one bit here:  *)
(* some event is on its way (ChangeStream shows what the stream loses).    *)
(* Of the invocation's passes, one per record, only the first is sure.     *)
(* CriticalSection has the details of the queueing, TaskExecution those of *)
(* the execution.                                                          *)
(***************************************************************************)
EXTENDS Events, Naturals, FiniteSetsExt

CONSTANTS
  Dags,         \* dags the loop is about, one at a time:
                \*   upstream: of each task, the tasks it waits for
                \*   max_active_runs, retries (of a task)
                \*   schedule: "cron" or "dataset"
                \*   intervals: bound on schedule intervals, or on time stamps
                \*   disturbances: bound on pauses, runs a user marks, failing passes
  PoolSlots,    \* slots of the pool its tasks share
  Manual        \* the run a user triggers

ASSUME LoopAssumption ==
  /\ \A d \in Dags :
       /\ d.upstream \in [DOMAIN d.upstream -> SUBSET DOMAIN d.upstream]
       /\ IsFiniteSet(DOMAIN d.upstream)
       /\ d.max_active_runs \in Nat \ {0} /\ d.retries \in Nat
       /\ d.schedule \in {"cron", "dataset"} /\ d.intervals \in Nat
       /\ Manual \notin 1 .. d.intervals
       /\ d.disturbances \in Nat
  /\ PoolSlots \in Nat \ {0}

VARIABLES
  dag,      \* the dag, which stays as it is
  now,      \* schedule intervals that are over; a dataset's dag: the last time stamp
  paused,   \* dag.is_paused
  next,     \* dag.next_dagrun, as the number of its interval
  armed,    \* dag.next_dagrun_create_after is not NULL
  run,      \* dag_run.state, "none" for a run that does not exist
  manualAt, \* the interval of the manual run
  task,     \* task_instance.state
  tries,    \* retries a task instance has used up
  pending,  \* an event is on its way to the scheduler
  loop,     \* where the scheduler's pass is, and the runs it still has to examine
  silent,   \* a slot or a task became free without an event, since the last wake-up
  marked,   \* a user or the timer ended a run, since the dag was last armed
  disturbances, \* pauses, runs a user marked and failed passes so far
  update,   \* what is at a time stamp: an update of the dataset, "stamped" or "committed"
  queuedAt, \* created_at of the dag's row in dataset_dag_run_queue, 0 if none
  consumed, \* the updates in a run's consumed_dataset_events
  late      \* updates committed only after a run later than them was created

vars == <<dag, now, paused, next, armed, run, manualAt, task, tries, pending, loop,
          silent, marked, disturbances, update, queuedAt, consumed, late>>
datasetVars == <<dag, update, queuedAt, consumed, late>>
dagVars == <<datasetVars, now, paused, next, armed, manualAt, marked>>
taskVars == <<task, tries>>

\* A run is named by its interval, a run of a dataset's dag by its time.
Interval == 1 .. dag.intervals
Run == Interval \cup {Manual}
TI == Run \X DOMAIN dag.upstream

NoPass == [pc |-> "idle", due |-> 0, todo |-> {}]

Init ==
  /\ dag \in Dags
  /\ update = [t \in Interval |-> "none"] /\ queuedAt = 0 /\ late = {}
  /\ consumed = [r \in Interval |-> {}]
  /\ now = 0 /\ paused \in BOOLEAN
  /\ next = 1 /\ armed = (dag.schedule = "cron")
  /\ run = [r \in Run |-> "none"] /\ manualAt = 0
  /\ task = [ti \in TI |-> "none"] /\ tries = [ti \in TI |-> 0]
  /\ pending = FALSE /\ loop = NoPass
  /\ silent = FALSE /\ marked = FALSE
  /\ disturbances = 0

-----------------------------------------------------------------------------
With(state) == {r \in Run : run[r] = state}
Active == With("queued") \cup With("running")

IntervalOf(r) == IF r = Manual THEN manualAt ELSE r

InState(S) == {ti \in TI : task[ti] \in S}
FreeSlots == PoolSlots - Cardinality(InState(EXECUTION_STATES))

Upstreams(ti) == {<<ti[1], t>> : t \in dag.upstream[ti[2]]}
Of(r) == {r} \X DOMAIN dag.upstream

Updates == {u \in Interval : update[u] = "committed"}

\* Task instances a pass over a running run makes SCHEDULED or UPSTREAM_FAILED.
Ready(r) ==
  {ti \in Of(r) : task[ti] = "none" /\ \A u \in Upstreams(ti) : task[u] = "success"}
Doomed(r) ==
  {ti \in Of(r) :
     /\ task[ti] = "none"
     /\ \E u \in Upstreams(ti) : task[u] \in {"failed", "upstream_failed"}}
Over(r) == Of(r) \subseteq InState(FINISHED_STATES)
Outcome(r) == IF Of(r) \subseteq InState({"success", "skipped"}) THEN "success" ELSE "failed"

\* The change of a task instance that some rule routes to the scheduler.
Wakes(state) == "scheduler" \in TaskRoute(state, "default") /\ Converts("task_instance", state)

-----------------------------------------------------------------------------
(* Time and the users.                                                     *)

\* An interval ends; the cron rule fires, if it is enabled.
Tick ==
  /\ dag.schedule = "cron" /\ now < dag.intervals
  /\ now' = now + 1
  /\ pending' = (pending \/ ~paused)
  /\ UNCHANGED <<datasetVars, paused, next, armed, manualAt, marked, run, taskVars, loop,
                 silent, disturbances>>

\* The rule goes on firing while time passes within an interval.
CronEvent ==
  /\ dag.schedule = "cron" /\ ~paused
  /\ pending' = TRUE
  /\ UNCHANGED <<dagVars, run, taskVars, loop, silent, disturbances>>

\* airflow dags pause and unpause: the row's event is dag_updated.
TogglePause ==
  /\ disturbances < dag.disturbances /\ disturbances' = disturbances + 1
  /\ paused' = ~paused
  /\ pending' = TRUE
  /\ UNCHANGED <<datasetVars, now, next, armed, manualAt, marked, run, taskVars, loop,
                 silent>>

\* airflow dags trigger: a run of the last interval that is over.  Its task
\* instances are new rows without a state, which have an event.
TriggerRun ==
  /\ run[Manual] = "none"
  /\ now > 0
  /\ run' = [run EXCEPT ![Manual] = "queued"]
  /\ manualAt' = now
  /\ pending' = (pending \/ Wakes("none"))
  /\ UNCHANGED <<datasetVars, now, paused, next, armed, marked, taskVars, loop, silent,
                 disturbances>>

\* A user marks a run as failed or successful in the web server.
MarkRun(r) ==
  /\ run[r] \in {"queued", "running"}
  /\ disturbances < dag.disturbances /\ disturbances' = disturbances + 1
  /\ \E end \in {"success", "failed"} :
       /\ run' = [run EXCEPT ![r] = end]
       /\ task' = [ti \in TI |-> IF ti \in Of(r) /\ task[ti] \in UNFINISHED_STATES
                                 THEN IF end = "success" THEN "success" ELSE "skipped"
                                 ELSE task[ti]]
  /\ marked' = TRUE
  /\ pending' = TRUE
  /\ UNCHANGED <<datasetVars, now, paused, next, armed, manualAt, tries, loop, silent>>

\* A task of another dag updates the dataset.  Its event is stamped, then comes
\* the dag's row in the queue, unless it has one, and the commit, which makes the
\* task a success.
StampUpdate ==
  /\ dag.schedule = "dataset" /\ now < dag.intervals
  /\ now' = now + 1 /\ update' = [update EXCEPT ![now + 1] = "stamped"]
  /\ UNCHANGED <<dag, queuedAt, consumed, late, paused, next, armed, manualAt, marked,
                 run, taskVars, pending, loop, silent, disturbances>>

CommitUpdate(u) ==
  /\ update[u] = "stamped" /\ (queuedAt = 0 => now < dag.intervals)
  /\ update' = [update EXCEPT ![u] = "committed"]
  /\ IF queuedAt = 0 THEN now' = now + 1 /\ queuedAt' = now + 1
                     ELSE UNCHANGED <<now, queuedAt>>
  /\ pending' = (pending \/ Wakes("success"))
  /\ UNCHANGED <<dag, consumed, late, paused, next, armed, manualAt, marked, run,
                 taskVars, loop, silent, disturbances>>

-----------------------------------------------------------------------------
(* A pass of the scheduler: _do_scheduling.                                *)

Wake ==
  /\ loop.pc = "idle"
  /\ pending
  /\ pending' = FALSE /\ silent' = FALSE
  /\ loop' = [NoPass EXCEPT !.pc = "create"]
  /\ UNCHANGED <<dagVars, run, taskVars, disturbances>>

\* _should_update_dag_next_dagruns, then calculate_dagrun_date_fields: the next run
\* is the one after interval i, if the dag may have another active run.  A dataset's
\* dag has no next run.
RearmHalf(i, active) ==  \* mutant: next_dagrun moves, next_dagrun_create_after stays NULL
  IF Cardinality(active) >= dag.max_active_runs
  THEN armed' = FALSE /\ UNCHANGED <<next, marked>>
  ELSE next' = i + 1 /\ marked' = FALSE /\ UNCHANGED armed
RearmNow(i, active) ==  \* mutant: the next run is the latest, nothing is caught up
  IF Cardinality(active) >= dag.max_active_runs
  THEN armed' = FALSE /\ UNCHANGED <<next, marked>>
  ELSE armed' = TRUE /\ next' = now + 1 /\ marked' = FALSE
Rearm(i, active) ==
  IF Cardinality(active) >= dag.max_active_runs
  THEN armed' = FALSE /\ UNCHANGED <<next, marked>>
  ELSE /\ armed' = (dag.schedule = "cron") /\ marked' = FALSE
       /\ next' = IF dag.schedule = "cron" THEN i + 1 ELSE next

Due == ~paused /\ armed /\ next <= now
DatasetDueUncounted == ~paused /\ queuedAt # 0  \* mutant: active runs are not counted
DatasetDue == ~paused /\ queuedAt # 0 /\ Cardinality(Active) < dag.max_active_runs

\* _create_dagruns_for_dags: the run, unless it exists; the row of the dag changes.
CreateRun ==
  /\ loop.pc = "create" /\ ~DatasetDue
  /\ IF Due
     THEN /\ run' = [run EXCEPT ![next] = IF @ = "none" THEN "queued" ELSE @]
          /\ Rearm(next, Active \cup IF run[next] = "none" THEN {next} ELSE {})
          /\ pending' = (pending \/ "scheduler" \in DagRoute)
     ELSE UNCHANGED <<run, armed, next, marked, pending>>
  /\ loop' = [loop EXCEPT !.pc = "start"]
  /\ UNCHANGED <<datasetVars, now, paused, manualAt, taskVars, silent, disturbances>>

\* dags_needing_dagruns: the row in the queue is read, and what it says kept.
ReadQueue ==
  /\ loop.pc = "create" /\ DatasetDue
  /\ loop' = [loop EXCEPT !.pc = "consume", !.due = queuedAt]
  /\ UNCHANGED <<dagVars, run, taskVars, pending, silent, disturbances>>

\* The latest dataset-triggered run before a time, 0 if none.
PreviousOfAnyType(t) ==  \* mutant: a manual run counts
  LET manual == IF run[Manual] = "none" THEN {} ELSE {manualAt}
  IN Max({0} \cup {r \in Interval : run[r] # "none" /\ r < t} \cup {m \in manual : m < t})
Previous(t) == Max({0} \cup {r \in Interval : run[r] # "none" /\ r < t})

\* _create_dag_runs_dataset_triggered: a run of that time, with the committed updates
\* since the previous one; the row is deleted, whatever has come since it was read.
CreateDatasetRun ==
  LET t == loop.due IN
  /\ loop.pc = "consume"
  /\ run' = [run EXCEPT ![t] = "queued"]
  /\ consumed' = [consumed EXCEPT ![t] = {u \in Updates : Previous(t) < u /\ u <= t}]
  /\ late' = late \cup {u \in Interval : update[u] = "stamped" /\ u < t}
  /\ queuedAt' = 0
  /\ pending' = (pending \/ "scheduler" \in DagRunRoute("queued"))
  /\ loop' = [loop EXCEPT !.pc = "start", !.due = 0]
  /\ UNCHANGED <<dag, update, now, paused, next, armed, manualAt, marked, taskVars,
                 silent, disturbances>>

\* _start_queued_dagruns: as many as max_active_runs allows.  dag_run_running has no
\* rule.  Then next_dagruns_to_examine, all of them (at most 20 in the code).
MayStartAll(S) == TRUE  \* mutant: max_active_runs is not looked at
MayStartFewer(S) == Cardinality(With("running") \cup S) < dag.max_active_runs  \* mutant
MayStart(S) == Cardinality(With("running") \cup S) <= dag.max_active_runs

\* What starts: the most that may.
Startable ==
  {S \in SUBSET With("queued") :
     /\ S # {} => MayStart(S)
     /\ \A r \in With("queued") \ S : ~MayStart(S \cup {r})}

StartRuns ==
  /\ loop.pc = "start"
  /\ \E S \in IF paused THEN {{}} ELSE Startable :
       /\ run' = [r \in Run |-> IF r \in S THEN "running" ELSE run[r]]
       /\ loop' = [NoPass EXCEPT !.pc = "examine",
                   !.todo = IF paused THEN {} ELSE With("running") \cup S]
  /\ UNCHANGED <<dagVars, taskVars, pending, silent, disturbances>>

\* The run is over, successfully or not, or timed out: it makes room for another.
EndRun(r) ==
  /\ \/ /\ Over(r)
        /\ run' = [run EXCEPT ![r] = Outcome(r)]
        /\ UNCHANGED task
     \/ /\ run' = [run EXCEPT ![r] = "failed"]
        /\ task' = [ti \in TI |-> IF ti \in Of(r) /\ task[ti] \in UNFINISHED_IN_SQL
                                  THEN "skipped" ELSE task[ti]]
  /\ Rearm(IntervalOf(r), Active \ {r})
  /\ pending' = (pending \/ "scheduler" \in DagRunRoute(run'[r]))

\* update_state and schedule_tis; a retry is ready when its delay is over.
ScheduleTis(r) ==
  /\ ~Over(r)
  /\ task' = [ti \in TI |-> IF ti \in Ready(r) THEN "scheduled"
                            ELSE IF ti \in Doomed(r) THEN "upstream_failed"
                            ELSE task[ti]]
  /\ pending' = \/ pending
                \/ Ready(r) # {} /\ Wakes("scheduled")
                \/ Doomed(r) # {} /\ Wakes("upstream_failed")
  /\ UNCHANGED <<run, armed, next, marked>>

ExamineRun(r) ==
  /\ loop.pc = "examine" /\ r \in loop.todo
  /\ IF run[r] = "running" THEN EndRun(r) \/ ScheduleTis(r)
                           ELSE UNCHANGED <<run, armed, next, marked, task, pending>>
  /\ loop' = [loop EXCEPT !.todo = @ \ {r}]
  /\ UNCHANGED <<datasetVars, now, paused, manualAt, tries, silent, disturbances>>

Queueable ==
  IF paused THEN {} ELSE {ti \in InState({"scheduled"}) : run[ti[1]] = "running"}

\* The critical section, as a whole: as many as the pool has slots.  Queued task
\* instances go to the executor; the invocation makes another pass, or ends, and if it
\* has lasted for a minute its timers run before.
QueueTis ==
  /\ loop.pc = "examine" /\ loop.todo = {}
  /\ \E S \in SUBSET Queueable :
       /\ Cardinality(S) = Min({FreeSlots, Cardinality(Queueable)})
       /\ task' = [ti \in TI |-> IF ti \in S THEN "queued" ELSE task[ti]]
  /\ loop' \in {NoPass, [NoPass EXCEPT !.pc = "create"], [NoPass EXCEPT !.pc = "timers"]}
  /\ UNCHANGED <<dagVars, run, tries, pending, silent, disturbances>>

\* _update_dag_run_state_for_paused_dags: update_state and no more.  Runs that are over
\* end, task instances whose upstreams failed are written off; nothing arms the dag.
RunTimers ==
  LET ended == IF paused THEN {r \in With("running") : Over(r)} ELSE {}
      doomed == IF paused THEN UNION {Doomed(r) : r \in With("running")} ELSE {}
  IN
  /\ loop.pc = "timers"
  /\ run' = [r \in Run |-> IF r \in ended THEN Outcome(r) ELSE run[r]]
  /\ task' = [ti \in TI |-> IF ti \in doomed THEN "upstream_failed" ELSE task[ti]]
  /\ marked' = (marked \/ ended # {})
  /\ pending' = \/ pending
                \/ \E r \in ended : "scheduler" \in DagRunRoute(run'[r])
                \/ doomed # {} /\ Wakes("upstream_failed")
  /\ loop' \in {NoPass, [NoPass EXCEPT !.pc = "create"]}
  /\ UNCHANGED <<datasetVars, now, paused, next, armed, manualAt, tries, silent, disturbances>>

\* The invocation fails between two commits: its events are delivered again.
FailPass ==
  /\ loop.pc # "idle"
  /\ disturbances < dag.disturbances /\ disturbances' = disturbances + 1
  /\ loop' = NoPass /\ pending' = TRUE
  /\ UNCHANGED <<dagVars, run, taskVars, silent>>

-----------------------------------------------------------------------------
(* The workers.                                                            *)

Becomes(ti, state) ==
  /\ task' = [task EXCEPT ![ti] = state]
  /\ pending' = (pending \/ Wakes(state))
  /\ silent' = (silent \/ ~Wakes(state))

StartTi(ti) ==
  /\ task[ti] = "queued"
  /\ task' = [task EXCEPT ![ti] = "running"]
  /\ UNCHANGED <<dagVars, run, tries, pending, loop, silent, disturbances>>

EndTi(ti) ==
  /\ task[ti] = "running"
  /\ \E end \in {"success", "failed"} : Becomes(ti, end)
  /\ UNCHANGED <<dagVars, run, tries, loop, disturbances>>

RetryTi(ti) ==
  /\ task[ti] = "running"
  /\ tries[ti] < dag.retries
  /\ tries' = [tries EXCEPT ![ti] = @ + 1]
  /\ Becomes(ti, "up_for_retry")
  /\ UNCHANGED <<dagVars, run, loop, disturbances>>

\* The retry delay is over: as good as a task instance that never ran, but nothing
\* writes its row, so nobody is told.
RetryDue(ti) ==
  /\ task[ti] = "up_for_retry"
  /\ task' = [task EXCEPT ![ti] = "none"]
  /\ silent' = TRUE
  /\ UNCHANGED <<dagVars, run, tries, pending, loop, disturbances>>

-----------------------------------------------------------------------------
SchedulerStep ==
  \/ Wake \/ CreateRun \/ ReadQueue \/ CreateDatasetRun \/ StartRuns
  \/ \E r \in loop.todo : ExamineRun(r)
  \/ QueueTis \/ RunTimers

WorkerStep(ti) == StartTi(ti) \/ EndTi(ti) \/ RetryTi(ti) \/ RetryDue(ti)

Next ==
  \/ Tick \/ CronEvent \/ TogglePause \/ TriggerRun
  \/ \E r \in Run : MarkRun(r)
  \/ StampUpdate \/ (\E u \in Interval : CommitUpdate(u))
  \/ SchedulerStep \/ FailPass
  \/ \E ti \in TI : WorkerStep(ti)

\* The queue delivers and the invocation goes on; the cron rule goes on firing; while
\* there are task instances with the workers, one of them gets on (that a worker ends
\* its task TaskExecution shows, and on what condition).
Spec ==
  /\ Init /\ [][Next]_vars
  /\ WF_vars(SchedulerStep) /\ WF_vars(CronEvent)
  /\ WF_vars(\E ti \in TI : WorkerStep(ti))

-----------------------------------------------------------------------------
\* Every variable has its type, and max_active_runs bounds the running runs.
TypeOK ==
  /\ now \in 0 .. dag.intervals /\ paused \in BOOLEAN
  /\ next \in 1 .. dag.intervals + 1 /\ armed \in BOOLEAN
  /\ run \in [Run -> DagRunState \cup {"none"}] /\ manualAt \in 0 .. dag.intervals
  /\ task \in [TI -> TaskInstanceState] /\ tries \in [TI -> 0 .. dag.retries]
  /\ pending \in BOOLEAN
  /\ loop \in [pc : {"idle", "create", "consume", "start", "examine", "timers"},
              due : {0} \cup Interval, todo : SUBSET Run]
  /\ silent \in BOOLEAN /\ marked \in BOOLEAN
  /\ disturbances \in 0 .. dag.disturbances
  /\ Cardinality(With("running")) <= dag.max_active_runs
  /\ dag \in Dags /\ late \subseteq Interval
  /\ update \in [Interval -> {"none", "stamped", "committed"}]
  /\ queuedAt \in {0} \cup Interval /\ consumed \in [Interval -> SUBSET Interval]

\* What a pass of the scheduler would do something about.
Work ==
  \/ Due \/ DatasetDue
  \/ ~paused /\ \E r \in With("queued") : MayStart({r})
  \/ ~paused /\ \E r \in With("running") : Over(r) \/ Ready(r) # {} \/ Doomed(r) # {}
  \/ Queueable # {} /\ FreeSlots > 0

\* The promise of an event-driven scheduler: as long as there is something to do, an
\* event is on its way or a pass is under way.  The rules leave out dag_run_queued
\* and dag_run_running, a pass may fail anywhere, and users interfere at any moment;
\* yet only a retry (up_for_retry has no event) makes work nobody is told of.
NoWorkWithoutWakeUp == Work => pending \/ loop.pc # "idle" \/ silent

\* A dag that may have another active run is armed: the scheduler cleared
\* next_dagrun_create_after when the dag was full, and sets it again when it ends a
\* run; only a run that somebody else ended leaves the dag asleep: a user, or the
\* timer that ends the runs of paused dags and arms nothing.
DagIsArmed ==
  dag.schedule = "cron" /\ ~armed /\ Cardinality(Active) < dag.max_active_runs => marked

\* No interval is passed over, but by the end of a manual run, which moves
\* next_dagrun behind its own interval.
IntervalsSkippedByManualRunOnly ==
  \A i \in Interval : i < next /\ run[i] = "none" =>
    i <= manualAt /\ run[Manual] \in {"success", "failed"}

\* Every update that was committed is consumed by exactly one of the runs later than
\* it, as soon as there is one, though runs are created while updates are under way
\* and a user triggers runs in between.  Left over are the late ones: stamped before,
\* and committed after another update had its run created.
UpdatesConsumedOnce ==
  \A u \in Updates \ late :
    LET after == {r \in Interval : run[r] # "none" /\ u < r} IN
    Cardinality({r \in Interval : u \in consumed[r]}) = IF after = {} THEN 0 ELSE 1

Lifecycle == INSTANCE DagRuns WITH Triggered <- Manual, limit <- dag.max_active_runs

\* A run is created once and never reopened, and the scheduler keeps to
\* max_active_runs when it creates runs as when it starts them, though it decides
\* when the dag is armed or the dataset's queue is read, and creates them later.
RunsWithinLimit == Lifecycle!Spec

\* The dag runs that were created end, unless the dag is paused: with as many runs as
\* there are here, none is active again and again.
RunEnds == []<>(paused \/ Active = {})
=============================================================================
