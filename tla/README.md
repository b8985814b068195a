# Beeflow in TLA+

Beeflow runs Airflow 2.4 without servers: every part of Airflow that is a process
elsewhere is a lambda, a Batch job or a state machine here, and wakes up because a row
of the metadata database changed. This directory holds TLA+ modules of the parts whose
interplay decides whether tasks run, the TLC configurations that check them, and proofs
that TLAPS checks.

## The system

| Component | State it keeps | Operations | Talks to |
|---|---|---|---|
| Scheduler (`lambdas/scheduler`) | rows of `dag_run`, `task_instance`, `dag`, `dataset_dag_run_queue` | create runs by schedule or by dataset, start and examine them; queue task instances in the critical section; timers | woken by a FIFO queue with one message group |
| Change data capture (DMS, Kinesis, `lambdas/dms_cdc_forwarder`, `packages/events`) | checkpoint in the stream | convert a row to an event, put it on the bus | event bus |
| Event bus (`eventbridge/beeflow.tf`) | none | send an event to queues, by type | SQS queues |
| Executors (`lambdas/lambda_executor`, `lambdas/batch_executor`, `packages/sfn`) | none; executions by name | start an execution per queued event | Step Functions |
| Workers (`lambdas/lambda_worker`, `services/batch_worker`) | `task_instance` | run a task | metadata database |
| Catchers (`lambdas/*_executor_catcher`) | `task_instance` | mark a failed worker's task FAILED | metadata database |
| DAG parsing (`lambdas/dag_parsing_*`, `packages/dags_downloader`) | files on a container's disk | answer uploads with one parse of everything | S3, two queues |
| Schedule updater (`lambdas/dag_schedule_updater`) | cron rules | upsert the cron rule of a dag | EventBridge |
| CLI (`lambdas/api_to_cli_forwarder`, `packages/cli`) | none | pools, pause, trigger, delete | metadata database |
| Migrations (`lambdas/migrations_runner`, `packages/database`) | the schema, its stamp, moved rows, default pool, log template | upgrade, downgrade, initialise, reset | metadata database |
| Migration scripts (`packages/database/migrations/versions`) | tables, columns, keys, routines, permissions | one script up, one script down | metadata database |
| Experiments (`experiments/`) | the files they have published, the dags they have started | publish, wait, start, collect, stop, export, delete | bucket, CLI lambda or MWAA's web server |
| Web server, old forwarder | none that matters here | | |

The loop: a change of a row of `dag`, `dag_run` or `task_instance` goes through the stream
to the bus, and from there to the scheduler's queue, or to an executor (task instance
QUEUED), or to the schedule updater (`dag` changed). Cron rules wake the scheduler when an
interval is over. An upload of a DAG file leads to a parse, which writes `dag`.

What is hard about it: nothing polls, so a lost or missing wake-up is a dag that sleeps;
queues deliver late, twice and in any order; batches fail as a whole; lambdas die anywhere;
the database is read statement by statement while everybody writes.

What makes each part correct:

* critical section: limits of pools, dags and tasks hold; nothing is overwritten; nothing
  that fits is missed or overtaken;
* dag runs: a run is created once and ends for good, `max_active_runs` holds for what is
  created and for what runs, no interval is skipped, the dag does not fall asleep;
* change data capture: no change is lost or told in the wrong order, no lane is stuck;
* executors and workers: once per queueing, one worker at a time, and every occupied slot
  has somebody who will release it;
* DAG parsing: what was uploaded is parsed; schedule updater: the rule follows the dag;
* migrations: one at a time, restartable, and no row disappears on the way; a call that
  says it is done is done;
* migration scripts: each applies wherever the checks let an upgrade begin, a revision means
  one schema however a database came to it, and users keep their rights;
* experiments: each measures and exports its own dags, whatever the last one left.

## Modules

| Module | Models | State | Actions |
|---|---|---|---|
| `TaskStates` | states and sets of states of Airflow (a library, modelled from how the scheduler uses it) | | |
| `TaskSlots` | metadata of tasks, the counting of pool slots and active tasks | | |
| `SlotLimits` | abstract specification of the critical section: an allocator whose `Grant` is atomic | `held`, `total` | `Grant`, `Release`, `Resize` |
| `CriticalSection` | `_critical_section_enqueue_task_instances` and everything that writes what it reads | the rows; `cs[s]`, the local variables of a section; `lock`, the advisory lock with the pool row locks; `cs[s].rows`, the row locks | one action per SQL statement or task instance examined: `ReadPools`, `ReadConcurrencyMaps`, `SelectBatch`, `Examine` (`Refuse`, `FailMissing`, `Accept`), `EndPass`, `Commit`, `Rollback`; the workers, catchers, timeouts and users |
| `Events` | converter and rules, as functions from a change to queues | | |
| `ChangeStream` | stream, forwarder, bus | records, checkpoint, batch and its retries, what the bus has | `Change`, `Poll`, `Forward`, `ForwardPartly`, `RaiseOnPoison`, `Crash` |
| `TaskRuns` | abstract specification of the executors: one worker at a time is at work on a task instance, started within its queueings and their attempts | `queuings`, `starts`, `atWork` | `Queue`, `Start`, `End` |
| `TaskExecution` | executor queues, executions, workers, catchers | `task_instance.state`, queue, invocations, executions by name | delivery, `StartExecution`, `RefuseName`, the worker's and the catcher's steps and deaths; `TimeOutRun`, where the scheduler skips what a worker is at work on |
| `DagRuns` | abstract specification of the runs of a dag: created once, within `max_active_runs`, started and ended once | `run`, `limit` | `Create`, `Start`, `End` |
| `EventLoop` | the whole loop for one dag, by schedule or by dataset: time, users, updates of the dataset, passes of the scheduler, the timer of paused dags, workers | `dag`, `dag_run`, `task_instance` rows, `dataset_dag_run_queue`, `pending` (an event is on its way) | `CreateRun`, `StartRuns`, `ExamineRun`, `QueueTis`, `RunTimers`, `FailPass`, `StampUpdate`, `CommitUpdate`, ... |
| `DagParsing` | S3 to parsed DAGs | bucket, wait list, FIFO funnel with its deduplication, a container's disk | trigger and processor lambda, step by step |
| `ScheduleUpdater` | `dag` rows to cron rules | `is_paused`, queue, invocations, rules | `ReadDag`, `PutRule`, `PutTargets`, expiry |
| `Migrations` | the runner's call: downgrade, checks that move dangling rows, revision, initialisation or upgrade, default connections and pool, log template; the reset; the global lock | `revision` (the stamp), `shape` of each table, `others` that are there, rows, moved tables, `connected`, `pool`, `template`, `lock`; `runner[r]`, a call's local variables (`done`: how far its loop over the models is) | one per lock operation, migration, committed copy or delete, and per commit of a reset (`DropModel`, `DropOther`, `DropStamp`, `DropMovedTables`); every exception; `Killed`, `RunRemoved` |
| `SchemaOps` | alembic's operations, and the SQL the scripts execute, on a Postgres schema, and when Postgres refuses them | | |
| `RevisionsOld`, `Revisions2`, `Revisions23` | every script of `versions/`, up and down: `R0043` is the script whose file begins with 0043; beeflow's own are named for their revision | | |
| `Permissions` | what scripts 0073, 0074, 0078 and 0084 do to a role's permissions | | |
| `SchemaHistory` | calls of the lambda over the chain of scripts, one transaction each, and the checks that only report errors | `schema`, `applied` (revisions), `rights`, `call` | `CallDown`, `Call`, `Undo`, `Check`, `SeveralHeads`, `CreateFromOrm`, `Apply`, `Killed`, `Use` |
| `Experiments` | a controller's thread through its experiments, on beeflow or MWAA, while files are parsed and tasks run | bucket, disk, `dag` rows, running tasks, `ran` (which experiment a dag's runs are from) | `Call`, `Refused`, `CallFails`, `ClearDags` (it may fail half-way), `PublishDags`; `Download`, `Parse`, `StartTask`, `EndTask` |
| `MC...` | finite instances for TLC | | |
| `CriticalSection_proofs`, `ChangeStream_proofs`, `TaskExecution_proofs`, `DagParsing_proofs`, `ScheduleUpdater_proofs`, `Migrations_proofs`, `EventLoop_proofs`, `Experiments_proofs` | theorems about the module they are named for | | |

`SchemaHistory` composes the scripts, and `Migrations` takes them as numbered steps: the
first says what the scripts do, one call at a time, the second what overlapping calls do to
each other. `EventLoop` and `ChangeStream` extend `Events`; `CriticalSection`, `TaskExecution` and
`EventLoop` (through `Events`) extend `TaskStates`. A definition marked `mutant` is not part
of a model: it is a plausible mistake, kept to show that a property would notice it.

### Abstractions

* Rows, files, dags and tasks are model values; a version is a number; event texts are left
  out. `PROJECT.json` names the lines each definition stands for.
* The database runs at READ COMMITTED. A statement is atomic, a transaction is not, and
  writers of a locked row wait.
* A queue with a retention and a visibility timeout delivers an event at most `MaxReceives`
  times: retention divided by timeout, rounded up (executors: 1000 s / 300 s, updater:
  300 s / 80 s; the runs use smaller numbers). In `DagParsing` and `EventLoop` nothing
  expires, and `MaxFailures`, in `EventLoop` `disturbances`, bounds what the queue has to
  outlast.
* The FIFO queue remembers a message for 5 minutes; `MaxMinute` stays below that, so that
  `seen` only grows.
* An invocation of the scheduler makes one pass per record it was given. `EventLoop` lets
  it make any number, one at least. Runs are examined one by one there although they are
  committed together, so the model has more failures between them than the code. An event
  on its way is one bit: the loss of events is `ChangeStream`'s subject.
* A `dagrun_timeout` skips what `IN (State.unfinished)` finds, and SQL finds no NULL in a
  list: task instances that have no state yet keep it (`UNFINISHED_IN_SQL`), in
  `CriticalSection`, `EventLoop` and `TaskExecution`. That a user clears a task instance under
  its worker is left out of `TaskExecution`.
* `EventLoop` takes the critical section as one step, and a task in a retry delay as
  unready until `RetryDue`.
* A dag of `EventLoop` that a dataset triggers counts time stamps where another counts
  intervals. An update has a time stamp before it is committed, so that a run may be created
  between the two.
* `SchemaOps` models Postgres from how the scripts use it. Types, defaults, the order of
  columns in a key, other databases and uniqueness of several columns together are left out.
  Of the rows it keeps what a script can stumble over: whether a table has rows, a column has
  a NULL, or values that are the same or differ in case. A database starts with one such
  oddity at most (`Oddities`); in `InUse` every table has rows, and a NULL wherever the
  schema allows one.
* `Permissions` has one entry of the mapping of each shape (how many new permissions an old
  one becomes); what 73 entries do alike is said once.
* `SchemaHistory` has no overlapping calls and no dangling rows, `Migrations` no error checks.
  One of the checks also moves rows, of `dag_run`: for the rows that refer to those it is
  `RunRemoved`.
* A reset passes a connection without a transaction, so every DROP commits by itself, tables
  that refer to others first. `Migrations` drops the tables of dangling rows one by one,
  `task_instance` last of them, then the tables the lambda uses itself (`Others`), in any
  order: which comes first depends on the order in which Airflow imports its models. Tables
  nothing here reads are left out, with those of the web server. What a migration does to a
  database with a table missing depends on its script: it may fail (`Missing`), and must where
  it would alter, create or drop that table (`Applies`).
* In `Migrations` serialized dags are left out: `reserialize_dags` deletes them at the end of
  every upgrade, and the lambda has no dag files to write them again.
* In `Experiments` a file holds one dag. A sleep is a place where the environment takes any
  number of steps, none included, so nothing rests on how long it is.
* A pool with -1 (unlimited) slots is left out, in `CriticalSection` as in the proofs.

## Runs

| Run | Instance and bounds | Shows |
|---|---|---|
| `critical_section` | 2 schedulers, 4 task instances of 3 tasks in 2 dags and 3 runs, one pool of 2 slots, LIMIT 2, a wide task, a limited task, a dag that is paused or loses its serialized row | `RespectsLimits` (refinement of `SlotLimits`), `QueuesOnlyScheduled`, `NoMissedWork`, `PriorityRespected` |
| `change_stream` | 4 changes of 4 rows in 2 lanes, batches of 2, 1 retry, 1 failure | `NothingPassedOver`, `LostOnlyNearPoison`, `LatestEventIsCurrent`, `Drains` |
| `change_stream_retry` | 1 change | violation: an `up_for_retry` event is never put |
| `task_execution` | 2 task instances, one on a lambda worker and one on Batch, 2 queueings, 2 receives, 2 attempts of a Batch job, 2 failures | `SlotHasOwner`, `AbandonedByFailureOnly`, `RunsOneAtATime` (refinement of `TaskRuns`), `SlotIsReleased` |
| `event_loop` | 1 slot, and one of three dags: 2 intervals and a manual run, `max_active_runs` 2, 2 disturbances (failed passes, pauses, runs a user marks); 1 interval and a manual run, 2 tasks in a row, 1 retry each, 1 disturbance; a dataset with 4 time stamps and a manual run | `max_active_runs` (in `TypeOK`), `DagIsArmed`, `IntervalsSkippedByManualRunOnly`, `NoWorkWithoutWakeUp`, `UpdatesConsumedOnce`, `RunsWithinLimit` (refinement of `DagRuns`), `RunEnds` |
| `dag_parsing` | 2 files, 2 changes, 2 minutes, 2 failures | `OnlyDedupLosesUploads`, `AcceptedIsParsed` |
| `dag_parsing_dedup` | 1 file, 2 changes | violation: an upload that is never parsed |
| `schedule_updater` | 2 dags, one without cron, 2 invocations | `StaleOnlyByRaceOrExpiry`, `EventuallyHandled` |
| `migrations` | 3 revisions, 2 tables, 3 rows, 2 overlapping runners, 3 calls or resets, 1 killed (a reset between any two DROPs, too), 2 dag runs deleted, 2 default connections | `NothingLost`, `MigrationsAlone`, `StampIsTrue`, `CompletedIsLatest` |
| `schema_history` | all scripts, from an empty database and from revisions 0001, 0058 and 0119, empty or in use with one oddity of 6; 1 downgrade to one of 3 revisions, 1 kill | `ScriptsApply`, `ShapeFollowsRevision`, `RightsKept`, `Recovers` |
| `experiments` | 3 experiments of 2 dags, both types of controller, 2 failing calls | `ResultsAreItsOwn` (of its parts `MeasuresItsOwn` and `ExportsItsOwn`) |
| `schedule_updater_race` | 1 dag | violation: a rule that contradicts `is_paused` |

The bounds are the smallest with which each hazard happens: two sections that overlap and a
worker between their statements; a task wider than the room, and narrow ones behind it; a
batch with a refused record and healthy neighbours, and a partial failure of it; a second
delivery after the first execution ended; a second attempt of a Batch job, and a task
instance skipped or queued again around it; a dag at
`max_active_runs` with an interval waiting, and a manual run that ends meanwhile; a message
in a minute already announced, with the bucket read in between; three calls, the fewest with
which one runner initialises and downgrades a database that another still takes for empty;
starting points before the branches of 1.10, at the last 1.10 release and at the head, with
downgrades that cross the branches, the permissions and everything; an experiment that fails,
one after it with a dag of the first, and a third. The mutants of
`PROJECT.json` confirm that each property has teeth under these bounds.

`CHECK_DEADLOCK FALSE` stands where the bounds let a model stop: changes, queueings,
failures and intervals run out. `critical_section` and `schema_history` have no such bound and
are checked for deadlock.

### Findings

* A task instance that is up for retry has a rule that sends it to the scheduler, but the
  converter raises for that state; its batch is retried and discarded with the healthy
  changes in it (`change_stream_retry`; `LostOnlyNearPoison` says how far the damage goes).
* The deduplication by minute drops the message of a change that comes after the processor
  read the bucket, in a minute already announced (`dag_parsing_dedup`).
* Two invocations of the updater may leave a rule that contradicts the dag
  (`schedule_updater_race`).

Two properties name an exception the code really has: `IntervalsSkippedByManualRunOnly` (the
end of a manual run moves `next_dagrun` behind its own interval) and `DagIsArmed` (a run
ended by somebody else than the scheduler leaves `next_dagrun_create_after` NULL).
`NothingLost` has `excused`: mapped rows, which a downgrade deletes, and rows whose dag run is
deleted after a call has checked their table, which a migration's join then drops without a
copy; the checks run before the lock is taken. `StampIsTrue` names the
call that read no revision before others initialised and downgraded the database: it stamps
the head on the old tables; `CompletedIsLatest` goes by the stamp. Both name the reset that is
killed among its DROPs (`torn`).
It leaves the stamp over the tables that are left. The next call's checks return early
without `task_instance`, its upgrade has nothing to do, the log template is skipped without a
word if its table is gone, and the call answers MigrationCompleted with tables missing. Only
if `slot_pool` or `serialized_dag` is gone does it fail; and only a reset that gets through
makes up for it.
`SlotHasOwner` has `abandoned`: task instances that only a zombie detection would bring to an
end, and the scheduler's never does.

`DagIsArmed` has a second one: the timer of paused dags ends a run and arms nothing, so a dag
that was full stays asleep when it is unpaused. `UpdatesConsumedOnce` has `late`: an update
stamped before another and committed after that one's run was created is before the window of
the next run, and lost; an update whose row in the queue goes with the deletion for an earlier
run is consumed by the next one, whenever another update brings it about.

`ScriptsApply` is a list of what is refused after the checks passed: a NULL key of an xcom
(0060), a connection without `conn_id` (0064) and usernames that differ in case (0119) stop
every upgrade, for no check looks for them; the downgrade of 0043 waits for itself on a second
connection, that of 0060 adds a NOT NULL column to rows, or misses a primary key that 0102
renamed, and that of 0101 meets compressed dags. A call killed between the branches of release
1.10 leaves several heads, which `get_current_revision` answers with an exception in every later
call: `Recovers` excepts it, as `Blocked`. `ShapeFollowsRevision` excepts the keys of `xcom`,
and `users`, which the downgrades of 0102, 0060 and 0059 do not give back as they were.
`RightsKept` says that a role gets only the first of the new permissions an old one maps to:
the old one is taken away inside the loop over the new ones. `ResultsAreItsOwn`, that is
`MeasuresItsOwn` and `ExportsItsOwn`, excepts what an experiment that raised left running (`failed`), and dags that
could not be deleted when the next began (`kept`), whose error is swallowed.

### Fairness

* `ChangeStream`, `DagParsing`, `ScheduleUpdater`, `TaskExecution`: weak fairness of the
  lambdas. AWS polls a queue that is not empty and invokes the function; a worker has a
  timeout. No fairness for users, changes and failures.
* `EventLoop`: weak fairness of the scheduler's steps; of the workers as one (while task
  instances are with them, one of them gets on; that each ends is `TaskExecution`'s subject);
  and of `CronEvent`, the rule that goes on firing as time passes and is enabled while the
  dag is not paused. `RunEnds` needs it: a retry is told to nobody.
* `SchemaHistory`: weak fairness of a call that runs (`Proceed`) and of the next call (`Call`):
  the deployment invokes the lambda again. None for downgrades, kills and the application.
* `CriticalSection`, `Migrations` and `Experiments` have safety properties only.

## Proofs

The theorems hold for every value of the constants under the assumptions that the modules
state: any number of schedulers, runners, invocations, rows, task instances, dags, files,
and any bounds on queueings, failures, retries and changes. The assumptions say that
metadata is well typed and that names which must differ do; finitely many task instances and
pools (`FiniteAssumption`, `ExecutionAssumption`) and tasks of a dag (`LoopAssumption`); in
`ChangeStream` that an outage is shorter than the retries (`MaxFailures <= MaxRetries`), which
is the claim's own condition. The plan of `Experiments` is any sequence of non-empty sequences
of dags, and may name a dag several times.

| Module | Theorem | States |
|---|---|---|
| `CriticalSection_proofs` | `TypeCorrect`, `LimitsRespected`, `OnlyScheduledQueued`, `NothingMissed`, `PriorityKept` | `TypeOK`; `RespectsLimits` (it implements `SlotLimits`); `QueuesOnlyScheduled`; `NoMissedWork`; `PriorityRespected` |
| `ChangeStream_proofs` | `TypeCorrect`, `PassesNothingOver`, `LosesOnlyNearPoison`, `LatestWordIsCurrent` | `TypeOK`, `NothingPassedOver`, `LostOnlyNearPoison`, `LatestEventIsCurrent` |
| `TaskExecution_proofs` | `TypeCorrect`, `OneStart`, `SlotOwned`, `AbandonedIfFailed`, `OneRunAtATime` | `TypeOK`, `SlotHasOwner`, `AbandonedByFailureOnly`, `RunsOneAtATime` (it implements `TaskRuns`); `OneStart` states `OneStartPerAttempt`, the part of `TaskRuns` that counts starts |
| `DagParsing_proofs` | `TypeCorrect`, `OnlyDedup` | `TypeOK`, `OnlyDedupLosesUploads` |
| `ScheduleUpdater_proofs` | `TypeCorrect`, `OnlyRaceOrExpiry` | `TypeOK`, `StaleOnlyByRaceOrExpiry` |
| `Migrations_proofs` | `TypeCorrect`, `Exclusive`, `RowsAreKept`, `StampTrue`, `AnswersTrue` | `TypeOK`, `MigrationsAlone`, and the action properties `NothingLost`, `StampIsTrue`, `CompletedIsLatest` |
| `EventLoop_proofs` | `TypeCorrect`, `ArmedAgain`, `SkippedByManualRun`, `ConsumedOnce`, `WorkIsTold`, `LimitKept` | `TypeOK`, `DagIsArmed`, `IntervalsSkippedByManualRunOnly`, `UpdatesConsumedOnce`, `NoWorkWithoutWakeUp`, `RunsWithinLimit` (it implements `DagRuns`) |
| `Experiments_proofs` | `TypeCorrect`, `ResultsOwn` | `TypeOK`, `ResultsAreItsOwn` |

Each proof has one inductive invariant (`IInv` in most modules), a lemma per action that the
action preserves it, and the theorems as consequences. `EventLoop_proofs` has one for each
theorem, on top of the types, since they share little. The action properties follow from the
invariant too: it holds before the step, and the step does what the action says. TLC checked
every inductive invariant on the instance of its module's run.

**Critical section.** A section that is not idle holds the lock
(`LockSafe`). A task instance it has chosen is still SCHEDULED and its row locked
(`RowsSafe`): nobody else may write it. What the section believes to be open in a pool is
what it granted subtracted from at most what is really free (`PoolsSafe`): other writers of
`task_instance` only release slots, since only the holder of the lock makes task instances
QUEUED, and a worker's step from QUEUED to RUNNING leaves the execution states alone; and
nobody resizes a pool whose row is locked. A pool inserted meanwhile counts as full for the
section, and has only room it does not know of. The same holds for the counts of dags and
tasks (`DagsSafe`, `TasksSafe`), which may be too high and never too low. At `Commit`
these facts are what `Grant` asks; every other step releases, resizes or stutters.
What a section overlooks is `Thorough`, on top of `IInv`: a name is starved only when nothing
of it fits, and nothing will before the COMMIT, since a section only takes; what the SELECT
saw and the section did nothing with is starved, or comes behind everything taken while the
LIMIT was exhausted (`PassedRightly`); and the loop ends with nothing chosen only after a pass
below the LIMIT in which nothing starved anew (`EndsRightly`).
The module begins with the lemmas about cardinalities: slots of disjoint sets add up, and
subsets occupy no more.

**Change stream.** `NothingPassedOver` is not inductive, since it says nothing of the batch
at work. `Tries` does: what is on the bus lies before the end of the batch, what was given up
behind the checkpoint; nothing of a batch with a refused record is on the bus, for the
converter raises before anything is put; and a batch without one has been retried at most as
often as the bus has failed, so it is never given up. `NearPoison` follows when such a batch
is discarded, from its length (`Place`). For the order of events, `RowOK` says that the last event
about a row is at least as late as every change of it behind the checkpoint; a batch puts the
events of a row in order, and one that starts again starts at the first that was refused.

**Task execution.** An execution is named for its task instance and queueing (`Named`), and the
names that events and executions have between them are no more than the queueings (`Counted`); a
name is used once, and its execution has as many attempts as it may: what was started are pairs
of a name and an attempt (`Begun`), hence `OneStartPerAttempt`. `queued_dttm` is never used
twice, because the clock is bounded by the queueings there have been. For `SlotHasOwner`,
`Owned` tells apart who is responsible: a queued task instance is awaited by an event that an
executor has not yet passed on, or by an execution whose worker has not begun or that is with
the catcher; a running one is minded by the execution that started it. Without that split the
invariant is not preserved when an execution ends that somebody else's queueing has started.
`AbandonedByFailureOnly` needs that digests tell task instances apart (the theorem's hypothesis
`Injective`: the executors name an execution by a digest of the key, which may collide), and its
own invariant, `Unhurt`: while nothing has failed, events are distinct and every task instance
is attended. `OneRunAtATime` needs `Exclusive`: a worker at work owns its task instance, which
is RUNNING, or somebody has closed it meanwhile, a catcher as FAILED or the scheduler as
SKIPPED, when its run timed out; and it is alone. No state of a task instance with a worker at
work is one that an executor's worker may start or the scheduler queue (`StartableIsIdle`), so
the step that starts a worker, and the one that queues, find nobody at work. That a start is
within the queueings is `OneStartPerAttempt` after the step.

**DAG parsing.** `UploadsCovered` says of a file in the bucket that its change was dropped by
the deduplication, or is announced (it waits, is with the trigger, or a minute in the funnel
is still to be processed), or that the processor at work brings it into the database. The
last part depends on how far the run is: listed and still to be downloaded, on the disk and still to be
parsed, parsed. It needs that a listed file is always downloaded again.

**Schedule updater.** `Fresh` says of a dag that is neither raced nor expired: an event about
it is in the queue, or ahead in somebody's batch, or somebody is about to write what the dag is
now, or the rule is `Current`. Together with `RacesSeen` (two invocations are busy with a dag only if it is in
`raced`) this survives a change of the dag between the read and the write, since the change
leaves an event in the queue.

**Migrations.** `Types` says who holds the lock: a runner exactly while its call is in a locked
block; hence `MigrationsAlone`, with `Held`: the revision a migration starts from is the
stamp. `Checked` carries the outcome of a table's check, made without the lock, to the moment when a
migration drops what has no dag run: everything dangling is copied, excused, or the call
remembers the error and will not migrate. `Reached` carries what a call has brought about after it gave the
lock back, as long as nobody downgraded or reset it (`overtaken`): the stamp of the head, pool,
template, connections. `Whole` says that no table of the stamped revision is missing, unless a
reset is at its DROPs or `torn`; a call that has settled can leave out the former, since every
DROP overtakes it. A migration either leaves a table alone or takes it from the shape of one
revision to that of the next (`Migrated`), which carries `Whole`, `Stamped` and `Rows`
through it. `Rows` says that a table that is not there has no rows and that once `run_id`
exists no row lacks a dag run, and that `task_instance` goes last: `Reflect` takes its absence
for that of all.

**Event loop.** `TypeOK` says that `max_active_runs` is kept; the transaction that starts runs
counts all of them, and no other makes one RUNNING. `Shape` adds what a pass may rely on: the
row of the dataset queue it read stays until it is deleted, and a dag has one kind of schedule.
`DagIsArmed` is inductive as it stands: whoever makes room calls `Rearm`, or is a user or the
timer. `IntervalsSkippedByManualRunOnly` is not, because the end of an old run moves
`next_dagrun` back; `NoGap` says that nothing is missing before any run there is, not only
before the next. `Consumption` is the bookkeeping behind `UpdatesConsumedOnce`: no two things
have the same time stamp, an update that is not committed when a later run is created is late,
and any other is consumed by one run if there is a later one, and else by none. The interval of
a run ends at its own stamp and begins at the previous dataset-triggered run's: no update falls between
(`PreviousFacts`). For `NoWorkWithoutWakeUp`, `Told` says how far a pass is: if no event is
pending, it has left no work of the kinds it went through already, and the runs it has
examined have none. It survives the workers' steps because a task instance between SCHEDULED
and RUNNING is nothing a run looks at (`Lasting`), and what ends one has an event (`Rules`); it
survives the pass's own steps because starting and queueing stop only when no run may
start, and nothing is queueable or no slot is free (`StartingExhausts`, `QueueingExhausts`).
`LimitKept` needs `Room`: from the moment a dag is armed, or its row of the dataset queue is
read, until the run is created, the scheduler's own queued and running runs are fewer than
`max_active_runs`. A user may trigger a run in between, which is not one of them; whoever else
changes their number ends some, or arms the dag anew. That a dataset's run is not created over
an old one is in `Consumption`: its time stamp is later than any run there is.

**Experiments.** `ProgramShape` says where each call of an experiment on n dags is among its
5n + 11 steps. What the code relies on tacitly is the invariant: the dags of an experiment have,
from their first deletion on, no run of an earlier experiment unless they are in `kept`; they
are started when the metrics are collected, paused afterwards, and gone at the end (`Started`).
Every other dag is neither unpaused nor busy, unless its last experiment raised an
exception; the export dag is, while it exports (`Others`). That needs `delete` to refuse a dag
with a running task, since the next experiment takes over what the last one left; that a dag
without a row has no runs (`Gone`) is needed where the first deletion finds nothing to delete.

Only model-checked: liveness (`Drains`, `SlotIsReleased`, `RunEnds`, `AcceptedIsParsed`,
`EventuallyHandled`, `Recovers`), which is out of this prover's reach, as is what depends on
ENABLED; and the properties of `SchemaHistory`. Those are about what some hundred scripts do to
one concrete schema: TLC evaluates them on it, and there is no constant to generalise over.

## Not modelled

* Scheduler: zombies (looked for among task instances that this very invocation queued more
  than 300 s ago, so none), trigger timeouts (no triggerer runs), `_process_executor_events`
  (nothing feeds it), callbacks, SLAs, backfills; the limit of 20 runs per pass, which more
  dags than TLC has room for would need; the expiry of scheduler events after 300 s. Passes of
  `EventLoop` do not overlap: the queue has one message group, and a lambda ends before its
  message becomes visible again.
* The conversion of strings in `prepare_input` and of cron expressions: data no property here
  tells apart.
* CLI: argument parsing and printing; the commands on users, which write accounts that only
  the web server reads.
* Migrations: serialized dags, offline SQL, the wait of
  `check_migrations`, the moved rows of tables other than `dag_run` in `SchemaHistory`; other
  databases than Postgres.
* Experiments: the export itself, metrics, the size of the default pool.
* Web server (starts gunicorn), the old forwarder (one `put_events` call), data classes,
  configuration and progress bars; notebooks; infrastructure beyond queues, rules, event
  sources and state machines.

## Plan

1. Done: critical section with its abstract specification and proofs; change stream; task
   execution; event loop with datasets and the timer of paused dags; DAG parsing; schedule
   updater; migrations with reset; the migration scripts; experiments.
2. Proofs. Done: the safety properties of the critical section, change stream, task
   execution, event loop, DAG parsing, schedule updater, migrations and experiments; and that
   critical section, task execution and event loop implement their abstract specifications.
3. Many dags: the limit of 20 runs per pass and the expiry of events, in a module of dag runs
   without tasks.
4. Tighter composition: `ChangeStream` implements an abstract "told at least once, the latest
   last"; the workers' own check of the limits, against `SlotLimits`.
5. Operators checked against a reference: cron conversion and `prepare_input`.
