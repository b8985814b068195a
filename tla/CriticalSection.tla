--------------------------- MODULE CriticalSection ---------------------------
(***************************************************************************)
(* The critical section of BeeflowSchedulerJob: one scheduler at a time    *)
(* turns SCHEDULED task instances into QUEUED ones, while workers, other   *)
(* schedulers, the DAG processor and the CLI go on writing the metadata    *)
(* database.  The database runs transactions at READ COMMITTED, so each    *)
(* statement of the section is an action: the pools are read, then the     *)
(* concurrency maps, then the candidates are selected and their rows       *)
(* locked, then they are examined one by one, and the UPDATEs take effect  *)
(* with the COMMIT, which also drops every lock.                           *)
(*                                                                         *)
(* A scheduler that finds the advisory lock taken rolls back and returns 0 *)
(* (_do_scheduling): it changes nothing and is a stuttering step here.     *)
(***************************************************************************)
EXTENDS TaskSlots, TaskStates, FiniteSetsExt

CONSTANTS
  Scheduler,   \* scheduler invocations that may overlap
  NoScheduler, \* the value of lock when nobody holds it
  Rank,        \* position in the order (-priority_weight, execution_date)
  MaxTis,      \* min(max_tis_per_query, slots_available of the executor)
  PoolSizes,   \* sizes the CLI gives a pool: bounds the model only
  Unstable     \* dags a user pauses, or whose serialized row comes and goes

ASSUME SchedulerAssumption ==
  /\ NoScheduler \notin Scheduler
  /\ Rank \in [TI -> Nat]
  /\ MaxTis \in Nat \ {0}
  /\ PoolSizes \subseteq Nat
  /\ Unstable \subseteq Dag

VARIABLES
  state,       \* task_instance.state
  run,         \* dag_run.state
  paused,      \* dags with is_paused
  serialized,  \* dags with a row in serialized_dag
  exists,      \* pools with a row in slot_pool
  total,       \* slot_pool.slots, 0 for a pool without a row
  lock,        \* holder of the advisory lock and of the pool row locks
  cs           \* what each scheduler's critical section knows

vars == <<state, run, paused, serialized, exists, total, lock, cs>>

InExecution == {ti \in TI : state[ti] \in EXECUTION_STATES}
Scheduled == {ti \in TI : state[ti] = "scheduled"}

-----------------------------------------------------------------------------
(* The local state of a critical section.                                  *)
(*   open         slots left in each pool                                  *)
(*   active       dag_active_tasks_map                                     *)
(*   concurrency  task_concurrency_map                                     *)
(*   limit        max_tis after the cut to the free slots                  *)
(*   visible      what the last SELECT could see before its starvation     *)
(*                filters and its LIMIT                                    *)
(*   batch, full  task instances still to examine; the LIMIT was reached   *)
(*   rows         rows of task_instance the transaction has locked         *)
(*   chosen       executable_tis                                           *)
(*   failing      rows set to FAILED, not committed yet                    *)
(*   starved      starved_pools, starved_dags and starved_tasks            *)
(*   grew         found_new_filters                                        *)
Section ==
  [pc : {"idle", "pools", "select", "examine", "update"},
   open : [Pool -> Int], active : [Dag -> Nat], concurrency : [Task -> Nat],
   limit : Nat, visible : SUBSET TI, batch : SUBSET TI, full : BOOLEAN,
   rows : SUBSET TI, chosen : SUBSET TI, failing : SUBSET TI,
   starved : SUBSET (Pool \cup Dag \cup Task), grew : BOOLEAN]

Idle ==
  [pc |-> "idle",
   open |-> [p \in Pool |-> 0], active |-> [d \in Dag |-> 0],
   concurrency |-> [t \in Task |-> 0],
   limit |-> 0, visible |-> {}, batch |-> {}, full |-> FALSE,
   rows |-> {}, chosen |-> {}, failing |-> {}, starved |-> {}, grew |-> FALSE]

\* Row locks another transaction waits for, and a SKIP LOCKED query skips.
LockedBy(S) == UNION {cs[s].rows : s \in S}
FreeWithoutRowLocks(ti) == TRUE  \* mutant: the SELECT without FOR UPDATE
Free(ti) == ti \notin LockedBy(Scheduler)

Init ==
  /\ state = [ti \in TI |-> "none"]
  /\ run = [r \in Run |-> "running"]
  /\ paused = {}
  /\ serialized = Dag
  /\ exists = Pool
  /\ total \in [Pool -> PoolSizes]
  /\ lock = NoScheduler
  /\ cs = [s \in Scheduler |-> Idle]

-----------------------------------------------------------------------------
(* The critical section.                                                   *)

Becomes(s, section) == cs' = [cs EXCEPT ![s] = section]

UnchangedMetadata == UNCHANGED <<state, run, paused, serialized, exists, total>>

\* sum(max(0, pool['open'])), counted slot by slot: an overfull pool has none,
\* and does not make the sum negative.
FreeSlotsUnclamped(open) == MapThenSumSet(LAMBDA p : open[p], Pool)  \* mutant
FreeSlots(open) == Cardinality(UNION {{p} \X (1 .. open[p]) : p \in Pool})

\* pg_try_advisory_xact_lock, then Pool.slots_stats with the pool rows locked.
\* A pool without a row has no open slots: pools.get(name) fails later and
\* starves it exactly as a full pool.  If no pool has an open slot the section
\* returns an empty list at once.
OpenSlots == [p \in Pool |-> total[p] - UsedSlots(InExecution, p)]

PoolsRead(s) ==
  LET free == FreeSlots(OpenSlots) IN
  [cs[s] EXCEPT !.pc = IF free = 0 THEN "update" ELSE "pools",
                !.open = OpenSlots,
                !.limit = IF free < MaxTis THEN free ELSE MaxTis,
                !.starved = {p \in exists : OpenSlots[p] <= 0}]

ReadPools(s) ==
  /\ cs[s].pc = "idle"
  /\ lock = NoScheduler
  /\ lock' = s
  /\ Becomes(s, PoolsRead(s))
  /\ UnchangedMetadata

\* __get_concurrency_maps(EXECUTION_STATES)
MapsRead(s) ==
  [cs[s] EXCEPT !.pc = "select",
                !.active = [d \in Dag |-> ActiveInDag(InExecution, d)],
                !.concurrency = [t \in Task |-> ActiveInTask(InExecution, t)]]

ReadConcurrencyMaps(s) ==
  /\ cs[s].pc = "pools"
  /\ Becomes(s, MapsRead(s))
  /\ UNCHANGED lock
  /\ UnchangedMetadata

\* The rows of the query before its starvation filters: SCHEDULED, also in the
\* eyes of this transaction, in a RUNNING dag run of a dag that is not paused,
\* and not locked by anybody else.
Candidates(s) ==
  {ti \in Scheduled \ cs[s].failing :
                      /\ run[RunOf[ti]] = "running"
                      /\ DagName(ti) \notin paused
                      /\ ti \notin LockedBy(Scheduler \ {s})}

NotStarved(s, S) ==
  {ti \in S : {PoolName(ti), DagName(ti), TaskOf[ti]} \cap cs[s].starved = {}}

\* mutant: ORDER BY priority_weight instead of -priority_weight
IsTopAscending(B, S, n) ==
  /\ Cardinality(B) = IF Cardinality(S) < n THEN Cardinality(S) ELSE n
  /\ \A x \in B, y \in S \ B : Rank[x] >= Rank[y]

\* ORDER BY ... LIMIT n: no row left out comes before a row taken.
IsTop(B, S, n) ==
  /\ Cardinality(B) = IF Cardinality(S) < n THEN Cardinality(S) ELSE n
  /\ \A x \in B, y \in S \ B : Rank[x] <= Rank[y]

Selected(s, B) ==
  [cs[s] EXCEPT !.pc = IF B = {} THEN "update" ELSE "examine",
                !.visible = Candidates(s),
                !.batch = B,
                !.full = (Cardinality(B) = cs[s].limit),
                !.rows = @ \cup B,
                !.grew = FALSE]

SelectBatch(s) ==
  /\ cs[s].pc = "select"
  /\ \E B \in SUBSET NotStarved(s, Candidates(s)) :
       /\ IsTop(B, NotStarved(s, Candidates(s)), cs[s].limit)
       /\ Becomes(s, Selected(s, B))
  /\ UNCHANGED lock
  /\ UnchangedMetadata

\* The checks of the loop over task_instances_to_examine, in the code's order.
PoolShut(s, ti) == cs[s].open[PoolName(ti)] <= 0
\* mutant: only the size of the pool is looked at, not what is open in it
TooWideForPool(s, ti) == Slots[TaskOf[ti]] > total[PoolName(ti)]
\* Wider than the whole pool, or than what is open in it: the task starves.
TooWide(s, ti) == Slots[TaskOf[ti]] > cs[s].open[PoolName(ti)]
DagFull(s, ti) == cs[s].active[DagName(ti)] >= MaxActiveTasks[DagName(ti)]
DagMissing(ti) == HasTaskLimits(DagName(ti)) /\ DagName(ti) \notin serialized
TaskFull(s, ti) ==
  /\ TaskLimit[TaskOf[ti]] # NoLimit
  /\ cs[s].concurrency[TaskOf[ti]] >= TaskLimit[TaskOf[ti]]

HasRoom(s, ti) == ~PoolShut(s, ti) /\ ~TooWide(s, ti) /\ ~DagFull(s, ti)

\* The name a refused task instance adds to a starvation set.
Obstacle(s, ti) ==
  IF PoolShut(s, ti) THEN PoolName(ti)
  ELSE IF ~TooWide(s, ti) /\ DagFull(s, ti) THEN DagName(ti)
  ELSE TaskOf[ti]

Refused(s, ti) ==
  [cs[s] EXCEPT !.batch = @ \ {ti},
                !.starved = @ \cup {Obstacle(s, ti)},
                !.grew = @ \/ Obstacle(s, ti) \notin cs[s].starved]

Refuse(s, ti) ==
  /\ HasRoom(s, ti) => ~DagMissing(ti) /\ TaskFull(s, ti)
  /\ Becomes(s, Refused(s, ti))

\* The dag has task limits but no serialized row: all its SCHEDULED task
\* instances are set to FAILED, and no starvation set grows.
Failed(s, ti) ==
  LET lost == InDag(Scheduled, DagName(ti)) IN
  [cs[s] EXCEPT !.batch = @ \ {ti},
                !.rows = @ \cup lost,
                !.failing = @ \cup lost]

FailMissing(s, ti) ==
  /\ HasRoom(s, ti)
  /\ DagMissing(ti)
  /\ Becomes(s, Failed(s, ti))

Accepted(s, ti) ==
  [cs[s] EXCEPT !.batch = @ \ {ti},
                !.chosen = @ \cup {ti},
                !.open[PoolName(ti)] = @ - Slots[TaskOf[ti]],
                !.active[DagName(ti)] = @ + 1,
                !.concurrency[TaskOf[ti]] = @ + 1]

Accept(s, ti) ==
  /\ HasRoom(s, ti)
  /\ ~DagMissing(ti)
  /\ ~TaskFull(s, ti)
  /\ Becomes(s, Accepted(s, ti))

Examine(s) ==
  /\ cs[s].pc = "examine"
  /\ \E ti \in cs[s].batch :
       /\ \A u \in cs[s].batch : Rank[ti] <= Rank[u]
       /\ Refuse(s, ti) \/ FailMissing(s, ti) \/ Accept(s, ti)
  /\ UNCHANGED lock
  /\ UnchangedMetadata

\* is_done = executable_tis or len(task_instances_to_examine) < max_tis; the
\* query is repeated with the new filters only when nothing was chosen.
IsDoneWhenFull(s) == cs[s].chosen # {} \/ cs[s].full  \* mutant: test inverted
IsDone(s) == cs[s].chosen # {} \/ ~cs[s].full

EndPass(s) ==
  /\ cs[s].pc = "examine"
  /\ cs[s].batch = {}
  /\ Becomes(s, [cs[s] EXCEPT !.pc = IF IsDone(s) \/ ~cs[s].grew
                                    THEN "update" ELSE "select"])
  /\ UNCHANGED lock
  /\ UnchangedMetadata

\* The UPDATE to QUEUED and the COMMIT.  ti.dag_run is the row the SELECT
\* joined, RUNNING by its filter, so that no task instance is put back to NONE.
Commit(s) ==
  /\ cs[s].pc = "update"
  /\ state' = [ti \in TI |-> IF ti \in cs[s].chosen THEN "queued"
                             ELSE IF ti \in cs[s].failing THEN "failed"
                             ELSE state[ti]]
  /\ lock' = NoScheduler
  /\ Becomes(s, Idle)
  /\ UNCHANGED <<run, paused, serialized, exists, total>>

\* A database error, or the invocation's timeout: the transaction rolls back.
Rollback(s) ==
  /\ cs[s].pc # "idle"
  /\ lock' = NoScheduler
  /\ Becomes(s, Idle)
  /\ UnchangedMetadata

-----------------------------------------------------------------------------
(* The rest of the system, as far as it writes what the section reads.  A  *)
(* writer of a locked row waits for the COMMIT.                            *)

SetState(ti, from, to) ==
  /\ state[ti] \in from
  /\ Free(ti)
  /\ state' = [state EXCEPT ![ti] = to]
  /\ UNCHANGED <<run, paused, serialized, exists, total, lock, cs>>

\* dag_run.schedule_tis, in any scheduler's _schedule_dag_run.
ScheduleTi(ti) == /\ run[RunOf[ti]] = "running"
                  /\ SetState(ti, SCHEDULEABLE_STATES, "scheduled")

\* A worker starts the task it was handed when it was queued, or gives it back
\* because the limits no longer hold; and it reports how the task ended.
StartTi(ti) == SetState(ti, {"queued"}, "running")
RescheduleTi(ti) == SetState(ti, {"queued"}, "none")
EndTi(ti) == \E end \in {"success", "failed", "up_for_retry"} :
               SetState(ti, {"running"}, end)

\* A catcher marks the task of a failed execution, in whatever state it is.
ErrorTi(ti) == SetState(ti, TaskInstanceState \ {"none", "failed"}, "failed")

\* A dag run over its dagrun_timeout fails and skips what it finds unfinished.
TimeOutRun(r) ==
  LET left == {ti \in TI : RunOf[ti] = r /\ state[ti] \in UNFINISHED_IN_SQL} IN
  /\ run[r] = "running"
  /\ \A ti \in left : Free(ti)
  /\ run' = [run EXCEPT ![r] = "failed"]
  /\ state' = [ti \in TI |-> IF ti \in left THEN "skipped" ELSE state[ti]]
  /\ UNCHANGED <<paused, serialized, exists, total, lock, cs>>

\* airflow pools set, import and delete: a section locks the pool rows it read,
\* but not one that is inserted meanwhile.
CreatePool(p) ==
  /\ p \notin exists
  /\ \E n \in PoolSizes : total' = [total EXCEPT ![p] = n]
  /\ exists' = exists \cup {p}
  /\ UNCHANGED <<state, run, paused, serialized, lock, cs>>

ResizePool(p) ==
  /\ p \in exists
  /\ lock = NoScheduler
  /\ \E n \in PoolSizes : total' = [total EXCEPT ![p] = n]
  /\ UNCHANGED <<state, run, paused, serialized, exists, lock, cs>>

DeletePool(p) ==
  /\ p \in exists
  /\ lock = NoScheduler
  /\ total' = [total EXCEPT ![p] = 0]
  /\ exists' = exists \ {p}
  /\ UNCHANGED <<state, run, paused, serialized, lock, cs>>

\* airflow dags pause and unpause.
TogglePause(d) ==
  /\ paused' = IF d \in paused THEN paused \ {d} ELSE paused \cup {d}
  /\ UNCHANGED <<state, run, serialized, exists, total, lock, cs>>

\* The DAG processor writes serialized_dag; deleting a dag removes the row.
ToggleSerialized(d) ==
  /\ serialized' = IF d \in serialized THEN serialized \ {d} ELSE serialized \cup {d}
  /\ UNCHANGED <<state, run, paused, exists, total, lock, cs>>

-----------------------------------------------------------------------------
SectionStep(s) ==
  \/ ReadPools(s)
  \/ ReadConcurrencyMaps(s)
  \/ SelectBatch(s)
  \/ Examine(s)
  \/ EndPass(s)
  \/ Commit(s)
  \/ Rollback(s)

TaskStep(ti) ==
  \/ ScheduleTi(ti)
  \/ StartTi(ti)
  \/ RescheduleTi(ti)
  \/ EndTi(ti)
  \/ ErrorTi(ti)

Next ==
  \/ \E s \in Scheduler : SectionStep(s)
  \/ \E ti \in TI : TaskStep(ti)
  \/ \E r \in Run : TimeOutRun(r)
  \/ \E p \in Pool : CreatePool(p) \/ ResizePool(p) \/ DeletePool(p)
  \/ \E d \in Unstable : TogglePause(d) \/ ToggleSerialized(d)

Spec == Init /\ [][Next]_vars

-----------------------------------------------------------------------------
(* Properties.                                                             *)

\* Every variable has its type; a pool without a row has no slots.
TypeOK ==
  /\ state \in [TI -> TaskInstanceState]
  /\ run \in [Run -> DagRunState]
  /\ paused \subseteq Dag
  /\ serialized \subseteq Dag
  /\ exists \subseteq Pool
  /\ total \in [Pool -> Nat]
  /\ \A p \in Pool \ exists : total[p] = 0
  /\ lock \in Scheduler \cup {NoScheduler}
  /\ cs \in [Scheduler -> Section]

\* The section implements the atomic allocator: although the pools, the maps and
\* the candidates are read at different moments, and workers move on meanwhile,
\* no commit takes a pool, a dag or a task over its limit, not even when an
\* operator resized the pool or deleted it while its tasks were running.
Limits == INSTANCE SlotLimits WITH held <- InExecution
RespectsLimits == Limits!LimitsSpec

\* What a section could still take when its last pass is over.
Fits(s, ti) == HasRoom(s, ti) /\ ~TaskFull(s, ti)

\* A section that ends with nothing to show for it left nothing it could have
\* queued: the loop repeats its query until the starved names no longer hide a
\* task instance that fits.
NoMissedWork ==
  \A s \in Scheduler :
    cs[s].pc = "update" /\ cs[s].chosen = {} /\ cs[s].failing = {} =>
      \A ti \in cs[s].visible : ~Fits(s, ti)

\* No task instance is queued past one with a higher priority that would have
\* fitted: a starved task instance lets only those behind it pass.
PriorityRespected ==
  \A s \in Scheduler :
    cs[s].pc = "update" =>
      \A ti \in cs[s].visible \ (cs[s].chosen \cup cs[s].failing) :
        Fits(s, ti) => \A c \in cs[s].chosen : Rank[c] <= Rank[ti]

\* The UPDATE overwrites no decision made since the SELECT: what it queues is
\* still SCHEDULED, even if a catcher or a dag run timeout wanted the row.
QueuesOnlyScheduled ==
  [][\A ti \in TI : state'[ti] = "queued" /\ state[ti] # "queued" =>
                       state[ti] = "scheduled"]_vars
=============================================================================
