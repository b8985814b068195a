------------------------------ MODULE TaskSlots ------------------------------
(***************************************************************************)
(* The metadata the scheduler reads but never writes: which dag run and    *)
(* which task a task instance belongs to, what a task asks of its pool,    *)
(* and the three limits the critical section enforces.                     *)
(*                                                                         *)
(* A slot of a pool that a task instance occupies is the pair              *)
(* <<task instance, i>>, so that the slots a set of task instances         *)
(* occupies are a set, and their number a cardinality.                     *)
(***************************************************************************)
EXTENDS Integers, FiniteSets

CONSTANTS
  TI,              \* task instances
  Run,             \* dag runs
  Task,            \* (dag_id, task_id) pairs
  Dag,             \* dag ids
  Pool,            \* pool names, those of deleted or never created pools included
  RunOf,           \* the dag run of a task instance
  TaskOf,          \* the task of a task instance
  DagOf,           \* the dag of a task
  PoolOf,          \* the pool of a task
  Slots,           \* pool_slots of a task
  MaxActiveTasks,  \* max_active_tasks of a dag
  TaskLimit,       \* max_active_tis_per_dag of a task, or NoLimit
  NoLimit          \* the None of max_active_tis_per_dag

ASSUME FiniteAssumption == IsFiniteSet(TI) /\ IsFiniteSet(Pool)

ASSUME MetadataAssumption ==
  /\ RunOf \in [TI -> Run]
  /\ TaskOf \in [TI -> Task]
  /\ DagOf \in [Task -> Dag]
  /\ PoolOf \in [Task -> Pool]
  /\ Slots \in [Task -> Nat \ {0}]
  /\ MaxActiveTasks \in [Dag -> Nat]
  /\ TaskLimit \in [Task -> Nat \cup {NoLimit}]
  /\ NoLimit \notin Nat

\* One set holds starved pools, dags and tasks, so a name means one thing.
ASSUME NamesAssumption ==
  /\ Pool \cap Dag = {}
  /\ Pool \cap Task = {}
  /\ Dag \cap Task = {}

-----------------------------------------------------------------------------
PoolName(ti) == PoolOf[TaskOf[ti]]
DagName(ti) == DagOf[TaskOf[ti]]

InPool(S, p) == {ti \in S : PoolName(ti) = p}
InDag(S, d) == {ti \in S : DagName(ti) = d}
InTask(S, t) == {ti \in S : TaskOf[ti] = t}

\* The slots of pool p that the task instances of S occupy, and how many.
SlotsOf(ti) == {ti} \X (1 .. Slots[TaskOf[ti]])
Occupied(S, p) == UNION {SlotsOf(ti) : ti \in InPool(S, p)}
UsedSlots(S, p) == Cardinality(Occupied(S, p))

ActiveInDag(S, d) == Cardinality(InDag(S, d))
ActiveInTask(S, t) == Cardinality(InTask(S, t))

\* has_task_concurrency_limits: some task of the dag has a limit.
HasTaskLimits(d) == \E t \in Task : DagOf[t] = d /\ TaskLimit[t] # NoLimit
=============================================================================
