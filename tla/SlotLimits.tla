----------------------------- MODULE SlotLimits -----------------------------
(***************************************************************************)
(* What the scheduler's critical section promises, as one atomic step:     *)
(* whenever task instances are granted execution, the grant leaves every   *)
(* pool, dag and task it touches within its limit, as the limit stands at  *)
(* that moment.  A pool may be made smaller than what it already holds;    *)
(* then nothing is granted from it until enough has been released.         *)
(***************************************************************************)
EXTENDS TaskSlots

VARIABLES
  held,   \* task instances in an execution state (queued or running)
  total   \* slots of each pool

limitVars == <<held, total>>

LimitsInit ==
  /\ held = {}
  /\ total \in [Pool -> Nat]

WithinPools(S) ==
  \A ti \in S : UsedSlots(held \cup S, PoolName(ti)) <= total[PoolName(ti)]

WithinDags(S) ==
  \A ti \in S : ActiveInDag(held \cup S, DagName(ti)) <= MaxActiveTasks[DagName(ti)]

WithinTasks(S) ==
  \A ti \in S : TaskLimit[TaskOf[ti]] # NoLimit =>
                  ActiveInTask(held \cup S, TaskOf[ti]) <= TaskLimit[TaskOf[ti]]

\* One or more task instances start to hold slots, all within the limits.
Grant ==
  /\ held' \subseteq TI
  /\ held \subseteq held'
  /\ held # held'
  /\ WithinPools(held' \ held)
  /\ WithinDags(held' \ held)
  /\ WithinTasks(held' \ held)
  /\ UNCHANGED total

Release ==
  /\ held' \subseteq held
  /\ UNCHANGED total

\* The command line gives the pools other sizes.
Resize ==
  /\ total' \in [Pool -> Nat]
  /\ UNCHANGED held

LimitsNext == Grant \/ Release \/ Resize

LimitsSpec == LimitsInit /\ [][LimitsNext]_limitVars
=============================================================================
