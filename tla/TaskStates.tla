----------------------------- MODULE TaskStates -----------------------------
(***************************************************************************)
(* The states of task instances and dag runs, and the sets of states the   *)
(* code filters by.  "none" stands for the SQL NULL of a task instance     *)
(* that was created and not yet looked at.                                 *)
(***************************************************************************)

\* Every value of the task_instance.state column.
TaskInstanceState ==
  {"none", "removed", "scheduled", "queued", "running", "success", "shutdown",
   "restarting", "failed", "up_for_retry", "up_for_reschedule",
   "upstream_failed", "skipped", "deferred", "sensing"}

DagRunState == {"queued", "running", "success", "failed"}

\* States that occupy a pool slot and count against the limits.
EXECUTION_STATES == {"queued", "running"}

\* States from which a task instance may become scheduled.
SCHEDULEABLE_STATES == {"none", "up_for_retry", "up_for_reschedule"}

\* States from which a worker may start the task.
RUNNABLE_STATES == SCHEDULEABLE_STATES \cup {"queued"}

FINISHED_STATES == {"success", "failed", "skipped", "upstream_failed", "removed"}
UNFINISHED_STATES == TaskInstanceState \ FINISHED_STATES

\* What state IN (the unfinished ones) finds: NULL is in no list.
UNFINISHED_IN_SQL == UNFINISHED_STATES \ {"none"}
=============================================================================
