------------------------------- MODULE Events -------------------------------
(***************************************************************************)
(* Which event a changed row of the metadata database becomes, and which   *)
(* queues the rules of the event bus send the event to.                    *)
(***************************************************************************)
EXTENDS TaskStates

Table == {"task_instance", "dag_run", "dag"}
Queue == {"scheduler", "lambda_executor", "batch_executor", "dag_schedule_updater"}

\* States of a task instance the converter has an event for; it raises ValueError
\* for the others: up_for_retry, up_for_reschedule, deferred, sensing, removed.
ConvertibleStates ==
  {"none", "queued", "failed", "upstream_failed", "success", "skipped",
   "running", "restarting", "shutdown", "scheduled"}

Converts(table, state) == table = "task_instance" => state \in ConvertibleStates

\* Events of these states have a rule with the scheduler's queue as its target.
WakingStatesTransientMissing ==  \* mutant: the rule for transient states has no target
  {"scheduled", "failed", "success", "skipped", "up_for_retry"}
WakingStates == {"none", "scheduled", "failed", "success", "skipped",
                 "up_for_retry", "upstream_failed"}

\* The executor a queued task instance is sent to, by its queue column; a queue no
\* rule names is sent to nobody.
Executors(queue) ==
  CASE queue \in {"default", "lambda"} -> {"lambda_executor"}
    [] queue = "batch" -> {"batch_executor"}
    [] OTHER -> {}

TaskRoute(state, queue) ==
  CASE state \in WakingStates -> {"scheduler"}
    [] state = "queued" -> Executors(queue)
    [] OTHER -> {}

DagRunRoute(state) == IF state \in {"success", "failed"} THEN {"scheduler"} ELSE {}
DagRoute == {"scheduler", "dag_schedule_updater"}

Route(table, state, queue) ==
  CASE table = "task_instance" -> TaskRoute(state, queue)
    [] table = "dag_run" -> DagRunRoute(state)
    [] table = "dag" -> DagRoute
=============================================================================
