---------------------------- MODULE MCEventLoop ----------------------------
(***************************************************************************)
(* Three dags: one of a single task, whose runs are what matters; one of   *)
(* two tasks, the second after the first; and one that a dataset triggers. *)
(***************************************************************************)
EXTENDS EventLoop, TLC

CONSTANTS a, b

Runs == [upstream |-> a :> {}, max_active_runs |-> 2, retries |-> 0,
         schedule |-> "cron", intervals |-> 2, disturbances |-> 2]
Tasks == [upstream |-> a :> {} @@ b :> {a}, max_active_runs |-> 1, retries |-> 1,
          schedule |-> "cron", intervals |-> 1, disturbances |-> 1]
Dataset == [upstream |-> a :> {}, max_active_runs |-> 1, retries |-> 0,
            schedule |-> "dataset", intervals |-> 4, disturbances |-> 0]

MCDags == {Runs, Tasks, Dataset}
=============================================================================
