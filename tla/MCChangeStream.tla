--------------------------- MODULE MCChangeStream ---------------------------
(***************************************************************************)
(* Two task instances, whose table shares a lane with the dag runs, and a  *)
(* dag.  One task instance goes through a retry, for which the converter   *)
(* has no event.                                                           *)
(***************************************************************************)
EXTENDS ChangeStream, TLC

CONSTANTS ti1, ti2, dr, dg, l1, l2

MCRow == {ti1, ti2, dr, dg}
MCTableOf == ti1 :> "task_instance" @@ ti2 :> "task_instance"
             @@ dr :> "dag_run" @@ dg :> "dag"
MCExecutorOf == ti1 :> "batch" @@ ti2 :> "lambda" @@ dr :> "other" @@ dg :> "other"
MCStatesOf == ti1 :> {"queued", "up_for_retry"} @@ ti2 :> {"queued"}
              @@ dr :> {"success"} @@ dg :> {"row"}
MCLaneOf == "task_instance" :> l1 @@ "dag_run" :> l1 @@ "dag" :> l2
=============================================================================
