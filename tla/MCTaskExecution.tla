--------------------------- MODULE MCTaskExecution ---------------------------
(***************************************************************************)
(* Task instances with names of their own, on the queue of the lambda      *)
(* executor and on that of the batch executor.                             *)
(***************************************************************************)
EXTENDS TaskExecution

MCDigestOf == [ti \in TI |-> ti]
=============================================================================
