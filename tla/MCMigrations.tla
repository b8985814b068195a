---------------------------- MODULE MCMigrations ----------------------------
(***************************************************************************)
(* Three revisions: execution dates everywhere, task_instance keyed by dag *)
(* run (2.2), the other tables keyed and mapped rows added (2.3).          *)
(* task_instance is rebuilt from a join, task_fail gets a constraint.      *)
(***************************************************************************)
EXTENDS Migrations, TLC

CONSTANTS taskInstance, taskFail, instance, mappedInstance, failure, r1, r2

MCModels == <<taskInstance, taskFail>>
MCTableOf == (instance :> taskInstance) @@ (mappedInstance :> taskInstance)
             @@ (failure :> taskFail)
MCRunIdAt == (taskInstance :> 2) @@ (taskFail :> 3)

Symmetry == Permutations(Runner)
=============================================================================
