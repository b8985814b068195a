------------------------------ MODULE Permissions ------------------------------
(***************************************************************************)
(* What the migration scripts 0073, 0074, 0078 and 0084 do to the          *)
(* permissions of a role, pairs <<action, resource>>.  They go through the *)
(* security manager and sessions of their own; permissions that no role    *)
(* holds, which they create and delete on the way, are left out.  The role *)
(* is User or Viewer, which 0078 is about.                                 *)
(*                                                                         *)
(* Of the entries of the two mappings, one of each shape stands for the    *)
(* others of its shape: 73 and 31 that map to one permission, 30 and 1     *)
(* that map to two or three.                                               *)
(***************************************************************************)
EXTENDS Sequences, SequencesExt

Entry(old, new) == [old |-> old, new |-> new]

\* 0074: the views of no model, then those of a model.
MappingOfAirflow ==
  << Entry(<<"can_graph", "Airflow">>,
           << <<"can_read", "DAGs">>, <<"can_read", "Task Instances">>, <<"can_read", "Task Logs">> >>) >>
MappingOfModels ==
  << Entry(<<"can_varimport", "VariableModelView">>, << <<"can_create", "Variables">> >>),
     Entry(<<"varexport", "VariableModelView">>, << <<"can_read", "Variables">> >>) >>
Mapping == MappingOfAirflow \o MappingOfModels

\* 0084
MappingFab ==
  << Entry(<<"can_copyrole", "RoleModelView">>, << <<"can_create", "Roles">> >>),
     Entry(<<"can_clear", "DagRunModelView">>,
           << <<"can_read", "DAGs">>, <<"can_delete", "Task Instances">> >>) >>

\* mutant: the old permission is taken away and no new one given.
RemapLosing(held, entry) ==
  FoldLeft(LAMBDA h, p : IF entry.old \in h THEN h \ {entry.old} ELSE h, held, entry.new)

\* The old permission is taken from the role together with the first new one
\* it is given, so that the role no longer has it when the next one is due.
Remap(held, entry) ==
  FoldLeft(LAMBDA h, p : IF entry.old \in h THEN (h \cup {p}) \ {entry.old} ELSE h, held, entry.new)

RemapAll(held, mapping) == FoldLeft(Remap, held, mapping)

\* Going down, the new permission is looked up with its action for a resource and its
\* resource for an action, and passed over when there is none.  If there were, the
\* names of the old one would be unpacked from a string, which raises.
UndoRemapRaises(held, mapping) ==
  \E i \in DOMAIN mapping : LET new == mapping[i].new[1] IN <<new[2], new[1]>> \in held

-----------------------------------------------------------------------------
(* 0073: the resource of a dag, its id, comes to have a prefix, and actions *)
(* of dags are merged with the general ones.                                *)

DagActions == {"can_dag_read", "can_dag_edit"}
General(a) == CASE a = "can_dag_read" -> "can_read" [] a = "can_dag_edit" -> "can_edit" [] OTHER -> a
OfDags(a) == CASE a = "can_read" -> "can_dag_read" [] a = "can_edit" -> "can_dag_edit" [] OTHER -> a

DagPrefix == "DAG:"
IsPrefixed(resource) == Len(resource) >= 4 /\ SubSeq(resource, 1, 4) = DagPrefix

\* A resource is renamed for all its permissions.
PrefixDags(held) ==
  LET dags == {p[2] : p \in {q \in held : q[1] \in DagActions /\ q[2] # "all_dags" /\ ~IsPrefixed(q[2])}}
  IN {<<p[1], IF p[2] \in dags THEN DagPrefix \o p[2] ELSE p[2]>> : p \in held}

UnprefixDags(held) ==
  LET dags == {p[2] : p \in {q \in held : q[1] \in {"can_read", "can_edit"} /\ IsPrefixed(q[2])}}
  IN {<<p[1], IF p[2] \in dags THEN SubSeq(p[2], 5, Len(p[2])) ELSE p[2]>> : p \in held}

MigrateToNewDagPermissions(held) ==
  {<<General(p[1]), IF p[2] = "all_dags" THEN "DAGs" ELSE p[2]>> : p \in PrefixDags(held)}

\* The permissions to read and edit anything become permissions of dags.
UndoMigrateToNewDagPermissions(held) ==
  {<<OfDags(p[1]), IF p[2] = "DAGs" THEN "all_dags" ELSE p[2]>> : p \in UnprefixDags(held)}

-----------------------------------------------------------------------------
(* 0078: roles User and Viewer only *)

ReadConfig == <<"can_read", "Configurations">>

-----------------------------------------------------------------------------
\* What a revision makes of the permissions of a role; {}: there is no such role.
Granted(way, revision, held) ==
  CASE held = {} -> {}
    [] revision = "0073" -> IF way = "up" THEN MigrateToNewDagPermissions(held)
                            ELSE UndoMigrateToNewDagPermissions(held)
    [] revision = "0074" -> IF way = "up" THEN RemapAll(held, Mapping) ELSE held
    [] revision = "0078" -> IF way = "up" THEN held \ {ReadConfig} ELSE held \cup {ReadConfig}
    [] revision = "0084" -> IF way = "up" THEN RemapAll(held, MappingFab) ELSE held
    [] OTHER -> held

\* The downgrade raises.
UndoRefused(revision, held) ==
  \/ revision = "0074" /\ UndoRemapRaises(held, Mapping)
  \/ revision = "0084" /\ UndoRemapRaises(held, MappingFab)
=============================================================================
