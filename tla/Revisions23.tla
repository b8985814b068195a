----------------------------- MODULE Revisions23 -----------------------------
(***************************************************************************)
(* The migration scripts of releases 2.3 and 2.4 and beeflow's own, which  *)
(* stand between the two, as they act on Postgres (see RevisionsOld).      *)
(* beeflow's are named for their revision.                                 *)
(***************************************************************************)
EXTENDS Revisions2

MapKey == {"dag_id", "task_id", "run_id", "map_index"}

R0097 ==
  Script({"0096"},
    AlterTypes("ab_user", <<"username", "email">>)
      \o AlterTypes("ab_register_user", <<"username", "email">>),
    <<SetNotNull("ab_user", "username"), AlterType("ab_user", "email")>>
      \o AlterTypes("ab_register_user", <<"username", "email">>))

R0098 ==
  Script({"0097"}, <<AddColumn("dag", "timetable_description")>>,
                   <<DropColumn("dag", "timetable_description")>>)

R0099 ==
  Script({"0098"},
    <<CreateTable("log_template", {"id", "filename", "elasticsearch_id", "created_at"}, {},
                  {Primary({"id"})}),
      AddColumn("dag_run", "log_template_id"),
      AddKey("dag_run", Foreign("task_instance_log_template_id_fkey", {"log_template_id"},
                                "log_template", {"id"}))>>,
    <<DropConstraint("dag_run", "task_instance_log_template_id_fkey"),
      DropColumn("dag_run", "log_template_id"), DropTable("log_template")>>)

R0100Up ==
  <<DropConstraint("task_reschedule", "task_reschedule_ti_fkey"),
    DropIndex("task_reschedule", "idx_task_reschedule_dag_task_run"),
    DropConstraint("task_instance", "task_instance_pkey"),
    AddRequiredDefaulted("task_instance", "map_index"),
    AddKey("task_instance", Primary(MapKey)),
    AddRequiredDefaulted("task_reschedule", "map_index"),
    AddKey("task_reschedule", Cascade("task_reschedule_ti_fkey", MapKey, "task_instance", MapKey)),
    AddKey("task_reschedule", Index("idx_task_reschedule_dag_task_run", MapKey)),
    CreateTable("task_map", MapKey \cup {"length"}, {"keys"},
      {Primary(MapKey), Cascade("task_map_task_instance_fkey", MapKey, "task_instance", MapKey)})>>

R0100DownUnindexed ==  \* mutant: the index is not created again
  <<DropTable("task_map"),
    DropConstraint("task_reschedule", "task_reschedule_ti_fkey"),
    DropIndex("task_reschedule", "idx_task_reschedule_dag_task_run"),
    DropColumn("task_reschedule", "map_index"),
    DropConstraint("task_instance", "task_instance_pkey"),
    DropColumn("task_instance", "map_index"),
    AddKey("task_instance", Primary(TaskRunKey)),
    AddKey("task_reschedule",
           Cascade("task_reschedule_ti_fkey", TaskRunKey, "task_instance", TaskRunKey))>>

\* The rows of mapped task instances are deleted on the way.
R0100Down ==
  <<DropTable("task_map"),
    DropConstraint("task_reschedule", "task_reschedule_ti_fkey"),
    DropIndex("task_reschedule", "idx_task_reschedule_dag_task_run"),
    DropColumn("task_reschedule", "map_index"),
    DropConstraint("task_instance", "task_instance_pkey"),
    DropColumn("task_instance", "map_index"),
    AddKey("task_instance", Primary(TaskRunKey)),
    AddKey("task_reschedule",
           Cascade("task_reschedule_ti_fkey", TaskRunKey, "task_instance", TaskRunKey)),
    AddKey("task_reschedule", Index("idx_task_reschedule_dag_task_run", TaskRunKey))>>

R0100 == Script({"0099"}, R0100Up, R0100Down)

R0101 ==
  Script({"0100"},
    <<DropNotNull("serialized_dag", "data"), AddColumn("serialized_dag", "data_compressed")>>,
    <<SetNotNull("serialized_dag", "data"), DropColumn("serialized_dag", "data_compressed")>>)

\* xcom is rebuilt from its join with dag_run, under another name; the rows
\* that do not join have been moved away.
TmpXcom == "__airflow_tmp_xcom"
NewXcom == {"dag_run_id", "task_id", "key", "timestamp", "dag_id", "run_id", "map_index"}

R0102 ==
  Script({"0101"},
    <<CreateTable(TmpXcom, NewXcom, {"value"}, {}),
      InsertFrom(TmpXcom, "xcom", {"dag_run_id", "run_id", "map_index"}),
      DropTable("xcom"), RenameTable(TmpXcom, "xcom"),
      AddKey("xcom", NamedPrimary("xcom_pkey", {"dag_run_id", "task_id", "map_index", "key"})),
      AddKey("xcom", Index("idx_xcom_key", {"key"})),
      AddKey("xcom", Cascade("xcom_task_instance_fkey", MapKey, "task_instance", MapKey))>>,
    <<CreateTable(TmpXcom, TaskKey \cup {"key", "timestamp"}, {"value"},
                  {Primary(TaskKey \cup {"key"})}),
      InsertFrom(TmpXcom, "xcom", {"execution_date"}),
      DropTable("xcom"), RenameTable(TmpXcom, "xcom")>>)

R0103 ==
  Script({"0102"},
    <<CreateTable("callback_request",
        {"id", "created_at", "priority_weight", "callback_data", "callback_type"},
        {"dag_directory"}, {Primary({"id"})})>>,
    <<DropTable("callback_request")>>)

R0104 ==
  LET rtif == "rendered_task_instance_fields" IN
  Script({"0103"},
    <<AddRequiredDefaulted(rtif, "map_index"), AddColumn(rtif, "run_id"), Fill(rtif, "run_id"),
      DropConstraint(rtif, "rendered_task_instance_fields_pkey"), SetNotNull(rtif, "run_id"),
      DropColumn(rtif, "execution_date"), AddKey(rtif, Primary(MapKey)),
      AddKey(rtif, Cascade("rtif_ti_fkey", MapKey, "task_instance", MapKey))>>,
    <<AddColumn(rtif, "execution_date"), Fill(rtif, "execution_date"),
      SetNotNull(rtif, "execution_date"), DropConstraint(rtif, "rtif_ti_fkey"),
      DropConstraint(rtif, "rendered_task_instance_fields_pkey"), AddKey(rtif, Primary(TaskKey)),
      DropColumn(rtif, "map_index"), DropColumn(rtif, "run_id")>>)

R0105 ==
  Script({"0104"},
    <<DropIndex("task_fail", "idx_task_fail_dag_task_date"),
      AddRequiredDefaulted("task_fail", "map_index"), AddColumn("task_fail", "run_id"),
      Fill("task_fail", "run_id"), SetNotNull("task_fail", "run_id"),
      DropColumn("task_fail", "execution_date"),
      AddKey("task_fail", Cascade("task_fail_ti_fkey", MapKey, "task_instance", MapKey))>>,
    <<AddColumn("task_fail", "execution_date"), Fill("task_fail", "execution_date"),
      SetNotNull("task_fail", "execution_date"), DropConstraint("task_fail", "task_fail_ti_fkey"),
      DropColumn("task_fail", "map_index"), DropColumn("task_fail", "run_id"),
      AddKey("task_fail", Index("idx_task_fail_dag_task_date", TaskKey))>>)

R0106 == Script({"0105"}, <<>>, <<>>)     \* sqlite, mysql, mssql

R0107 == Script({"0106"}, <<AddColumn("log", "map_index")>>, <<DropColumn("log", "map_index")>>)

R0108 == Script({"0107"}, <<>>, <<>>)     \* values of dag.default_view

R0109 ==
  Script({"0108"}, <<AddKey("log", Index("idx_log_event", {"event"}))>>,
                   <<DropIndex("log", "idx_log_event")>>)

\* The key that downgrade creates is given its old name by Postgres.
R0110 ==
  Script({"0109"},
    <<DropConstraint("dag_tag", "dag_tag_dag_id_fkey"),
      AddKey("dag_tag", Cascade("dag_tag_dag_id_fkey", {"dag_id"}, "dag", {"dag_id"}))>>,
    <<DropConstraint("dag_tag", "dag_tag_dag_id_fkey"),
      AddKey("dag_tag", Foreign("dag_tag_dag_id_fkey", {"dag_id"}, "dag", {"dag_id"}))>>)

-----------------------------------------------------------------------------
(* beeflow's scripts: none undoes anything. *)

ReplaceTrigger(t, name) == <<DropTriggerIfExists(t, name), CreateTrigger(t, name)>>

R1e014567e912 == Script({"0110"}, <<Provide("aws_lambda")>>, <<>>)

Rb3df883b80f3 ==
  Script({"1e014567e912"},
    <<Provide("dag_created_trigger")>> \o ReplaceTrigger("dag", "new_dag_trigger"), <<>>)

Ra7836d0f25b8 ==
  Script({"b3df883b80f3"},
    <<Provide("passthrough_all_data")>> \o ReplaceTrigger("task_instance", "upsert_ti_trigger"), <<>>)

Rcd20f435f053 == Script({"a7836d0f25b8"}, ReplaceTrigger("dag", "update_dag"), <<>>)
R97d9c84a82ae == Script({"cd20f435f053"}, ReplaceTrigger("dag_run", "update_dag_run"), <<>>)
R36933d146b0e == Script({"97d9c84a82ae"}, <<Provide("passthrough_all_data")>>, <<>>)
R592d84cf498f ==
  Script({"36933d146b0e"}, ReplaceTrigger("task_instance", "upsert_ti_trigger"), <<>>)
R122c4b1b73d5 ==
  Script({"592d84cf498f"}, ReplaceTrigger("task_instance", "upsert_ti_trigger"), <<>>)
R287c35cfdecb == Script({"122c4b1b73d5"}, <<Provide("pglogical")>>, <<>>)

R0cad193f532f ==
  Script({"287c35cfdecb"},
    <<DropTriggerIfExists("task_instance", "upsert_ti_trigger"),
      DropTriggerIfExists("dag", "new_dag_trigger"), DropTriggerIfExists("dag", "update_dag"),
      DropTriggerIfExists("dag_run", "update_dag_run")>>, <<>>)

-----------------------------------------------------------------------------
(* Releases 2.3.3 and 2.4. *)

R0111 ==
  Script({"0cad193f532f"},
    <<AddKey("task_fail", Index("idx_task_fail_task_instance", MapKey)),
      AddKey("task_reschedule", Index("idx_task_reschedule_dag_run", {"dag_id", "run_id"})),
      AddKey("xcom", Index("idx_xcom_task_instance", MapKey))>>,
    <<DropIndex("task_fail", "idx_task_fail_task_instance"),
      DropIndex("task_reschedule", "idx_task_reschedule_dag_run"),
      DropIndex("xcom", "idx_xcom_task_instance")>>)

ToDag(name, col) == Cascade(name, {col}, "dag", {"dag_id"})

R0112 ==
  Script({"0111"},
    <<CreateTable("dag_warning", {"dag_id", "warning_type", "message", "timestamp"}, {},
        {Primary({"dag_id", "warning_type"}), ToDag("dcw_dag_id_fkey", "dag_id")})>>,
    <<DropTable("dag_warning")>>)

ComparedTypes ==
  <<AlterType("connection", "extra"), AlterType("log_template", "created_at"),
    AlterType("serialized_dag", "dag_hash"), AlterType("trigger", "created_date")>>

R0113 == Script({"0112"}, ComparedTypes, ComparedTypes)

ToDataset(name) == Cascade(name, {"dataset_id"}, "dataset", {"id"})

R0114 ==
  Script({"0113"},
    <<CreateTable("dataset", {"id", "uri", "extra", "created_at", "updated_at"}, {},
        {Primary({"id"})}),
      AddKey("dataset", UniqueIndex("idx_uri_unique", {"uri"})),
      CreateTable("dag_schedule_dataset_reference",
        {"dataset_id", "dag_id", "created_at", "updated_at"}, {},
        {Primary({"dataset_id", "dag_id"}), ToDataset("dsdr_dataset_fkey"),
         ToDag("dsdr_dag_id_fkey", "dag_id")}),
      CreateTable("task_outlet_dataset_reference",
        {"dataset_id", "dag_id", "task_id", "created_at", "updated_at"}, {},
        {Primary({"dataset_id", "dag_id", "task_id"}), ToDataset("todr_dataset_fkey"),
         ToDag("todr_dag_id_fkey", "dag_id")}),
      CreateTable("dataset_dag_run_queue", {"dataset_id", "target_dag_id", "created_at"}, {},
        {Primary({"dataset_id", "target_dag_id"}), ToDataset("ddrq_dataset_fkey"),
         ToDag("ddrq_dag_fkey", "target_dag_id")}),
      CreateTable("dataset_event", {"id", "dataset_id", "extra", "timestamp"},
        {"source_task_id", "source_dag_id", "source_run_id", "source_map_index"},
        {Primary({"id"})}),
      AddKey("dataset_event", Index("idx_dataset_id_timestamp", {"dataset_id", "timestamp"})),
      CreateTable("dagrun_dataset_event", {"dag_run_id", "event_id"}, {},
        {NamedPrimary("dagrun_dataset_events_pkey", {"dag_run_id", "event_id"}),
         Cascade("dagrun_dataset_events_dag_run_id_fkey", {"dag_run_id"}, "dag_run", {"id"}),
         Cascade("dagrun_dataset_events_event_id_fkey", {"event_id"}, "dataset_event", {"id"}),
         Index("idx_dagrun_dataset_events_dag_run_id", {"dag_run_id"}),
         Index("idx_dagrun_dataset_events_event_id", {"event_id"})})>>,
    DropTables(<<"dag_schedule_dataset_reference", "task_outlet_dataset_reference",
                 "dataset_dag_run_queue", "dagrun_dataset_event", "dataset_event", "dataset">>))

R0115 == Script({"0114"}, <<DropTable("sensor_instance")>>, SensorInstance)

R0116 ==
  Script({"0115"},
    <<CreateTable("dag_owner_attributes", {"dag_id", "owner", "link"}, {},
        {Primary({"dag_id", "owner"}), ToDag("dag_owner_attributes_dag_id_fkey", "dag_id")})>>,
    <<DropTable("dag_owner_attributes")>>)

R0117 ==
  Script({"0116"},
    <<AddColumn("dag", "processor_subdir"), AddColumn("serialized_dag", "processor_subdir"),
      DropColumn("callback_request", "dag_directory"),
      AddColumn("callback_request", "processor_subdir")>>,
    <<DropColumn("dag", "processor_subdir"), DropColumn("serialized_dag", "processor_subdir"),
      DropColumn("callback_request", "processor_subdir"),
      AddColumn("callback_request", "dag_directory")>>)

\* the default of column id
R0118 ==
  Script({"0117"}, [i \in 1 .. Len(FabTables) |-> AlterType(FabTables[i], "id")], <<>>)

R0119 ==
  Script({"0118"},
    <<AddKey("ab_user", LowerIndex("idx_ab_user_username", "username")),
      AddKey("ab_register_user", LowerIndex("idx_ab_register_user_username", "username"))>>,
    <<DropIndex("ab_user", "idx_ab_user_username"),
      DropIndex("ab_register_user", "idx_ab_register_user_username")>>)
=============================================================================
