------------------------------ MODULE Revisions2 ------------------------------
(***************************************************************************)
(* The migration scripts of releases 2.0 to 2.2.4, as they act on Postgres *)
(* (see RevisionsOld).                                                     *)
(***************************************************************************)
EXTENDS RevisionsOld


\* known_event, a table no script creates, is left out.
R0059 ==
  Script({"0058"},
    IfTable("chart", <<DropTable("chart")>>) \o IfTable("users", <<DropTable("users")>>),
    <<CreateTable("users", {"id"}, {"username", "email", "password", "superuser"},
                  {Primary({"id"}), Unique("users_username_key", {"username"})}),
      CreateTable("chart", {"id", "conn_id"},
                  {"label", "user_id", "chart_type", "sql_layout", "sql", "y_log_scale",
                   "show_datatable", "show_sql", "height", "default_params", "x_is_date",
                   "iteration_no", "last_modified"},
                  {Primary({"id"}), Foreign("chart_user_id_fkey", {"user_id"}, "users", {"id"})}),
      AlterType("chart", "last_modified")>>)

R0060 ==
  Script({"0059"},
    IfColumn("xcom", "id",
      <<DropColumn("xcom", "id"), DropIndex("xcom", "idx_xcom_dag_task_date"),
        AddKey("xcom", NamedPrimary("pk_xcom", TaskKey \cup {"key"}))>>),
    <<DropConstraint("xcom", "pk_xcom"), AddRequired("xcom", "id"),
      AddKey("xcom", NamedPrimary("id", {"id"})),
      AddKey("xcom", Index("idx_xcom_dag_task_date", TaskKey \cup {"key"}))>>)

R0061 ==
  Script({"0060"}, <<AlterType("slot_pool", "pool")>>, <<AlterType("slot_pool", "pool")>>)

R0062 ==
  Script({"0061"},
    UnlessColumn("dag_run", "run_type",
      <<AddColumn("dag_run", "run_type"), Fill("dag_run", "run_type"),
        SetNotNull("dag_run", "run_type")>>),
    <<DropColumn("dag_run", "run_type")>>)

\* Only the type of imap_default is filled in.
R0063 ==
  Script({"0062"}, <<SetNotNull("connection", "conn_type")>>,
                   <<DropNotNull("connection", "conn_type")>>)

R0064 ==
  Script({"0063"},
    <<SetNotNull("connection", "conn_id"),
      AddKey("connection", Unique("unique_conn_id", {"conn_id"}))>>,
    <<DropConstraint("connection", "unique_conn_id"), DropNotNull("connection", "conn_id")>>)

SensorInstance ==
  <<CreateTable("sensor_instance",
      {"id", "operator", "op_classpath", "hashcode", "shardcode", "poke_context", "created_at",
       "updated_at"} \cup TaskKey,
      {"state", "try_number", "start_date", "execution_context"}, {Primary({"id"})}),
    AddKey("sensor_instance", UniqueIndex("ti_primary_key", TaskKey)),
    AddKey("sensor_instance", Index("si_hashcode", {"hashcode"})),
    AddKey("sensor_instance", Index("si_shardcode", {"shardcode"})),
    AddKey("sensor_instance", Index("si_state_shard", {"state", "shardcode"})),
    AddKey("sensor_instance", Index("si_updated_at", {"updated_at"}))>>

R0065 ==
  Script({"0064"}, UnlessTable("sensor_instance", SensorInstance),
                   IfTable("sensor_instance", <<DropTable("sensor_instance")>>))

R0066 ==
  Script({"0065"}, <<AddColumn("task_instance", "queued_by_job_id")>>,
                   <<DropColumn("task_instance", "queued_by_job_id")>>)

R0067 ==
  Script({"0066"}, <<AddColumn("task_instance", "external_executor_id")>>,
                   <<DropColumn("task_instance", "external_executor_id")>>)

KubeTable(t, c) ==
  UnlessTable(t, <<CreateTable(t, {"one_row_id"}, {c}, {Primary({"one_row_id"})}), InsertRow(t)>>)

R0068 ==
  Script({"0067"},
    IfTable("kube_worker_uuid", <<DropTable("kube_worker_uuid")>>)
      \o IfTable("kube_resource_version", <<DropTable("kube_resource_version")>>),
    KubeTable("kube_worker_uuid", "worker_uuid")
      \o KubeTable("kube_resource_version", "resource_version"))

R0069 ==
  Script({"0068"},
    <<AddColumn("dag_run", "last_scheduling_decision"),
      AddKey("dag_run", Index("idx_last_scheduling_decision", {"last_scheduling_decision"})),
      AddColumn("dag_run", "dag_hash")>>
    \o AddColumns("dag", <<"next_dagrun", "next_dagrun_create_after", "concurrency",
                           "has_task_concurrency_limits">>)
    \o <<AddKey("dag", Index("idx_next_dagrun_create_after", {"next_dagrun_create_after"})),
         Fill("dag", "concurrency"), Fill("dag", "has_task_concurrency_limits"),
         SetNotNull("dag", "concurrency"), SetNotNull("dag", "has_task_concurrency_limits")>>,
    <<DropIndex("dag_run", "idx_last_scheduling_decision")>>
    \o DropColumns("dag_run", <<"last_scheduling_decision", "dag_hash">>)
    \o <<DropIndex("dag", "idx_next_dagrun_create_after")>>
    \o DropColumns("dag", <<"next_dagrun_create_after", "next_dagrun", "concurrency",
                            "has_task_concurrency_limits">>))

R0070 == Script({"0069"}, <<>>, <<>>)     \* mssql

R0071 ==
  Script({"0070"}, <<AddColumn("dag_run", "creating_job_id")>>,
                   <<DropColumn("dag_run", "creating_job_id")>>)

R0072 ==
  Script({"0071"}, <<AddColumn("rendered_task_instance_fields", "k8s_pod_yaml")>>,
                   <<DropColumn("rendered_task_instance_fields", "k8s_pod_yaml")>>)

\* 0073, 0074, 0078 and 0084 change rows of the ab_ tables through sessions of
\* their own (see Permissions).
R0073 == Script({"0072"}, <<>>, <<>>)
R0074 == Script({"0073"}, <<>>, <<>>)

R0075 ==
  Script({"0074"}, <<AddColumn("connection", "description")>>,
                   <<DropColumn("connection", "description")>>)

R0076 ==
  Script({"0075"}, <<AlterType("connection", "description")>>,
                   <<AlterType("connection", "description")>>)

R0077 == Script({"0076"}, <<>>, <<>>)     \* mysql
R0078 == Script({"0077"}, <<>>, <<>>)

R0079 ==
  Script({"0078"}, <<AlterType("connection", "extra")>>, <<AlterType("connection", "extra")>>)

R0080 ==
  Script({"0079"}, <<Fill("task_instance", "pool_slots"), SetNotNull("task_instance", "pool_slots")>>,
                   <<DropNotNull("task_instance", "pool_slots")>>)

R0081 ==
  Script({"0080"}, <<RenameColumn("dag", "last_scheduler_run", "last_parsed_time")>>,
                   <<RenameColumn("dag", "last_parsed_time", "last_scheduler_run")>>)

R0082 ==
  Script({"0081"}, <<SetNotNull("task_instance", "pool")>>, <<SetNotNull("task_instance", "pool")>>)

R0083 ==
  Script({"0082"}, <<AddColumn("variable", "description")>>, <<DropColumn("variable", "description")>>)

R0084 == Script({"0083"}, <<>>, <<>>)

R0085 ==
  Script({"0084"}, <<AddColumn("dag_run", "queued_at")>>, <<DropColumn("dag_run", "queued_at")>>)

R0086 ==
  Script({"0085"},
    <<AddColumn("dag", "max_active_runs"),
      AddKey("dag_run", Index("idx_dag_run_dag_id", {"dag_id"})),
      AddKey("dag_run", Index("idx_dag_run_running_dags", {"state", "dag_id"}))>>,
    <<DropColumn("dag", "max_active_runs")>>
    \o DropIndexes("dag_run", <<"idx_dag_run_dag_id", "idx_dag_run_running_dags">>))

R0087 ==
  Script({"0086"}, <<AddKey("dag_run", Index("idx_dag_run_queued_dags", {"state", "dag_id"}))>>,
                   <<DropIndex("dag_run", "idx_dag_run_queued_dags")>>)

R0088 == Script({"0087"}, <<>>, <<>>)     \* mssql

R0089 ==
  Script({"0088"}, <<SetNotNull("xcom", "key"), SetNotNull("xcom", "execution_date")>>, <<>>)

R0090 ==
  Script({"0089"},
    <<RenameColumn("dag", "concurrency", "max_active_tasks"), SetNotNull("dag", "max_active_tasks")>>,
    <<RenameColumn("dag", "max_active_tasks", "concurrency"), SetNotNull("dag", "concurrency")>>)

TriggerKey == Cascade("task_instance_trigger_id_fkey", {"trigger_id"}, "trigger", {"id"})
TriggerColumns == <<"trigger_id", "trigger_timeout", "next_method", "next_kwargs">>

R0091 ==
  Script({"0090"},
    <<CreateTable("trigger", {"id", "classpath", "kwargs", "created_date"}, {"triggerer_id"},
                  {Primary({"id"})})>>
    \o AddColumns("task_instance", TriggerColumns)
    \o AddKeys("task_instance", <<TriggerKey, Index("ti_trigger_id", {"trigger_id"})>>),
    <<DropConstraint("task_instance", "task_instance_trigger_id_fkey"),
      DropIndex("task_instance", "ti_trigger_id")>>
    \o DropColumns("task_instance", TriggerColumns) \o <<DropTable("trigger")>>)

R0092 ==
  Script({"0091"},
    AddColumns("dag_run", <<"data_interval_start", "data_interval_end">>)
    \o AddColumns("dag", <<"next_dagrun_data_interval_start", "next_dagrun_data_interval_end">>),
    DropColumns("dag_run", <<"data_interval_start", "data_interval_end">>)
    \o DropColumns("dag", <<"next_dagrun_data_interval_start", "next_dagrun_data_interval_end">>))

RunKey == {"dag_id", "run_id"}
TaskRunKey == {"dag_id", "task_id", "run_id"}

\* task_instance is rebuilt from its join with dag_run, and gets anew what
\* CREATE TABLE AS does not copy; the rows that do not join have been moved away.
R0093Rebuild ==
  <<SetNotNull("dag_run", "dag_id"), SetNotNull("dag_run", "execution_date"),
    SetNotNull("dag_run", "run_id"),
    AddColumn("task_instance", "run_id"), AddColumn("task_reschedule", "run_id"),
    Fill("task_reschedule", "run_id"), SetNotNull("task_reschedule", "run_id"),
    DropConstraint("task_reschedule", "task_reschedule_dag_task_date_fkey"),
    DropIndex("task_reschedule", "idx_task_reschedule_dag_task_date"),
    CreateTableAs("new_task_instance", "task_instance",
      {"task_id", "dag_id", "start_date", "end_date", "duration", "state", "try_number",
       "hostname", "unixname", "job_id", "pool", "queue", "priority_weight", "operator",
       "queued_dttm", "pid", "max_tries", "executor_config", "pool_slots", "queued_by_job_id",
       "external_executor_id", "trigger_id", "trigger_timeout", "next_method", "next_kwargs"},
      {"run_id"}),
    DropTable("task_instance"), RenameTable("new_task_instance", "task_instance"),
    SetNotNull("task_instance", "pool"), AlterType("task_instance", "max_tries"),
    SetNotNull("task_instance", "pool_slots")>>

R0093Keys ==
  <<SetNotNull("task_instance", "run_id"), SetNotNull("task_instance", "dag_id")>>
  \o AddKeys("task_instance",
       <<Primary(TaskRunKey),
         Cascade("task_instance_dag_run_fkey", RunKey, "dag_run", RunKey),
         Index("ti_dag_run", RunKey), Index("ti_state_lkp", TaskRunKey \cup {"state"}),
         Index("ti_dag_state", {"dag_id", "state"}), Index("ti_job_id", {"job_id"}),
         Index("ti_pool", {"pool", "state", "priority_weight"}), Index("ti_state", {"state"}),
         TriggerKey, Index("ti_trigger_id", {"trigger_id"})>>)
  \o <<DropColumn("task_reschedule", "execution_date")>>
  \o AddKeys("task_reschedule",
       <<Index("idx_task_reschedule_dag_task_run", TaskRunKey),
         Cascade("task_reschedule_ti_fkey", TaskRunKey, "task_instance", TaskRunKey),
         Cascade("task_reschedule_dr_fkey", RunKey, "dag_run", RunKey)>>)

R0093Down ==
  <<AddColumn("task_instance", "execution_date"), AddColumn("task_reschedule", "execution_date"),
    Fill("task_instance", "execution_date"), Fill("task_reschedule", "execution_date"),
    SetNotNull("task_reschedule", "execution_date"),
    DropConstraint("task_reschedule", "task_reschedule_ti_fkey"),
    DropConstraint("task_reschedule", "task_reschedule_dr_fkey"),
    DropIndex("task_reschedule", "idx_task_reschedule_dag_task_run"),
    DropConstraint("task_instance", "task_instance_pkey"),
    SetNotNull("task_instance", "execution_date"), DropNotNull("task_instance", "dag_id"),
    AddKey("task_instance", Primary(TaskKey)),
    DropConstraint("task_instance", "task_instance_dag_run_fkey"),
    DropIndex("task_instance", "ti_dag_run"), DropIndex("task_instance", "ti_state_lkp"),
    AddKey("task_instance", Index("ti_state_lkp", TaskKey \cup {"state"})),
    AddKey("task_instance", Index("ti_dag_date", {"dag_id", "execution_date"})),
    DropColumn("task_instance", "run_id"), DropColumn("task_reschedule", "run_id"),
    AddKey("task_reschedule", Index("idx_task_reschedule_dag_task_date", TaskKey)),
    AddKey("task_reschedule",
           Cascade("task_reschedule_dag_task_date_fkey", TaskKey, "task_instance", TaskKey)),
    DropIndex("dag_run", "dag_id_state"), DropNotNull("dag_run", "run_id"),
    DropNotNull("dag_run", "execution_date"), DropNotNull("dag_run", "dag_id"),
    AddKey("dag_run", Index("dag_id_state", {"dag_id", "state"}))>>

R0093 == Script({"0092"}, R0093Rebuild \o R0093Keys, R0093Down)

R0094 ==
  Script({"0093"}, <<AddDefaulted("dag", "has_import_errors")>>,
                   <<DropColumn("dag", "has_import_errors")>>)

R0095 ==
  Script({"0094"},
    <<CreateTable("session", {"id"}, {"session_id", "data", "expiry"},
                  {Primary({"id"}), Unique("session_session_id_key", {"session_id"})})>>,
    <<DropTable("session")>>)

R0096 ==
  Script({"0095"}, <<AddKey("job", Index("idx_job_dag_id", {"dag_id"}))>>,
                   <<DropIndex("job", "idx_job_dag_id")>>)
=============================================================================
