----------------------------- MODULE RevisionsOld -----------------------------
(***************************************************************************)
(* The migration scripts of releases 1.5 to 1.10.13, as they act on         *)
(* Postgres: one definition per script, named for the number of its file.  *)
(* Branches for other databases are left out; a script all of whose        *)
(* statements are in such a branch does nothing.                           *)
(***************************************************************************)
EXTENDS SchemaOps

IfMissing(t, required, optional, keys, more) ==
  UnlessTable(t, <<CreateTable(t, required, optional, keys)>> \o more)

R0001Tables ==
     IfMissing("connection", {"id"},
              {"conn_id", "conn_type", "host", "schema", "login", "password", "port", "extra"},
              {Primary({"id"})}, <<>>)
  \o IfMissing("dag", {"dag_id"},
              {"is_paused", "is_subdag", "is_active", "last_scheduler_run", "last_pickled",
               "last_expired", "scheduler_lock", "pickle_id", "fileloc", "owners"},
              {Primary({"dag_id"})}, <<>>)
  \o IfMissing("dag_pickle", {"id"}, {"pickle", "created_dttm", "pickle_hash"},
              {Primary({"id"})}, <<>>)
  \o IfMissing("import_error", {"id"}, {"timestamp", "filename", "stacktrace"},
              {Primary({"id"})}, <<>>)
  \o IfMissing("job", {"id"},
              {"dag_id", "state", "job_type", "start_date", "end_date", "latest_heartbeat",
               "executor_class", "hostname", "unixname"},
              {Primary({"id"})},
              <<AddKey("job", Index("job_type_heart", {"job_type", "latest_heartbeat"}))>>)
  \o IfMissing("log", {"id"}, {"dttm", "dag_id", "task_id", "event", "execution_date", "owner"},
              {Primary({"id"})}, <<>>)
  \o IfMissing("sla_miss", {"task_id", "dag_id", "execution_date"},
              {"email_sent", "timestamp", "description"},
              {Primary({"task_id", "dag_id", "execution_date"})}, <<>>)
  \o IfMissing("slot_pool", {"id"}, {"pool", "slots", "description"},
              {Primary({"id"}), Unique("slot_pool_pool_key", {"pool"})}, <<>>)
  \o IfMissing("task_instance", {"task_id", "dag_id", "execution_date"},
              {"start_date", "end_date", "duration", "state", "try_number", "hostname",
               "unixname", "job_id", "pool", "queue", "priority_weight"},
              {Primary({"task_id", "dag_id", "execution_date"})},
              <<AddKey("task_instance", Index("ti_dag_state", {"dag_id", "state"})),
                AddKey("task_instance", Index("ti_pool", {"pool", "state", "priority_weight"})),
                AddKey("task_instance",
                       Index("ti_state_lkp", {"dag_id", "task_id", "execution_date", "state"}))>>)
  \o IfMissing("user", {"id"}, {"username", "email"},
              {Primary({"id"}), Unique("user_username_key", {"username"})}, <<>>)
  \o IfMissing("variable", {"id"}, {"key", "val"},
              {Primary({"id"}), Unique("variable_key_key", {"key"})}, <<>>)

R0001ChartAndXcom ==
     IfMissing("chart", {"id", "conn_id"},
              {"label", "user_id", "chart_type", "sql_layout", "sql", "y_log_scale",
               "show_datatable", "show_sql", "height", "default_params", "x_is_date",
               "iteration_no", "last_modified"},
              {Primary({"id"}), Foreign("chart_user_id_fkey", {"user_id"}, "user", {"id"})}, <<>>)
  \o IfMissing("xcom", {"id", "timestamp", "execution_date", "task_id", "dag_id"}, {"key", "value"},
              {Primary({"id"})}, <<>>)

R0001 ==
  Script({}, R0001Tables \o R0001ChartAndXcom,
    DropTables(<<"chart", "variable", "user">>)
    \o DropIndexes("task_instance", <<"ti_state_lkp", "ti_pool", "ti_dag_state">>)
    \o DropTables(<<"task_instance", "slot_pool", "sla_miss", "log">>)
    \o <<DropIndex("job", "job_type_heart")>>
    \o DropTables(<<"job", "import_error", "dag_pickle", "dag", "connection", "xcom">>))

R0002 ==
  Script({"0001"},
    UnlessColumn("connection", "is_encrypted",
      <<AddColumn("connection", "is_encrypted"), Fill("connection", "is_encrypted")>>),
    <<DropColumn("connection", "is_encrypted")>>)

R0003 == Script({"0002"}, <<>>, <<>>)

R0004 ==
  Script({"0003"}, AddColumns("task_instance", <<"operator", "queued_dttm">>),
                   DropColumns("task_instance", <<"queued_dttm", "operator">>))

R0005 ==
  Script({"0004"},
    <<AddKey("job", Index("idx_job_state_heartbeat", {"state", "latest_heartbeat"}))>>,
    <<DropIndex("job", "idx_job_state_heartbeat")>>)

R0006 == Script({"0005"}, <<AddColumn("log", "extra")>>, <<DropColumn("log", "extra")>>)

R0007 ==
  Script({"0006"},
    <<CreateTable("dag_run", {"id"},
                  {"dag_id", "execution_date", "state", "run_id", "external_trigger"},
                  {Primary({"id"}),
                   Unique("dag_run_dag_id_execution_date_key", {"dag_id", "execution_date"}),
                   Unique("dag_run_dag_id_run_id_key", {"dag_id", "run_id"})})>>,
    <<DropTable("dag_run")>>)

R0008 == Script({"0007"}, <<AlterType("task_instance", "duration")>>, <<>>)

R0009 == Script({"0008"}, <<AddColumn("dag_run", "conf")>>, <<DropColumn("dag_run", "conf")>>)

R0010 == Script({"0009"}, <<AddColumn("user", "password")>>, <<DropColumn("user", "password")>>)

R0011 ==
  Script({"0010"}, AddColumns("dag_run", <<"end_date", "start_date">>),
                   DropColumns("dag_run", <<"start_date", "end_date">>))

R0012 ==
  Script({"0011"}, <<AddColumn("sla_miss", "notification_sent")>>,
                   <<DropColumn("sla_miss", "notification_sent")>>)

R0013 ==
  Script({"0012"}, <<AddColumn("connection", "is_extra_encrypted")>>,
                   <<DropColumn("connection", "is_extra_encrypted")>>)

R0014 ==
  Script({"0013"}, <<AddColumn("variable", "is_encrypted")>>,
                   <<DropColumn("variable", "is_encrypted")>>)

R0015 == Script({"0014"}, <<RenameTable("user", "users")>>, <<RenameTable("users", "user")>>)

R0016 ==
  Script({"0015"}, <<AddKey("task_instance", Index("ti_state", {"state"}))>>,
                   <<DropIndex("task_instance", "ti_state")>>)

R0017 ==
  Script({"0016"},
    <<CreateTable("task_fail", {"id", "task_id", "dag_id", "execution_date"},
                  {"start_date", "end_date", "duration"}, {Primary({"id"})})>>,
    <<DropTable("task_fail")>>)

DagStats ==
  CreateTable("dag_stats", {"dag_id", "state", "count", "dirty"}, {}, {Primary({"dag_id", "state"})})

R0018 == Script({"0017"}, <<DagStats>>, <<DropTable("dag_stats")>>)

R0019 == Script({"0018"}, <<>>, <<>>)     \* mysql

R0020 ==
  Script({"0019"},
    <<AddKey("xcom", Index("idx_xcom_dag_task_date", {"dag_id", "task_id", "execution_date"}))>>,
    <<DropIndex("xcom", "idx_xcom_dag_task_date")>>)

R0021 == Script({"0020"}, <<AddColumn("task_instance", "pid")>>, <<DropColumn("task_instance", "pid")>>)

R0022 ==
  Script({"0021"}, <<AddKey("dag_run", Index("dag_id_state", {"dag_id", "state"}))>>,
                   <<DropIndex("dag_run", "dag_id_state")>>)

\* The rows' max_tries become their try_number, which may be NULL.
R0023 ==
  Script({"0022"}, <<AddColumn("task_instance", "max_tries")>>,
                   IfTable("task_instance", <<Fill("task_instance", "max_tries")>>)
                   \o <<DropColumn("task_instance", "max_tries")>>)

R0024 == Script({"0023"}, <<AlterType("xcom", "value")>>, <<AlterType("xcom", "value")>>)

R0025 ==
  Script({"0024"}, <<AddKey("task_instance", Index("ti_job_id", {"job_id"}))>>,
                   <<DropIndex("task_instance", "ti_job_id")>>)

R0026 == Script({"0025"}, <<>>, <<>>)     \* mysql

DateColumns ==
  AlterTypes("chart", <<"last_modified">>)
  \o AlterTypes("dag", <<"last_scheduler_run", "last_pickled", "last_expired">>)
  \o AlterTypes("dag_pickle", <<"created_dttm">>)
  \o AlterTypes("dag_run", <<"execution_date", "start_date", "end_date">>)
  \o AlterTypes("import_error", <<"timestamp">>)
  \o AlterTypes("job", <<"start_date", "end_date", "latest_heartbeat">>)
  \o AlterTypes("log", <<"dttm", "execution_date">>)
  \o AlterTypes("sla_miss", <<"execution_date", "timestamp">>)
  \o AlterTypes("task_fail", <<"execution_date", "start_date", "end_date">>)
  \o AlterTypes("task_instance", <<"execution_date", "start_date", "end_date", "queued_dttm">>)
  \o AlterTypes("xcom", <<"timestamp", "execution_date">>)

R0027 == Script({"0026"}, DateColumns, DateColumns)

\* One row is inserted with the table.
R0028 ==
  Script({"0026"},
    UnlessTable("kube_resource_version",
      <<CreateTable("kube_resource_version", {"one_row_id"}, {"resource_version"},
                    {Primary({"one_row_id"})}),
        InsertRow("kube_resource_version")>>),
    IfTable("kube_resource_version", <<DropTable("kube_resource_version")>>))

R0029 ==
  Script({"0028"}, <<AddColumn("task_instance", "executor_config")>>,
                   <<DropColumn("task_instance", "executor_config")>>)

R0030 ==
  Script({"0029"},
    <<CreateTable("kube_worker_uuid", {"one_row_id"}, {"worker_uuid"}, {Primary({"one_row_id"})}),
      InsertRow("kube_worker_uuid")>>,
    <<DropTable("kube_worker_uuid")>>)

R0031 == Script({"0027", "0030"}, <<>>, <<>>)
R0032 == Script({"0031"}, <<>>, <<>>)     \* mysql
R0033 == Script({"0032"}, <<>>, <<>>)     \* sqlite

R0034 ==
  Script({"0033"},
    <<AddKey("task_fail",
             Index("idx_task_fail_dag_task_date", {"dag_id", "task_id", "execution_date"}))>>,
    <<DropIndex("task_fail", "idx_task_fail_dag_task_date")>>)

R0035 ==
  Script({"0034"}, <<AddKey("log", Index("idx_log_dag", {"dag_id"}))>>,
                   <<DropIndex("log", "idx_log_dag")>>)

R0036 ==
  Script({"0035"}, <<AddKey("task_instance", Index("ti_dag_date", {"dag_id", "execution_date"}))>>,
                   <<DropIndex("task_instance", "ti_dag_date")>>)

TaskKey == {"task_id", "dag_id", "execution_date"}
RescheduleKey == "task_reschedule_dag_task_date_fkey"

R0037 ==
  Script({"0034"},
    <<CreateTable("task_reschedule",
        {"id", "task_id", "dag_id", "execution_date", "try_number", "start_date", "end_date",
         "duration", "reschedule_date"}, {},
        {Primary({"id"}), Foreign(RescheduleKey, TaskKey, "task_instance", TaskKey)}),
      AddKey("task_reschedule", Index("idx_task_reschedule_dag_task_date", TaskKey))>>,
    <<DropIndex("task_reschedule", "idx_task_reschedule_dag_task_date"),
      DropTable("task_reschedule")>>)

R0038 ==
  Script({"0037", "0036"}, <<AddKey("sla_miss", Index("sm_dag", {"dag_id"}))>>,
                           <<DropIndex("sla_miss", "sm_dag")>>)

R0039 == Script({"0038"}, <<AddColumn("users", "superuser")>>, <<DropColumn("users", "superuser")>>)

R0040 ==
  Script({"0039"}, AddColumns("dag", <<"description", "default_view">>),
                   DropColumns("dag", <<"description", "default_view">>))

R0041 ==
  Script({"0040"}, <<AddColumn("dag", "schedule_interval")>>,
                   <<DropColumn("dag", "schedule_interval")>>)

R0042 ==
  Script({"0041"},
    <<DropConstraint("task_reschedule", RescheduleKey),
      AddKey("task_reschedule", Cascade(RescheduleKey, TaskKey, "task_instance", TaskKey))>>,
    <<DropConstraint("task_reschedule", RescheduleKey),
      AddKey("task_reschedule", Foreign(RescheduleKey, TaskKey, "task_instance", TaskKey))>>)

\* The session of upgrade shares the migration's connection: upgradedb reduces
\* the pool to one.  The downgrade of db.py does not.
R0043Unfilled ==  \* mutant: the rows without a pool are not given one
  Script({"0042"},
    <<SetNotNull("task_instance", "pool")>>,
    <<DropNotNull("task_instance", "pool"), Elsewhere("task_instance")>>)

R0043 ==
  Script({"0042"},
    <<Fill("task_instance", "pool"), SetNotNull("task_instance", "pool")>>,
    <<DropNotNull("task_instance", "pool"), Elsewhere("task_instance")>>)

R0044 ==
  Script({"0043"},
    <<CreateTable("serialized_dag", {"dag_id", "fileloc", "fileloc_hash", "data", "last_updated"},
                  {}, {Primary({"dag_id"})}),
      AddKey("serialized_dag", Index("idx_fileloc_hash", {"fileloc_hash"})),
      AlterType("serialized_dag", "last_updated")>>,
    <<DropTable("serialized_dag")>>)

R0045 ==
  Script({"0044"},
    <<AddColumn("dag", "root_dag_id"), AddKey("dag", Index("idx_root_dag_id", {"root_dag_id"}))>>,
    <<DropIndex("dag", "idx_root_dag_id"), DropColumn("dag", "root_dag_id")>>)

R0046 == Script({"0043"}, <<>>, <<>>)     \* mssql

R0047 ==
  Script({"0042"}, <<AlterType("task_instance", "queue")>>, <<AlterType("task_instance", "queue")>>)

R0048 == Script({"0040"}, <<DropTable("dag_stats")>>, <<DagStats>>)

R0049 == Script({"0048", "0047", "0046", "0045"}, <<>>, <<>>)

R0050 ==
  Script({"0049"}, <<AlterType("connection", "password")>>, <<AlterType("connection", "password")>>)

R0051 ==
  Script({"0050"},
    <<CreateTable("dag_tag", {"name", "dag_id"}, {},
                  {Primary({"name", "dag_id"}),
                   Foreign("dag_tag_dag_id_fkey", {"dag_id"}, "dag", {"dag_id"})})>>,
    <<DropTable("dag_tag")>>)

R0052 ==
  Script({"0051"}, <<AddColumn("task_instance", "pool_slots")>>,
                   <<DropColumn("task_instance", "pool_slots")>>)

R0053 ==
  Script({"0052"},
    <<CreateTable("rendered_task_instance_fields", TaskKey \cup {"rendered_fields"}, {},
                  {Primary(TaskKey)})>>,
    <<DropTable("rendered_task_instance_fields")>>)

R0054 ==
  Script({"0053"},
    <<CreateTable("dag_code", {"fileloc_hash", "fileloc", "source_code", "last_updated"}, {},
                  {Primary({"fileloc_hash"})}),
      AlterType("serialized_dag", "fileloc_hash"), Fill("serialized_dag", "fileloc_hash")>>,
    <<DropTable("dag_code")>>)

R0055 == Script({"0054"}, <<>>, <<>>)     \* mysql

R0056 ==
  Script({"0055"}, <<AddRequiredDefaulted("serialized_dag", "dag_hash")>>,
                   <<DropColumn("serialized_dag", "dag_hash")>>)

R0057Up ==
     IfMissing("ab_permission", {"id", "name"}, {},
               {Primary({"id"}), Unique("ab_permission_name_key", {"name"})}, <<>>)
  \o IfMissing("ab_view_menu", {"id", "name"}, {},
               {Primary({"id"}), Unique("ab_view_menu_name_key", {"name"})}, <<>>)
  \o IfMissing("ab_role", {"id", "name"}, {},
               {Primary({"id"}), Unique("ab_role_name_key", {"name"})}, <<>>)
  \o IfMissing("ab_permission_view", {"id"}, {"permission_id", "view_menu_id"},
               {Primary({"id"}),
                Foreign("ab_permission_view_permission_id_fkey", {"permission_id"}, "ab_permission", {"id"}),
                Foreign("ab_permission_view_view_menu_id_fkey", {"view_menu_id"}, "ab_view_menu", {"id"}),
                Unique("ab_permission_view_permission_id_view_menu_id_key",
                       {"permission_id", "view_menu_id"})}, <<>>)
  \o IfMissing("ab_permission_view_role", {"id"}, {"permission_view_id", "role_id"},
               {Primary({"id"}),
                Foreign("ab_permission_view_role_permission_view_id_fkey", {"permission_view_id"},
                        "ab_permission_view", {"id"}),
                Foreign("ab_permission_view_role_role_id_fkey", {"role_id"}, "ab_role", {"id"}),
                Unique("ab_permission_view_role_permission_view_id_role_id_key",
                       {"permission_view_id", "role_id"})}, <<>>)
  \o IfMissing("ab_user", {"id", "first_name", "last_name", "username", "email"},
               {"password", "active", "last_login", "login_count", "fail_login_count",
                "created_on", "changed_on", "created_by_fk", "changed_by_fk"},
               {Primary({"id"}),
                Foreign("ab_user_changed_by_fk_fkey", {"changed_by_fk"}, "ab_user", {"id"}),
                Foreign("ab_user_created_by_fk_fkey", {"created_by_fk"}, "ab_user", {"id"}),
                Unique("ab_user_email_key", {"email"}),
                Unique("ab_user_username_key", {"username"})}, <<>>)
  \o IfMissing("ab_user_role", {"id"}, {"user_id", "role_id"},
               {Primary({"id"}),
                Foreign("ab_user_role_role_id_fkey", {"role_id"}, "ab_role", {"id"}),
                Foreign("ab_user_role_user_id_fkey", {"user_id"}, "ab_user", {"id"}),
                Unique("ab_user_role_user_id_role_id_key", {"user_id", "role_id"})}, <<>>)
  \o IfMissing("ab_register_user", {"id", "first_name", "last_name", "username", "email"},
               {"password", "registration_date", "registration_hash"},
               {Primary({"id"}), Unique("ab_register_user_username_key", {"username"})}, <<>>)

FabTables == <<"ab_permission", "ab_view_menu", "ab_role", "ab_permission_view",
               "ab_permission_view_role", "ab_user", "ab_user_role", "ab_register_user">>

R0057Down ==
  LET Drop[i \in 0 .. Len(FabTables)] ==
        IF i = 0 THEN <<>> ELSE Drop[i - 1] \o IfTable(FabTables[i], <<DropForeignKeys(FabTables[i])>>)
      Gone[i \in 0 .. Len(FabTables)] ==
        IF i = 0 THEN <<>> ELSE Gone[i - 1] \o IfTable(FabTables[i], <<DropTable(FabTables[i])>>)
  IN Drop[Len(FabTables)] \o Gone[Len(FabTables)]

R0057 == Script({"0056"}, R0057Up, R0057Down)

R0058 ==
  Script({"0057"}, IfTable("ab_view_menu", <<AlterType("ab_view_menu", "name")>>),
                   IfTable("ab_view_menu", <<AlterType("ab_view_menu", "name")>>))
=============================================================================
