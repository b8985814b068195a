--------------------------- MODULE MCSchemaHistory ---------------------------
EXTENDS SchemaHistory

MCOddities ==
  {<<"connection", "conn_type", "null">>, <<"connection", "conn_id", "null">>, <<"connection", "conn_id", "same">>,
   <<"xcom", "key", "null">>,
   <<"dag_run", "run_id", "null">>, <<"ab_user", "username", "case">>}

MCOldRights ==
  {<<"can_graph", "Airflow">>, <<"can_varimport", "VariableModelView">>,
   <<"varexport", "VariableModelView">>, <<"can_copyrole", "RoleModelView">>,
   <<"can_clear", "DagRunModelView">>, <<"can_dag_read", "daily">>, <<"can_dag_edit", "all_dags">>}
=============================================================================
