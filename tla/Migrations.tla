------------------------------ MODULE Migrations ------------------------------
(***************************************************************************)
(* The lambda that brings the metadata database to the latest schema, and  *)
(* downgrades it first when its event names a revision.  It is invoked by  *)
(* hand and by the deployment script, whose client calls again when an     *)
(* answer is late, so that invocations overlap; one may be killed at its   *)
(* 600 s limit.  So may a reset, which drops everything, table by table,   *)
(* and starts again (airflow db reset runs Airflow's own copy of resetdb). *)
(*                                                                         *)
(* The old schema keys rows by execution date, the new one by dag run.     *)
(* Before upgrading, rows without a dag run ("orphans" here, "dangling" in *)
(* the code) are copied to a table of their own and deleted, since the     *)
(* migrations rebuild task_instance and xcom from a join with dag_run and  *)
(* drop what does not join.  Those checks, and the read of the current     *)
(* revision, happen outside the lock that serialises the migrations.       *)
(*                                                                         *)
(* Each migration is a transaction (transaction_per_migration).  Revisions *)
(* are numbered; 0 is a database without one.  Of the other migration      *)
(* checks, check_run_id_null moves dag runs away, which for the rows that  *)
(* refer to them is RunRemoved; the rest report errors, which end a call   *)
(* at a place where Killed can end it too.  Left out is what becomes of    *)
(* the serialized dags: every upgrade deletes them all, and the lambda has *)
(* no dag files to write them again.                                       *)
(***************************************************************************)
EXTENDS Naturals, Sequences, FiniteSets

CONSTANTS
  Runner,       \* invocations that may overlap
  Row,          \* rows of the tables that migrations key by dag run
  Models,       \* those tables, in the order check_bad_references takes them:
                \* task_instance, then tables that refer to it
  Rebuilt,      \* those whose migration is a join with dag_run
  Latest,       \* head revision
  TableOf,      \* the table a row is in
  RunIdAt,      \* the revision that keys a table by dag run
  MapIndexAt,   \* the revision that adds mapped rows
  Mapped,       \* rows of mapped tasks
  Connections,  \* number of default connections
  MaxCalls,     \* bound: calls of the lambda
  MaxKilled,    \* bound: calls killed half-way
  MaxRemoved    \* bound: dag runs deleted under the old schema

Tables == {Models[i] : i \in 1 .. Len(Models)}

\* Of the tables that are not keyed by dag run, those the lambda uses.
Others == {"serialized_dag", "slot_pool", "log_template", "connection"}

Free == "free"
Ghost == "ghost"     \* held by a connection the server has not dropped yet
None == 0

ASSUME MigrationsAssumption ==
  /\ {Free, Ghost} \cap Runner = {} /\ Models \in Seq(Tables) /\ Models # <<>>
  /\ Latest \in Nat \ {0} /\ MapIndexAt \in 2 .. Latest
  /\ Rebuilt \subseteq Tables /\ Mapped \subseteq Row
  /\ TableOf \in [Row -> Tables]
  /\ RunIdAt \in [Tables -> 2 .. MapIndexAt]
  /\ Connections \in Nat
  /\ MaxCalls \in Nat /\ MaxKilled \in Nat /\ MaxRemoved \in Nat

VARIABLES
  revision,   \* the revision the database is stamped with
  shape,      \* the columns each of Tables has, "none" if it is not there
  others,     \* those of Others that are there
  source,     \* rows in the table they belong to
  parked,     \* tables that have a table of moved rows (_airflow_moved...)
  moved,      \* the rows in those
  orphan,     \* rows without a dag run
  lock,       \* holder of the advisory lock MIGRATIONS
  runner,     \* what each invocation is doing
  overtaken,  \* invocations during which another one downgraded
  excused,    \* rows a downgrade or reset drops, or orphaned after a check passed them
  pool,       \* the default pool exists
  template,   \* the last row of log_template is the configured one
  connected,  \* the default connections that exist
  torn,       \* a reset was killed among its DROPs, and none got through since
  calls, killed, removed

vars == <<revision, shape, others, source, parked, moved, orphan, lock, runner,
          overtaken, excused, pool, template, connected, torn, calls, killed, removed>>
settled == <<pool, template, connected>>
tables == <<shape, others>>
database == <<revision, tables, source, parked, moved, orphan, excused, settled>>
bounds == <<calls, killed, removed>>

\* down: revision to downgrade to;  done: how many of Models the check is past;  old,
\* existing: tables without run_id, and with a moved table, when it began;  from:
\* the revision the running migrations have reached;  fresh: initdb saw no revision;
\* load: initdb's load_connections;  merged: how many of them it has seen to.
Idle == [pc |-> "idle", down |-> None, done |-> 0, old |-> {}, existing |-> {},
         errored |-> FALSE, from |-> None, fresh |-> FALSE, load |-> FALSE, merged |-> 0]

In(t) == {x \in source : TableOf[x] = t}
Dangling(t) == In(t) \cap orphan

\* Keyed by execution date, by dag run, and by map index too.
ShapeAt(t, s) == IF s = None THEN "none" ELSE IF s < RunIdAt[t] THEN "dated"
                 ELSE IF s < MapIndexAt THEN "keyed" ELSE "mapped"
Shapes == {"none", "dated", "keyed", "mapped"}
OthersAt(s) == IF s = None THEN {} ELSE IF s < MapIndexAt THEN Others \ {"log_template"}
               ELSE Others

Init ==
  /\ revision \in 0 .. Latest
  /\ shape = [t \in Tables |-> ShapeAt(t, revision)] /\ others = OthersAt(revision)
  /\ source = {x \in Row : revision # None /\ (x \in Mapped => revision >= MapIndexAt)}
  /\ orphan \in SUBSET {x \in source : shape[TableOf[x]] = "dated"}
  /\ parked = {} /\ moved = {}
  /\ pool = (revision # None) /\ template = (revision >= MapIndexAt)
  /\ connected = {}
  /\ lock = Free /\ runner = [r \in Runner |-> Idle]
  /\ overtaken = {} /\ excused = {} /\ torn = FALSE
  /\ calls = 0 /\ killed = 0 /\ removed = 0

At(r, pc) == runner[r].pc = pc
Goto(r, pc) == runner' = [runner EXCEPT ![r].pc = pc]

\* The locals of the function that returned are gone; initdb is still to return.
Begin(r, pc) == runner' = [runner EXCEPT ![r] =
  [Idle EXCEPT !.pc = pc, !.load = runner[r].load, !.merged = runner[r].merged]]

\* mutant: no finally around the lock.
FailsHolding(r) ==
  /\ runner' = [runner EXCEPT ![r] = Idle]
  /\ UNCHANGED <<database, lock, overtaken, torn, bounds>>

\* An exception or exit(1): the lock is released on the way out.
Fails(r) ==
  /\ runner' = [runner EXCEPT ![r] = Idle]
  /\ lock' = IF lock = r THEN Free ELSE lock
  /\ UNCHANGED <<database, overtaken, torn, bounds>>

\* to: the downgrade_to of the event, if any (a downgrade to base is left out).
Call(r, to) ==
  /\ At(r, "idle") /\ calls < MaxCalls
  /\ calls' = calls + 1
  /\ runner' = [runner EXCEPT ![r].pc = IF to = None THEN "reflect" ELSE "downgradeLock",
                              ![r].down = to]
  /\ overtaken' = overtaken \ {r}
  /\ UNCHANGED <<database, lock, torn, killed, removed>>

CallReset(r) ==
  /\ At(r, "idle") /\ calls < MaxCalls
  /\ calls' = calls + 1
  /\ Goto(r, "resetLock")
  /\ overtaken' = overtaken \ {r}
  /\ UNCHANGED <<database, lock, torn, killed, removed>>

-----------------------------------------------------------------------------
(* create_global_lock *)

Waiting == [downgradeLock |-> "downgrade", initLock |-> "create", upgradeLock |-> "upgrade",
            resetLock |-> "drop"]

\* mutant: a dialect without a lock, as the TODO for mssql leaves it.
LockNothing(r) ==
  /\ runner[r].pc \in DOMAIN Waiting
  /\ lock' = r
  /\ runner' = [runner EXCEPT ![r].pc = Waiting[@], ![r].from = revision]
  /\ UNCHANGED <<database, overtaken, torn, bounds>>

\* Alembic plans from the stamped revision, which it reads under the lock.
Lock(r) ==
  /\ runner[r].pc \in DOMAIN Waiting /\ lock = Free
  /\ lock' = r
  /\ runner' = [runner EXCEPT ![r].pc = Waiting[@], ![r].from = revision]
  /\ UNCHANGED <<database, overtaken, torn, bounds>>

\* mutant: a call that cannot get the lock leaves the work to the holder.
LeaveToHolder(r) ==
  /\ runner[r].pc \in DOMAIN Waiting /\ lock # Free
  /\ Goto(r, "completed")
  /\ UNCHANGED <<database, lock, overtaken, torn, bounds>>

\* LOCK_TIMEOUT, 1800 ms: the call fails.
LockTimeout(r) ==
  /\ runner[r].pc \in DOMAIN Waiting /\ lock # Free
  /\ Fails(r)

\* The locked block has done its work.
Finished(r) ==
  \/ At(r, "downgrade") /\ runner[r].from = runner[r].down
  \/ At(r, "upgrade") /\ runner[r].from = Latest
  \/ At(r, "stamped") \/ At(r, "dropped")

\* The lambda upgrades what it has downgraded; a reset initialises, default
\* connections included, or skips that.
AfterLock == [downgrade |-> {"reflect"}, upgrade |-> {"pool"},
              stamped |-> {"connections"}, dropped |-> {"init", "idle"}]

Unlock(r) ==
  /\ Finished(r)
  /\ lock' = Free
  /\ \E pc \in AfterLock[runner[r].pc] :
       runner' = [runner EXCEPT ![r] =
         [Idle EXCEPT !.pc = pc, !.load = @ \/ runner[r].load \/ pc = "init",
                      !.merged = runner[r].merged]]
  /\ UNCHANGED <<database, overtaken, torn, bounds>>

-----------------------------------------------------------------------------
(* Alembic, one migration at a time *)

Overtake(r) == overtaken' = overtaken \cup {q \in Runner \ {r} : ~At(q, "idle")}

Altered(from, to) == {t \in Tables : ShapeAt(t, from) # ShapeAt(t, to)}

\* What the migration alters, creates or drops is as its revision left it.
Applies(from, to) ==
  /\ \A t \in Altered(from, to) : shape[t] = ShapeAt(t, from)
  /\ OthersAt(from) \ OthersAt(to) \subseteq others
  /\ others \cap OthersAt(to) \subseteq OthersAt(from)

Migrate(r, to) ==
  LET from == runner[r].from IN
  /\ Applies(from, to)
  /\ shape' = [t \in Tables |-> IF t \in Altered(from, to) THEN ShapeAt(t, to) ELSE shape[t]]
  /\ others' = (others \ OthersAt(from)) \cup (others \cap OthersAt(to))
                  \cup (OthersAt(to) \ OthersAt(from))
  /\ revision' = to
  /\ runner' = [runner EXCEPT ![r].from = to]

\* A table is not there that the revision has: its scripts may alter it otherwise.
Missing(s) == s # None /\ (~(OthersAt(s) \subseteq others) \/ \E t \in Tables : shape[t] = "none")

Downgrade(r) ==
  LET from == runner[r].from
      dropped == IF from = MapIndexAt THEN source \cap Mapped ELSE {} IN
  /\ At(r, "downgrade") /\ from > runner[r].down
  /\ Migrate(r, from - 1)
  /\ source' = source \ dropped /\ excused' = excused \cup dropped
  /\ template' = (template /\ from # MapIndexAt)
  /\ Overtake(r)
  /\ UNCHANGED <<parked, moved, orphan, pool, connected, torn, lock, bounds>>

\* No path down to the revision, or tables of another shape than the stamp.
DowngradeFails(r) ==
  LET from == runner[r].from IN
  /\ At(r, "downgrade")
  /\ \/ from < runner[r].down
     \/ from > runner[r].down /\ (~Applies(from, from - 1) \/ Missing(from))
  /\ Fails(r)

-----------------------------------------------------------------------------
(* resetdb: statements that commit one by one                              *)

NoTables == \A t \in Tables : shape[t] = "none"

\* drop_all drops a table after those that refer to it: all of Models but the first
\* refer to that one.
DropModel(r, t) ==
  /\ At(r, "drop") /\ shape[t] # "none"
  /\ t = Models[1] => \A u \in Tables \ {t} : shape[u] = "none"
  /\ shape' = [shape EXCEPT ![t] = "none"]
  /\ source' = source \ In(t) /\ orphan' = orphan \ In(t) /\ excused' = excused \cup In(t)
  /\ Overtake(r)
  /\ UNCHANGED <<revision, others, parked, moved, settled, lock, runner, torn, bounds>>

\* log_template comes after dag_run, which refers to it, and that after
\* task_instance; the rest refer to nothing.  Their order is that of the imports.
DropOther(r, o) ==
  /\ At(r, "drop") /\ o \in others /\ NoTables
  /\ others' = others \ {o}
  /\ pool' = (pool /\ o # "slot_pool") /\ template' = (template /\ o # "log_template")
  /\ connected' = IF o = "connection" THEN {} ELSE connected
  /\ Overtake(r)
  /\ UNCHANGED <<revision, shape, source, parked, moved, orphan, excused, lock, runner,
                 torn, bounds>>

DropStamp(r) ==
  /\ At(r, "drop") /\ NoTables /\ others = {}
  /\ revision' = None /\ torn' = FALSE
  /\ Goto(r, "dropMoved")
  /\ Overtake(r)
  /\ UNCHANGED <<tables, source, parked, moved, orphan, excused, settled, lock, bounds>>

DropMovedTables(r) ==
  /\ At(r, "dropMoved")
  /\ parked' = {} /\ moved' = {}
  /\ Goto(r, "dropped")
  /\ UNCHANGED <<revision, tables, source, orphan, excused, settled, lock, overtaken, torn,
                 bounds>>

-----------------------------------------------------------------------------
(* check_bad_references: which tables have no run_id, and which moved       *)
(* tables exist, is read once, before the first table; without              *)
(* task_instance there is nothing to check                                  *)

Reflect(r) ==
  /\ At(r, "reflect")
  /\ runner' = [runner EXCEPT ![r].pc = "check",
                              ![r].old = IF shape[Models[1]] = "none" THEN {}
                                         ELSE {t \in Tables : shape[t] = "dated"},
                              ![r].done = 0,
                              ![r].existing = parked,
                              ![r].errored = FALSE]
  /\ UNCHANGED <<database, lock, overtaken, torn, bounds>>

\* The tables still to check: those that have a run_id are skipped.
Left(r) == {i \in 1 .. Len(Models) : i > runner[r].done /\ Models[i] \in runner[r].old}
Checking(r, i) == At(r, "check") /\ i \in Left(r) /\ \A j \in Left(r) : i <= j

\* The query joins with task_instance, the first of Models; the columns it
\* names have been replaced since, or the tables are gone.
QueryFails(r, t) == \E u \in {t, Models[1]} :
  shape[u] = "none" \/ (shape[u] = "dated") # (u \in runner[r].old)

\* mutant: a moved table is taken for a proof that the rows are gone.
AlreadyMovedTrusted(r, i) ==
  LET t == Models[i] IN
  /\ Checking(r, i) /\ t \in runner[r].existing /\ ~QueryFails(r, t)
  /\ runner' = [runner EXCEPT ![r].done = i]
  /\ UNCHANGED <<database, lock, overtaken, torn, bounds>>

AlreadyMoved(r, i) ==
  LET t == Models[i] IN
  /\ Checking(r, i) /\ t \in runner[r].existing /\ ~QueryFails(r, t)
  /\ runner' = [runner EXCEPT ![r].done = i,
                              ![r].errored = @ \/ Dangling(t) # {}]
  /\ UNCHANGED <<database, lock, overtaken, torn, bounds>>

\* CREATE TABLE ... AS, committed before the rows are deleted.
CopyDangling(r, i) ==
  LET t == Models[i] IN
  /\ Checking(r, i) /\ t \notin runner[r].existing /\ ~QueryFails(r, t)
  /\ t \notin parked
  /\ parked' = parked \cup {t} /\ moved' = moved \cup Dangling(t)
  /\ runner' = [runner EXCEPT ![r].pc = "purge", ![r].done = i]
  /\ UNCHANGED <<revision, tables, source, orphan, excused, settled, lock, overtaken, torn, bounds>>

\* The columns are gone, or the moved table has been created, since Reflect.
CheckFails(r, i) ==
  LET t == Models[i] IN
  /\ Checking(r, i)
  /\ \/ QueryFails(r, t)
     \/ t \in parked \ runner[r].existing
  /\ Fails(r)

Reshaped(t) == shape[t] # "dated"
Copy(t) == {x \in moved : TableOf[x] = t}

\* The DELETE joins with the copy; an empty copy is dropped.
Purge(r) ==
  LET t == Models[runner[r].done] IN
  /\ At(r, "purge") /\ t \in parked /\ (Copy(t) = {} \/ ~Reshaped(t))
  /\ source' = source \ Copy(t)
  /\ parked' = IF Copy(t) = {} THEN parked \ {t} ELSE parked
  /\ Goto(r, "check")
  /\ UNCHANGED <<revision, tables, moved, orphan, excused, settled, lock, overtaken, torn, bounds>>

PurgeFails(r) ==
  LET t == Models[runner[r].done] IN
  /\ At(r, "purge") /\ (t \notin parked \/ (Copy(t) # {} /\ Reshaped(t)))
  /\ Fails(r)

ChecksEnd(r) ==
  /\ At(r, "check") /\ Left(r) = {}
  /\ IF runner[r].errored
       THEN Fails(r)
       ELSE Begin(r, "revision") /\ UNCHANGED <<database, lock, overtaken, torn, bounds>>

-----------------------------------------------------------------------------
(* upgradedb and initdb *)

\* mutant: a database that is not at the head is taken for a new one.
ReadRevisionNotHead(r) ==
  /\ At(r, "revision")
  /\ Goto(r, IF revision # Latest THEN "initLock" ELSE "upgradeLock")
  /\ UNCHANGED <<database, lock, overtaken, torn, bounds>>

\* Read outside the lock.
ReadRevision(r) ==
  /\ At(r, "revision")
  /\ Goto(r, IF revision = None THEN "init" ELSE "upgradeLock")
  /\ UNCHANGED <<database, lock, overtaken, torn, bounds>>

\* initdb reads it again, and upgrades, checks first, if there is one now.
InitDb(r) ==
  /\ At(r, "init")
  /\ IF revision = None
       THEN runner' = [runner EXCEPT ![r].pc = "initLock", ![r].fresh = TRUE]
       ELSE Goto(r, "reflect")
  /\ UNCHANGED <<database, lock, overtaken, torn, bounds>>

\* create_all, one transaction, leaves the tables that exist as they are.
CreateAll(r) ==
  /\ At(r, "create")
  /\ shape' = [t \in Tables |-> IF shape[t] = "none" THEN ShapeAt(t, Latest) ELSE shape[t]]
  /\ others' = Others
  /\ Goto(r, "stamp")
  /\ UNCHANGED <<revision, source, parked, moved, orphan, excused, settled, lock, overtaken,
                 torn, bounds>>

Stamp(r) ==
  /\ At(r, "stamp")
  /\ revision' = Latest
  /\ Goto(r, "stamped")
  /\ UNCHANGED <<tables, source, parked, moved, orphan, excused, settled, lock, overtaken, torn,
                 bounds>>

Rekeyed(s) == {t \in Tables : RunIdAt[t] = s}

\* Without a dag run, a row keeps a null run_id: the constraint refuses it.
Refused(s) == \E t \in Rekeyed(s) \ Rebuilt : Dangling(t) # {}

Upgrade(r) ==
  LET next == runner[r].from + 1 IN
  /\ At(r, "upgrade") /\ runner[r].from < Latest
  /\ Migrate(r, next) /\ ~Refused(next)
  /\ source' = source \ UNION {Dangling(t) : t \in Rekeyed(next)}
  /\ UNCHANGED <<parked, moved, orphan, excused, settled, lock, overtaken, torn, bounds>>

UpgradeFails(r) ==
  LET from == runner[r].from IN
  /\ At(r, "upgrade") /\ from < Latest
  /\ ~Applies(from, from + 1) \/ Missing(from) \/ Refused(from + 1)
  /\ Fails(r)

Merging(r) == At(r, "connections") /\ runner[r].load /\ runner[r].merged < Connections
Merged(r, pc) == runner' = [runner EXCEPT ![r].pc = pc, ![r].merged = @ + 1]

\* merge_conn of the next default connection: nothing if there is one of its name.
ReadConnection(r) ==
  /\ Merging(r) /\ "connection" \in others
  /\ IF runner[r].merged + 1 \in connected THEN Merged(r, "connections")
                                          ELSE Goto(r, "merge")
  /\ UNCHANGED <<database, lock, overtaken, torn, bounds>>

InsertConnection(r) ==
  /\ At(r, "merge") /\ "connection" \in others /\ runner[r].merged + 1 \notin connected
  /\ connected' = connected \cup {runner[r].merged + 1}
  /\ Merged(r, "connections")
  /\ UNCHANGED <<revision, tables, source, parked, moved, orphan, excused, pool, template,
                 lock, overtaken, torn, bounds>>

\* The table is gone, or a connection of that name is there by now.
ConnectionFails(r) ==
  /\ Merging(r) \/ At(r, "merge")
  /\ "connection" \notin others \/ (At(r, "merge") /\ runner[r].merged + 1 \in connected)
  /\ Fails(r)

\* upgradedb, or initdb after its connections.
AtPool(r) == At(r, "pool") \/ (At(r, "connections") /\ ~Merging(r))
PoolTables(r) == {"slot_pool"} \cup IF At(r, "pool") THEN {"serialized_dag"} ELSE {}

\* The default pool: read, and inserted in the same transaction.  upgradedb deletes
\* the serialized dags first, which needs their table.
ReadPool(r) ==
  /\ AtPool(r) /\ PoolTables(r) \subseteq others
  /\ Goto(r, IF pool THEN "template" ELSE "insert")
  /\ UNCHANGED <<database, lock, overtaken, torn, bounds>>

InsertPool(r) ==
  /\ At(r, "insert") /\ "slot_pool" \in others /\ ~pool
  /\ pool' = TRUE
  /\ Goto(r, "template")
  /\ UNCHANGED <<revision, tables, source, parked, moved, orphan, excused, template, connected,
                 lock, overtaken, torn, bounds>>

\* The pool's name is unique.
PoolFails(r) ==
  /\ AtPool(r) \/ At(r, "insert")
  /\ ~(PoolTables(r) \subseteq others) \/ (At(r, "insert") /\ pool)
  /\ Fails(r)

\* synchronize_log_template, without a word if the table does not exist.  An empty
\* table gets the template of old logs first.  When initdb had upgradedb do its
\* work, the connections and, once more, pool and template come next.
SyncTemplate(r) ==
  /\ At(r, "template")
  /\ template' = ("log_template" \in others)
  /\ Goto(r, IF runner[r].load /\ runner[r].merged < Connections THEN "connections"
                                                              ELSE "completed")
  /\ UNCHANGED <<revision, tables, source, parked, moved, orphan, excused, pool, connected,
                 lock, overtaken, torn, bounds>>

\* MigrationCompleted is returned.
Complete(r) ==
  /\ At(r, "completed")
  /\ runner' = [runner EXCEPT ![r] = Idle]
  /\ UNCHANGED <<database, lock, overtaken, torn, bounds>>

-----------------------------------------------------------------------------
(* Around the lambda *)

\* The 600 s limit: open transactions roll back, the session of the lock stays
\* until the server notices.
Killed(r) ==
  /\ ~At(r, "idle") /\ killed < MaxKilled
  /\ killed' = killed + 1
  /\ runner' = [runner EXCEPT ![r] = Idle]
  /\ lock' = IF lock = r THEN Ghost ELSE lock
  /\ torn' = (torn \/ (At(r, "drop") /\ revision # None))
  /\ UNCHANGED <<database, overtaken, calls, removed>>

ConnectionDropped ==
  /\ lock = Ghost /\ lock' = Free
  /\ UNCHANGED <<database, runner, overtaken, torn, bounds>>

\* A call that will not look at the table again before it migrates.
Passed(r, t) ==
  \/ runner[r].pc \in {"revision", "upgradeLock", "upgrade"}
  \/ runner[r].pc \in {"check", "purge"} /\ t \notin {Models[i] : i \in Left(r)}

\* A dag run is deleted; the old schema keeps the rows that referred to it.
RunRemoved(x) ==
  /\ x \in source \ orphan /\ ~Reshaped(TableOf[x]) /\ removed < MaxRemoved
  /\ removed' = removed + 1
  /\ orphan' = orphan \cup {x}
  /\ excused' = IF \E r \in Runner : Passed(r, TableOf[x]) THEN excused \cup {x} ELSE excused
  /\ UNCHANGED <<revision, tables, source, parked, moved, settled, lock, runner, overtaken,
                 torn, calls, killed>>

Next ==
  \/ \E r \in Runner :
       \/ (\E to \in 0 .. Latest : Call(r, to)) \/ CallReset(r)
       \/ Lock(r) \/ LockTimeout(r) \/ Unlock(r)
       \/ Downgrade(r) \/ DowngradeFails(r)
       \/ (\E t \in Tables : DropModel(r, t)) \/ (\E o \in Others : DropOther(r, o))
       \/ DropStamp(r) \/ DropMovedTables(r)
       \/ Reflect(r) \/ Purge(r) \/ PurgeFails(r) \/ ChecksEnd(r)
       \/ \E i \in 1 .. Len(Models) :
            AlreadyMoved(r, i) \/ CopyDangling(r, i) \/ CheckFails(r, i)
       \/ ReadRevision(r) \/ InitDb(r) \/ CreateAll(r) \/ Stamp(r)
       \/ Upgrade(r) \/ UpgradeFails(r)
       \/ ReadConnection(r) \/ InsertConnection(r) \/ ConnectionFails(r)
       \/ ReadPool(r) \/ InsertPool(r) \/ PoolFails(r) \/ SyncTemplate(r)
       \/ Complete(r) \/ Killed(r)
  \/ ConnectionDropped
  \/ \E x \in Row : RunRemoved(x)

Spec == Init /\ [][Next]_vars

-----------------------------------------------------------------------------
(* Properties *)

\* Every variable keeps its type; the lock is held exactly by the call that is
\* inside a locked block.
TypeOK ==
  /\ revision \in 0 .. Latest /\ shape \in [Tables -> Shapes] /\ others \subseteq Others
  /\ source \subseteq Row /\ orphan \subseteq Row /\ excused \subseteq Row
  /\ parked \subseteq Tables /\ moved \subseteq Row /\ torn \in BOOLEAN
  /\ overtaken \subseteq Runner /\ pool \in BOOLEAN /\ template \in BOOLEAN
  /\ connected \subseteq 1 .. Connections
  /\ \A r \in Runner :
       lock = r <=> runner[r].pc \in {"downgrade", "create", "stamp", "stamped", "upgrade",
                                     "drop", "dropMoved", "dropped"}

RowsKept ==
  /\ \A x \in source \ source' : x \in excused' \/ x \in moved'
  /\ \/ moved \subseteq moved' /\ \A x \in moved : TableOf[x] \in parked'
     \/ \E r \in Runner : lock = r /\ At(r, "dropMoved")

\* A row leaves its table only for the moved table, unless a downgrade drops
\* it as mapped or its dag run went away behind the back of a call that had
\* checked the table; and a moved table never loses a row, but to a reset.  The
\* copy, the delete and the migrations that drop what has no dag run are
\* transactions of several calls, any of which may be killed in between.
NothingLost == [][RowsKept]_vars

\* While a call migrates, the stamped revision is the one its last migration
\* left: migrations of two calls never alternate, a killed holder of the lock
\* and a lock that times out included.
MigrationsAlone ==
  \A r \in Runner : At(r, "upgrade") \/ At(r, "downgrade") => runner[r].from = revision

\* The tables that are there have the columns the stamp says.
Stamped == \A t \in Tables : shape[t] \in {"none", ShapeAt(t, revision)}

StampKept ==
  /\ \/ revision # None /\ Stamped => revision' = None \/ Stamped'
     \/ \E r \in Runner : /\ lock = r /\ runner[r].fresh
                          /\ \/ At(r, "create") /\ runner'[r].pc = "stamp"
                             \/ At(r, "stamp") /\ runner'[r].pc = "stamped"
  /\ Missing(revision)' => torn' \/ \E r \in Runner : runner'[r].pc = "drop"

\* The tables that are there come to differ from the revision the database is
\* stamped with only by an initialisation that saw no revision and finds one under
\* the lock (others have initialised and downgraded it meanwhile, or began to
\* upgrade what was reset).  And all tables of the stamped revision are there,
\* unless a reset is at its DROPs or was killed among them: it drops the stamp last.
StampIsTrue == [][StampKept]_vars

Answers(r) == At(r, "completed") /\ runner'[r].pc = "idle" /\ killed' = killed

AnswersHold ==
  \A r \in Runner : Answers(r) =>
    \/ /\ revision = Latest /\ (Missing(Latest) => torn)
       /\ pool /\ (template \/ torn)
       /\ runner[r].load => connected = 1 .. Connections
    \/ r \in overtaken

\* MigrationCompleted is answered only with the database stamped with the latest
\* revision (StampIsTrue says what that tells of the columns) and no table of it
\* missing, the default pool and the log template there, and after a reset every
\* default connection, whatever calls were killed before, unless another call
\* downgraded or reset it meanwhile.  A reset killed among its DROPs is the
\* exception: the calls after it find the stamp of the head and answer although
\* tables are missing, the log template's too, but never without the pool.
CompletedIsLatest == [][AnswersHold]_vars
=============================================================================
