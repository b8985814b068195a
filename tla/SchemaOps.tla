------------------------------- MODULE SchemaOps -------------------------------
(***************************************************************************)
(* What the operations of a migration script (alembic's op.*, and SQL it   *)
(* executes) do to a Postgres schema, and when Postgres refuses them.      *)
(*                                                                         *)
(* A schema is a record:                                                   *)
(*   tables     names of tables                                            *)
(*   columns    pairs <<table, column>>                                    *)
(*   required   columns that are NOT NULL                                  *)
(*   holes      columns in which some row holds NULL                       *)
(*   twins      columns in which two rows hold the same value, or values   *)
(*              that differ in case: <<table, column, "same" or "case">>   *)
(*   rows       tables that have rows                                      *)
(*   keys       primary, unique and foreign keys, and indexes              *)
(*   routines   functions, extensions, and triggers with their table       *)
(*   held       tables the running transaction has altered, and locks      *)
(*   error      the operation that failed, or ""                           *)
(* Types of columns, the order of columns in a key, other values of rows   *)
(* and the uniqueness of several columns together are left out.            *)
(***************************************************************************)
EXTENDS Naturals, Sequences, FiniteSets

Empty == [tables |-> {}, columns |-> {}, required |-> {}, holes |-> {}, twins |-> {}, rows |-> {},
          keys |-> {}, routines |-> {}, held |-> {}, error |-> ""]

-----------------------------------------------------------------------------
(* Keys: name "" is the name Postgres gives a primary key; ref is the table *)
(* and the columns a foreign key refers to.                                 *)
Key(name, kind, cols, ref) == [name |-> name, kind |-> kind, cols |-> cols, ref |-> ref]
Nothing == <<"", {}>>

Primary(cols) == Key("", "primary", cols, Nothing)
NamedPrimary(name, cols) == Key(name, "primary", cols, Nothing)
Unique(name, cols) == Key(name, "unique", cols, Nothing)
Index(name, cols) == Key(name, "index", cols, Nothing)
UniqueIndex(name, cols) == Key(name, "unique index", cols, Nothing)
\* on LOWER(column)
LowerIndex(name, c) == Key(name, "lower index", {c}, Nothing)
Foreign(name, cols, t, refcols) == Key(name, "foreign", cols, <<t, refcols>>)
\* ON DELETE CASCADE, which lets rows go but not tables or keys
Cascade(name, cols, t, refcols) == Key(name, "cascade", cols, <<t, refcols>>)

OnTable(t, k) ==
  [on |-> t, name |-> IF k.name = "" THEN t \o "_pkey" ELSE k.name,
   kind |-> k.kind, cols |-> k.cols, ref |-> k.ref]

IsForeign(k) == k.kind \in {"foreign", "cascade"}
IsIndex(k) == k.kind \in {"index", "unique index", "lower index"}

Column(t, c) == <<t, c>>
ColumnsOf(t, cs) == {Column(t, c) : c \in cs}
On(s, t) == {k \in s.keys : k.on = t}

-----------------------------------------------------------------------------
(* Operations.  "when" holds the tests under which the script performs it. *)
Op(do, t, more) == [do |-> do, t |-> t, when |-> {}, arg |-> more]

CreateTable(t, required, optional, keys) ==
  Op("create table", t, [required |-> required, optional |-> optional, keys |-> keys])
DropTable(t) == Op("drop table", t, <<>>)
RenameTable(t, name) == Op("rename table", t, name)
\* CREATE TABLE AS: columns without their constraints, "more" from a join
CreateTableAs(t, from, cols, more) ==
  Op("create table as", t, [from |-> from, cols |-> cols, more |-> more])
\* INSERT INTO t SELECT ... FROM from, which gives some columns by other means
InsertFrom(t, from, given) == Op("insert from", t, [from |-> from, given |-> given])

\* a nullable column;  one with a server default;  one that is NOT NULL
AddColumn(t, c) == Op("add column", t, [c |-> c, required |-> FALSE, default |-> FALSE])
AddDefaulted(t, c) == Op("add column", t, [c |-> c, required |-> FALSE, default |-> TRUE])
AddRequired(t, c) == Op("add column", t, [c |-> c, required |-> TRUE, default |-> FALSE])
AddRequiredDefaulted(t, c) == Op("add column", t, [c |-> c, required |-> TRUE, default |-> TRUE])
DropColumn(t, c) == Op("drop column", t, c)
RenameColumn(t, c, name) == Op("rename column", t, [c |-> c, name |-> name])
\* a change of type
AlterType(t, c) == Op("alter type", t, c)
SetNotNull(t, c) == Op("set not null", t, c)
DropNotNull(t, c) == Op("drop not null", t, c)
\* UPDATE that leaves no NULL in the column
Fill(t, c) == Op("fill", t, c)
InsertRow(t) == Op("insert row", t, <<>>)

AddKey(t, key) == Op("add key", t, key)
DropIndex(t, name) == Op("drop index", t, name)
DropConstraint(t, name) == Op("drop constraint", t, name)
DropForeignKeys(t) == Op("drop foreign keys", t, <<>>)

\* CREATE OR REPLACE FUNCTION, CREATE EXTENSION IF NOT EXISTS;  triggers
Provide(name) == Op("provide", "", name)
CreateTrigger(t, name) == Op("create trigger", t, name)
DropTriggerIfExists(t, name) == Op("drop trigger", t, name)

\* a statement on t that another connection executes
Elsewhere(t) == Op("elsewhere", t, <<>>)

\* the same operation on several columns of a table
AddColumns(t, cs) == [i \in 1 .. Len(cs) |-> AddColumn(t, cs[i])]
DropColumns(t, cs) == [i \in 1 .. Len(cs) |-> DropColumn(t, cs[i])]
AlterTypes(t, cs) == [i \in 1 .. Len(cs) |-> AlterType(t, cs[i])]
AddKeys(t, ks) == [i \in 1 .. Len(ks) |-> AddKey(t, ks[i])]
DropIndexes(t, names) == [i \in 1 .. Len(names) |-> DropIndex(t, names[i])]
DropTables(ts) == [i \in 1 .. Len(ts) |-> DropTable(ts[i])]

-----------------------------------------------------------------------------
(* A script: the revisions it follows, and what it does either way. *)
Script(after, up, down) == [after |-> after, up |-> up, down |-> down]

-----------------------------------------------------------------------------
(* Tests of a script on the schema it starts from. *)
Test(x, is) == [x |-> x, is |-> is]
When(test, ops) == [i \in 1 .. Len(ops) |-> [ops[i] EXCEPT !.when = @ \cup {test}]]

IfTable(t, ops) == When(Test(<<t>>, TRUE), ops)
UnlessTable(t, ops) == When(Test(<<t>>, FALSE), ops)
IfColumn(t, c, ops) == When(Test(<<t, c>>, TRUE), ops)
UnlessColumn(t, c, ops) == When(Test(<<t, c>>, FALSE), ops)

Holds(test, s) ==
  test.is = IF Len(test.x) = 1 THEN test.x[1] \in s.tables ELSE test.x \in s.columns

-----------------------------------------------------------------------------
(* When Postgres accepts an operation. *)

\* Tables and indexes, those of primary and unique keys included, share one
\* name space; the name of a foreign key is its table's own.
NameIsFree(t, key, s) ==
  IF IsForeign(key) THEN \A k \in On(s, t) : k.name # key.name
  ELSE /\ key.name \notin s.tables
       /\ \A k \in s.keys : k.name = key.name => IsForeign(k) /\ k.on # t

\* what a foreign key refers to is unique
Referable(ref, s) ==
  \E k \in On(s, ref[1]) : k.kind \in {"primary", "unique", "unique index"} /\ k.cols = ref[2]

\* no two rows have the value that a key on one column makes unique
IsUnique(t, key, s) ==
  \A c \in key.cols : key.cols = {c} =>
    /\ key.kind \in {"primary", "unique", "unique index"} => <<t, c, "same">> \notin s.twins
    /\ key.kind = "lower index" => \A how \in {"same", "case"} : <<t, c, how>> \notin s.twins

CanAddKey(t, key, s) ==
  /\ NameIsFree(t, key, s)
  /\ ColumnsOf(t, key.cols) \subseteq s.columns
  /\ IsForeign(key) => Referable(key.ref, s)
  /\ IsUnique(t, key, s)
  /\ key.kind = "primary" => /\ \A k \in On(s, t) : k.kind # "primary"
                             /\ ColumnsOf(t, key.cols) \cap s.holes = {}

\* a key of t that foreign keys of other tables rely on, and nothing else gives
ReliedOn(key, s) ==
  /\ key.kind \in {"primary", "unique", "unique index"}
  /\ \E k \in s.keys : IsForeign(k) /\ k.ref = <<key.on, key.cols>>
                       /\ ~Referable(k.ref, [s EXCEPT !.keys = @ \ {key}])

WithTable(t, required, optional, s) ==
  [s EXCEPT !.tables = @ \cup {t},
            !.columns = @ \cup ColumnsOf(t, required \cup optional),
            !.required = @ \cup ColumnsOf(t, required)]

WithKeys(t, keys, s) ==
  [s EXCEPT !.keys = @ \cup keys,
            !.required = @ \cup ColumnsOf(t, UNION {k.cols : k \in {x \in keys : x.kind = "primary"}})]

Possible(op, s) ==
  LET t == op.t   a == op.arg IN
  CASE op.do = "create table" ->
         /\ t \notin s.tables
         /\ LET own == {OnTable(t, k) : k \in a.keys}
                made == WithTable(t, a.required, a.optional, s)
                keyed == [made EXCEPT !.keys = @ \cup {k \in own : ~IsForeign(k)}] IN
            \A k \in own : CanAddKey(t, k, IF IsForeign(k) THEN keyed ELSE made)
    [] op.do = "create table as" ->
         t \notin s.tables /\ ColumnsOf(a.from, a.cols) \subseteq s.columns
    [] op.do = "drop table" ->
         t \in s.tables /\ \A k \in s.keys : IsForeign(k) /\ k.ref[1] = t => k.on = t
    [] op.do = "rename table" -> t \in s.tables /\ a \notin s.tables
    [] op.do = "insert from" -> {t, a.from} \subseteq s.tables
    [] op.do = "add column" ->
         /\ t \in s.tables /\ Column(t, a.c) \notin s.columns
         /\ a.required /\ ~a.default => t \notin s.rows
    [] op.do = "drop column" ->
         Column(t, a) \in s.columns /\ \A k \in On(s, t) : a \in k.cols => ~ReliedOn(k, s)
    [] op.do = "rename column" ->
         Column(t, a.c) \in s.columns /\ Column(t, a.name) \notin s.columns
    [] op.do \in {"alter type", "fill"} -> Column(t, a) \in s.columns
    [] op.do = "set not null" -> Column(t, a) \in s.columns \ s.holes
    [] op.do = "drop not null" ->
         Column(t, a) \in s.columns /\ \A k \in On(s, t) : k.kind = "primary" => a \notin k.cols
    [] op.do \in {"insert row", "drop foreign keys"} -> t \in s.tables
    [] op.do = "add key" -> t \in s.tables /\ CanAddKey(t, OnTable(t, a), s)
    [] op.do = "drop index" -> \E k \in On(s, t) : k.name = a /\ IsIndex(k) /\ ~ReliedOn(k, s)
    [] op.do = "drop constraint" -> \E k \in On(s, t) : k.name = a /\ ~IsIndex(k) /\ ~ReliedOn(k, s)
    [] op.do = "create trigger" -> t \in s.tables /\ <<t, a>> \notin s.routines
    [] op.do = "elsewhere" -> t \in s.tables \ s.held   \* it would wait for this transaction
    [] OTHER -> TRUE

-----------------------------------------------------------------------------
(* What an accepted operation does. *)
RenamedIn(ps, p, q) == IF p \in ps THEN (ps \ {p}) \cup {q} ELSE ps

WithoutTable(t, s) ==
  LET others(ps) == {p \in ps : p[1] # t} IN
  [s EXCEPT !.tables = @ \ {t}, !.rows = @ \ {t}, !.columns = others(@),
            !.required = others(@), !.holes = others(@), !.twins = others(@),
            !.routines = others(@),
            !.keys = {k \in @ : k.on # t}]

TableRenamed(t, name, s) ==
  LET to(u) == IF u = t THEN name ELSE u
      all(ps) == {<<to(p[1]), p[2]>> : p \in ps} IN
  [s EXCEPT !.tables = RenamedIn(@, t, name), !.rows = RenamedIn(@, t, name),
            !.columns = all(@), !.required = all(@), !.holes = all(@),
            !.routines = all(@),
            !.keys = {[k EXCEPT !.on = to(@), !.ref = <<to(@[1]), @[2]>>] : k \in @}]

ColumnRenamed(t, c, name, s) ==
  LET col(ps) == RenamedIn(ps, Column(t, c), Column(t, name)) IN
  [s EXCEPT !.columns = col(@), !.required = col(@), !.holes = col(@),
            !.keys = {[k EXCEPT !.cols = IF k.on = t THEN RenamedIn(@, c, name) ELSE @,
                                !.ref = IF @[1] = t THEN <<t, RenamedIn(@[2], c, name)>> ELSE @]
                        : k \in @}]

WithoutColumn(t, c, s) ==
  [s EXCEPT !.columns = @ \ {Column(t, c)}, !.required = @ \ {Column(t, c)},
            !.holes = @ \ {Column(t, c)}, !.keys = {k \in @ : ~(k.on = t /\ c \in k.cols)}]

\* Rows copied into t have no value in the columns the source has not.
Copied(t, from, given, s) ==
  LET missing == {p \in s.columns : /\ p[1] = t /\ p[2] \notin given
                                    /\ Column(from, p[2]) \notin s.columns \ s.holes} IN
  IF from \notin s.rows THEN s
  ELSE IF missing \cap s.required # {} THEN [s EXCEPT !.error = "insert from"]
  ELSE [s EXCEPT !.rows = @ \cup {t}, !.holes = @ \cup missing]

Effect(op, s) ==
  LET t == op.t   a == op.arg IN
  CASE op.do = "create table" ->
         WithKeys(t, {OnTable(t, k) : k \in a.keys}, WithTable(t, a.required, a.optional, s))
    [] op.do = "create table as" -> Copied(t, a.from, a.more, WithTable(t, {}, a.cols \cup a.more, s))
    [] op.do = "drop table" -> WithoutTable(t, s)
    [] op.do = "rename table" -> TableRenamed(t, a, s)
    [] op.do = "insert from" -> Copied(t, a.from, a.given, s)
    [] op.do = "add column" ->
         LET p == Column(t, a.c) IN
         [s EXCEPT !.columns = @ \cup {p},
                   !.required = IF a.required THEN @ \cup {p} ELSE @,
                   !.holes = IF t \in s.rows /\ ~a.default THEN @ \cup {p} ELSE @]
    [] op.do = "drop column" -> WithoutColumn(t, a, s)
    [] op.do = "rename column" -> ColumnRenamed(t, a.c, a.name, s)
    [] op.do = "fill" -> [s EXCEPT !.holes = @ \ {Column(t, a)}]
    [] op.do = "set not null" -> [s EXCEPT !.required = @ \cup {Column(t, a)}]
    [] op.do = "drop not null" -> [s EXCEPT !.required = @ \ {Column(t, a)}]
    [] op.do = "insert row" -> [s EXCEPT !.rows = @ \cup {t}]
    [] op.do = "add key" -> WithKeys(t, {OnTable(t, a)}, s)
    [] op.do \in {"drop index", "drop constraint"} ->
         [s EXCEPT !.keys = {k \in @ : ~(k.on = t /\ k.name = a)}]
    [] op.do = "drop foreign keys" -> [s EXCEPT !.keys = {k \in @ : ~(k.on = t /\ IsForeign(k))}]
    [] op.do \in {"provide", "create trigger"} -> [s EXCEPT !.routines = @ \cup {<<t, a>>}]
    [] op.do = "drop trigger" -> [s EXCEPT !.routines = @ \ {<<t, a>>}]
    [] OTHER -> s

Locks(op) == IF op.do \in {"elsewhere", "provide"} THEN {} ELSE {op.t}

Step(op, s) ==
  IF Possible(op, s) THEN Effect(op, [s EXCEPT !.held = @ \cup Locks(op)])
  ELSE [s EXCEPT !.error = op.do \o " " \o op.t]

\* The schema after a script, which stops at the first operation refused; its
\* tests read the schema it starts from.  (The singleton makes TLC evaluate
\* the schema before each operation once.)
Perform(op, s, from) ==
  IF s.error # "" \/ \E test \in op.when : ~Holds(test, from) THEN s ELSE Step(op, s)

Run(script, schema) ==
  LET after[i \in 0 .. Len(script)] ==
        IF i = 0 THEN schema
        ELSE CHOOSE t \in {Perform(script[i], s, schema) : s \in {after[i - 1]}} : TRUE
  IN IF schema.error # "" THEN schema ELSE [after[Len(script)] EXCEPT !.held = {}]
=============================================================================
