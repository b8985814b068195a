---------------------------- MODULE SchemaHistory ----------------------------
(***************************************************************************)
(* The metadata database's schema over the calls of the migrations lambda: *)
(* every script of versions/ as a function of the schema (RevisionsOld,    *)
(* Revisions2, Revisions23), applied and undone one transaction at a time. *)
(*                                                                         *)
(* A call undoes the scripts that build on a revision, when its event      *)
(* names one, then upgrades to the heads.  On a database without a revision *)
(* the upgrade creates the tables from the ORM instead and stamps the head. *)
(* A script that Postgres refuses is rolled back and ends the call; a call *)
(* may be killed between two scripts.  Overlapping calls, locks and rows   *)
(* without a dag run are the subject of Migrations, and left out here.     *)
(***************************************************************************)
EXTENDS Revisions23, Permissions, SequencesExt

CONSTANTS
  Started,        \* revisions at which an earlier deployment left its database
  Targets,        \* revisions an event may name
  Oddities,       \* what an old database may have: <<table, column, "null">> ...
  OldRights,      \* permissions of a role before release 2
  MaxDowngrades,  \* bound: calls that downgrade
  MaxKilled       \* bound: calls killed half-way

\* The revisions by release, each after those it builds on.  beeflow's own stand
\* before those of 2.3.3.
Releases == <<
  << "0001", "0002", "0003", "0004", "0005", "0006", "0007", "0008", "0009", "0010",
     "0011" >>,
  << "0012", "0013", "0014", "0015", "0016", "0017", "0018", "0019", "0020", "0021",
     "0022" >>,
  << "0023", "0024", "0025", "0026", "0027", "0028", "0029", "0030", "0031", "0032",
     "0033", "0034" >>,
  << "0035", "0036", "0037", "0038", "0039", "0040", "0041", "0042", "0043", "0044",
     "0045" >>,
  << "0046", "0047", "0048", "0049", "0050", "0051", "0052", "0053", "0054", "0055",
     "0056", "0057", "0058" >>,
  << "0059", "0060", "0061", "0062", "0063", "0064", "0065", "0066", "0067", "0068",
     "0069", "0070", "0071", "0072", "0073", "0074", "0075", "0076", "0077" >>,
  << "0078", "0079", "0080", "0081", "0082", "0083", "0084", "0085", "0086", "0087",
     "0088", "0089", "0090", "0091", "0092", "0093" >>,
  << "0094", "0095", "0096" >>,
  << "0097", "0098", "0099", "0100", "0101", "0102", "0103", "0104", "0105", "0106",
     "0107", "0108", "0109", "0110" >>,
  << "1e014567e912", "b3df883b80f3", "a7836d0f25b8", "cd20f435f053", "97d9c84a82ae",
     "36933d146b0e", "592d84cf498f", "122c4b1b73d5", "287c35cfdecb", "0cad193f532f" >>,
  << "0111", "0112", "0113", "0114", "0115", "0116", "0117", "0118", "0119" >> >>

Chain == FlattenSeq(Releases)
Revision == ToSet(Chain)

Scripts ==
  LET named == {
    <<"0001", R0001>>, <<"0002", R0002>>, <<"0003", R0003>>, <<"0004", R0004>>,
    <<"0005", R0005>>, <<"0006", R0006>>, <<"0007", R0007>>, <<"0008", R0008>>,
    <<"0009", R0009>>, <<"0010", R0010>>, <<"0011", R0011>>, <<"0012", R0012>>,
    <<"0013", R0013>>, <<"0014", R0014>>, <<"0015", R0015>>, <<"0016", R0016>>,
    <<"0017", R0017>>, <<"0018", R0018>>, <<"0019", R0019>>, <<"0020", R0020>>,
    <<"0021", R0021>>, <<"0022", R0022>>, <<"0023", R0023>>, <<"0024", R0024>>,
    <<"0025", R0025>>, <<"0026", R0026>>, <<"0027", R0027>>, <<"0028", R0028>>,
    <<"0029", R0029>>, <<"0030", R0030>>, <<"0031", R0031>>, <<"0032", R0032>>,
    <<"0033", R0033>>, <<"0034", R0034>>, <<"0035", R0035>>, <<"0036", R0036>>,
    <<"0037", R0037>>, <<"0038", R0038>>, <<"0039", R0039>>, <<"0040", R0040>>,
    <<"0041", R0041>>, <<"0042", R0042>>, <<"0043", R0043>>, <<"0044", R0044>>,
    <<"0045", R0045>>, <<"0046", R0046>>, <<"0047", R0047>>, <<"0048", R0048>>,
    <<"0049", R0049>>, <<"0050", R0050>>, <<"0051", R0051>>, <<"0052", R0052>>,
    <<"0053", R0053>>, <<"0054", R0054>>, <<"0055", R0055>>, <<"0056", R0056>>,
    <<"0057", R0057>>, <<"0058", R0058>>, <<"0059", R0059>>, <<"0060", R0060>>,
    <<"0061", R0061>>, <<"0062", R0062>>, <<"0063", R0063>>, <<"0064", R0064>>,
    <<"0065", R0065>>, <<"0066", R0066>>, <<"0067", R0067>>, <<"0068", R0068>>,
    <<"0069", R0069>>, <<"0070", R0070>>, <<"0071", R0071>>, <<"0072", R0072>>,
    <<"0073", R0073>>, <<"0074", R0074>>, <<"0075", R0075>>, <<"0076", R0076>>,
    <<"0077", R0077>>, <<"0078", R0078>>, <<"0079", R0079>>, <<"0080", R0080>>,
    <<"0081", R0081>>, <<"0082", R0082>>, <<"0083", R0083>>, <<"0084", R0084>>,
    <<"0085", R0085>>, <<"0086", R0086>>, <<"0087", R0087>>, <<"0088", R0088>>,
    <<"0089", R0089>>, <<"0090", R0090>>, <<"0091", R0091>>, <<"0092", R0092>>,
    <<"0093", R0093>>, <<"0094", R0094>>, <<"0095", R0095>>, <<"0096", R0096>>,
    <<"0097", R0097>>, <<"0098", R0098>>, <<"0099", R0099>>, <<"0100", R0100>>,
    <<"0101", R0101>>, <<"0102", R0102>>, <<"0103", R0103>>, <<"0104", R0104>>,
    <<"0105", R0105>>, <<"0106", R0106>>, <<"0107", R0107>>, <<"0108", R0108>>,
    <<"0109", R0109>>, <<"0110", R0110>>, <<"1e014567e912", R1e014567e912>>,
    <<"b3df883b80f3", Rb3df883b80f3>>, <<"a7836d0f25b8", Ra7836d0f25b8>>,
    <<"cd20f435f053", Rcd20f435f053>>, <<"97d9c84a82ae", R97d9c84a82ae>>,
    <<"36933d146b0e", R36933d146b0e>>, <<"592d84cf498f", R592d84cf498f>>,
    <<"122c4b1b73d5", R122c4b1b73d5>>, <<"287c35cfdecb", R287c35cfdecb>>,
    <<"0cad193f532f", R0cad193f532f>>, <<"0111", R0111>>, <<"0112", R0112>>,
    <<"0113", R0113>>, <<"0114", R0114>>, <<"0115", R0115>>, <<"0116", R0116>>,
    <<"0117", R0117>>, <<"0118", R0118>>, <<"0119", R0119>> }
  IN [r \in Revision |-> (CHOOSE n \in named : n[1] = r)[2]]

Base == "base"

ASSUME SchemaHistoryAssumption ==
  /\ Started \subseteq Revision \cup {Base} /\ Targets \subseteq Revision \cup {Base}
  /\ MaxDowngrades \in Nat /\ MaxKilled \in Nat

Children == [r \in Revision |-> {c \in Revision : r \in Scripts[c].after}]

\* FoldLeft over the chain, release by release: as a whole it nests too deep for TLC.
Along(step(_, _), start) ==
  FoldLeft(LAMBDA v, release : CHOOSE w \in {FoldLeft(step, u, release) : u \in {v}} : TRUE,
           start, Releases)

\* the revisions that build on r, directly or not
Descendants ==
  [r \in Targets |-> Along(LAMBDA found, d :
      IF Scripts[d].after \cap (found \cup {r}) # {} THEN found \cup {d} ELSE found, {})]

\* What the first i scripts make of an empty database, and of the rights of a
\* role that has OldRights: they do not depend on a history.
Prefix == [i \in 0 .. Len(Chain) |-> {Chain[j] : j \in 1 .. i}]
Grown == Along(LAMBDA ss, r : Append(ss, Run(Scripts[r].up, ss[Len(ss)])), <<Empty>>)
Latest == Grown[Len(Grown)]
GrownRights ==
  Along(LAMBDA gs, r : Append(gs, Granted("up", r, gs[Len(gs)])), <<OldRights>>)

-----------------------------------------------------------------------------
VARIABLES
  applied,     \* the revisions that the stamped ones build on, and these
  schema,      \* the schema
  rights,      \* the permissions of a role
  call,        \* what the call is doing
  undoing,     \* the revisions a downgrade still has to undo
  undone,      \* the revisions that have ever been undone
  failed,      \* what the last call failed at
  downgrades, killed

database == <<applied, schema, rights, undone>>
vars == <<applied, schema, rights, call, undoing, undone, failed, downgrades, killed>>

Heads == {r \in applied : Children[r] \cap applied = {}}

\* The permissions are in tables that the downgrade of 0057 drops.
RightsIn(s, held) == IF "ab_permission_view_role" \in s.tables THEN held ELSE {}

\* Every table has rows, and a NULL where there may be one.  The oddities that
\* a database may or may not have are a NULL, or twins, in a column.
InUse(s, odd) ==
  [s EXCEPT !.rows = s.tables,
            !.holes = {p \in s.columns \ s.required :
                         <<p[1], p[2], "null">> \in Oddities => <<p[1], p[2], "null">> \in odd},
            !.twins = {x \in odd : /\ <<x[1], x[2]>> \in s.columns /\ x[3] # "null"
                                   /\ \A k \in On(s, x[1]) : k.cols = {x[2]} =>
                                        \/ k.kind \in {"index", "foreign", "cascade"}
                                        \/ x[3] = "case" /\ k.kind # "lower index"}]

Init ==
  /\ \E i \in 0 .. Len(Chain), odd \in SUBSET Oddities :
       /\ (IF i = 0 THEN Base ELSE Chain[i]) \in Started
       /\ Cardinality(odd) <= 1
       /\ applied = Prefix[i]
       /\ schema \in {Grown[i + 1], InUse(Grown[i + 1], odd)}
       /\ rights = RightsIn(schema, GrownRights[i + 1])
  /\ call = "idle" /\ undoing = {} /\ undone = {} /\ failed = <<"", "">>
  /\ downgrades = 0 /\ killed = 0

\* The application runs on the schema it knows.
Use ==
  /\ call = "idle" /\ applied = Revision
  /\ schema' = InUse(schema, {})
  /\ UNCHANGED <<applied, rights, call, undoing, undone, failed, downgrades, killed>>

\* The event names a revision to downgrade to.
CallDown(target) ==
  /\ call = "idle" /\ downgrades < MaxDowngrades /\ target \in applied \cup {Base}
  /\ call' = "downgrading" /\ downgrades' = downgrades + 1
  /\ undoing' = IF target = Base THEN applied ELSE Descendants[target] \cap applied
  /\ failed' = <<"", "">>
  /\ UNCHANGED <<database, killed>>

Call ==
  /\ call = "idle" /\ call' = "checking" /\ failed' = <<"", "">>
  /\ UNCHANGED <<database, undoing, downgrades, killed>>

\* An exception; the transaction is rolled back.
Fails(at) ==
  /\ call' = "idle" /\ undoing' = {} /\ failed' = at
  /\ UNCHANGED <<downgrades, killed>>

UndoInAnyOrder(r) ==  \* mutant: a script is undone before those that build on it
  /\ call = "downgrading"
  /\ \E s \in {Run(Scripts[r].down, schema)} :
     IF s.error # "" \/ UndoRefused(r, rights)
     THEN Fails(<<"down", r>>) /\ UNCHANGED database
     ELSE /\ schema' = s /\ rights' = RightsIn(s, Granted("down", r, rights))
          /\ applied' = applied \ {r} /\ undoing' = undoing \ {r} /\ undone' = undone \cup {r}
          /\ UNCHANGED <<call, failed, downgrades, killed>>

Undo(r) ==
  /\ call = "downgrading" /\ Children[r] \cap applied = {}
  /\ \E s \in {Run(Scripts[r].down, schema)} :
     IF s.error # "" \/ UndoRefused(r, rights)
     THEN Fails(<<"down", r>>) /\ UNCHANGED database
     ELSE /\ schema' = s /\ rights' = RightsIn(s, Granted("down", r, rights))
          /\ applied' = applied \ {r} /\ undoing' = undoing \ {r} /\ undone' = undone \cup {r}
          /\ UNCHANGED <<call, failed, downgrades, killed>>

Undone ==
  /\ call = "downgrading" /\ undoing = {} /\ call' = "checking"
  /\ UNCHANGED <<database, undoing, failed, downgrades, killed>>

-----------------------------------------------------------------------------
(* _check_migration_errors *)

ConnIdDuplicates(s) == <<"connection", "conn_id", "same">> \in s.twins
ConnTypeNull(s) == <<"connection", "conn_type">> \in s.holes
\* GROUP BY username, which tells case apart
UsernameDuplicates(s) ==
  \E t \in {"ab_user", "ab_register_user"} : <<t, "username", "same">> \in s.twins

Moved == "_airflow_moved__2_2__dangling__dag_run"
RunIdColumns == ColumnsOf("dag_run", {"dag_id", "run_id", "execution_date"})
RunIdNull(s) == RunIdColumns \cap s.holes # {}

\* Dag runs with a NULL there are moved to a table of their own, once.
MoveRuns(s) ==
  IF ~RunIdNull(s) \/ Moved \in s.tables THEN s
  ELSE [WithTable(Moved, {}, {p[2] : p \in {q \in s.columns : q[1] = "dag_run"}}, s)
         EXCEPT !.holes = @ \ RunIdColumns, !.rows = @ \cup {Moved}]

Errors(s) ==
  \/ ConnIdDuplicates(s) \/ ConnTypeNull(s) \/ UsernameDuplicates(s)
  \/ RunIdNull(s) /\ Moved \in s.tables

Check ==
  /\ call = "checking"
  /\ schema' = MoveRuns(schema) /\ UNCHANGED <<applied, rights, undone>>
  /\ IF Errors(schema) THEN Fails(<<"checks", "">>)
     ELSE call' = "checked" /\ UNCHANGED <<undoing, failed, downgrades, killed>>

-----------------------------------------------------------------------------
(* upgradedb *)

\* MigrationContext.get_current_revision raises when there are several.
SeveralHeads ==
  /\ call = "checked" /\ Cardinality(Heads) > 1
  /\ Fails(<<"heads", "">>) /\ UNCHANGED database

CreateUnstamped ==  \* mutant: the head is not stamped
  /\ call = "checked" /\ applied = {}
  /\ schema' = Latest /\ call' = "idle"
  /\ UNCHANGED <<applied, rights, undoing, undone, failed, downgrades, killed>>

\* create_all makes the tables that are missing, as they are at the head.
CreateFromOrm ==
  LET missing == Latest.tables \ schema.tables
      made(ps) == {p \in ps : p[1] \in missing} IN
  /\ call = "checked" /\ applied = {}
  /\ schema' = [schema EXCEPT !.tables = @ \cup missing, !.columns = @ \cup made(Latest.columns),
                              !.required = @ \cup made(Latest.required),
                              !.keys = @ \cup {k \in Latest.keys : k.on \in missing}]
  /\ applied' = Revision /\ call' = "idle"
  /\ UNCHANGED <<rights, undoing, undone, failed, downgrades, killed>>

BeginUpgrade ==
  /\ call = "checked" /\ Cardinality(Heads) = 1 /\ call' = "upgrading"
  /\ UNCHANGED <<database, undoing, failed, downgrades, killed>>

Apply(r) ==
  /\ call = "upgrading" /\ Scripts[r].after \subseteq applied
  /\ \E s \in {Run(Scripts[r].up, schema)} :
     IF s.error # ""
     THEN Fails(<<"up", r>>) /\ UNCHANGED database
     ELSE /\ schema' = s /\ rights' = Granted("up", r, rights)
          /\ applied' = applied \cup {r}
          /\ UNCHANGED <<call, undoing, undone, failed, downgrades, killed>>

Completed ==
  /\ call = "upgrading" /\ applied = Revision /\ call' = "idle"
  /\ UNCHANGED <<database, undoing, failed, downgrades, killed>>

Killed ==
  /\ call # "idle" /\ killed < MaxKilled
  /\ killed' = killed + 1 /\ call' = "idle" /\ undoing' = {}
  /\ UNCHANGED <<database, failed, downgrades>>

Proceed ==
  \/ Undone \/ Check \/ SeveralHeads \/ CreateFromOrm \/ BeginUpgrade \/ Completed
  \/ \E r \in undoing : Undo(r)
  \/ \E r \in Revision \ applied : Apply(r)

Next == Proceed \/ Call \/ (\E t \in Targets : CallDown(t)) \/ Use \/ Killed

\* A call goes on, and the lambda is invoked again by the next deployment.
Spec == Init /\ [][Next]_vars /\ WF_vars(Proceed) /\ WF_vars(Call)

-----------------------------------------------------------------------------
(* Properties *)

\* Every variable has its type.  Between two steps no script has failed half-way or
\* holds a lock, and the applied revisions are closed under what they build on.
TypeOK ==
  /\ applied \subseteq Revision /\ \A r \in applied : Scripts[r].after \subseteq applied
  /\ undoing \subseteq applied /\ undone \subseteq Revision
  /\ call \in {"idle", "downgrading", "checking", "checked", "upgrading"}
  /\ DOMAIN schema = DOMAIN Empty /\ schema.error = "" /\ schema.held = {}
  /\ downgrades \in 0 .. MaxDowngrades /\ killed \in 0 .. MaxKilled

\* Once the checks of _check_migration_errors have passed, every script of an
\* upgrade applies, and every script can be undone from where an upgrade leads,
\* whatever was undone or interrupted before, but for these:
\*   upgrades do not check for a NULL key of an xcom (0060), a connection without
\*   conn_id (0064), and usernames that differ in case only (0119);
\*   the downgrade of 0101 fails on dags that are stored compressed; that of 0060
\*   after 0102, which gives the primary key of xcom another name, or on an xcom
\*   with rows; and that of 0043 waits on another connection for itself.
\* A call finds several heads only after another was killed, or a downgrade ended,
\* on the branches of release 1.10, before their merges 0031, 0038 and 0049.
ScriptsApply ==
  /\ failed[1] = "up" =>
       CASE failed[2] = "0060" -> <<"xcom", "key">> \in schema.holes
         [] failed[2] = "0064" -> <<"connection", "conn_id">> \in schema.holes
         [] failed[2] = "0119" -> \E t \in {"ab_user", "ab_register_user"} :
                                    <<t, "username", "case">> \in schema.twins
         [] OTHER -> FALSE
  /\ failed[1] = "down" =>
       CASE failed[2] = "0043" -> "task_instance" \in schema.tables
         [] failed[2] = "0060" -> "0102" \in undone \/ "xcom" \in schema.rows
         [] failed[2] = "0101" -> <<"serialized_dag", "data">> \in schema.holes
         [] OTHER -> FALSE
  /\ failed[1] = "heads" =>
       /\ \E branch \in {<<"0026", "0031">>, <<"0034", "0038">>, <<"0040", "0049">>} :
            branch[1] \in applied /\ branch[2] \notin applied
       /\ killed > 0 \/ undone # {}

\* The place of the database in the chain of scripts, where it has one.
Place == Cardinality(applied)
OnChain == applied = Prefix[Place]

\* A revision means the same tables, columns, keys and NOT NULL columns, by
\* whatever upgrades, downgrades, failures and kills a database comes to it, apart
\* from the keys of xcom, which the downgrades of 0102 and 0060 rebuild, and of
\* users, which have been renamed by the time the downgrade of 0059 creates it
\* again.  The triggers of beeflow's first attempts on task_instance never outlive
\* its later revisions, though these undo nothing when downgraded.
ShapeFollowsRevision ==
  LET rebuilt == (IF undone \cap {"0060", "0102"} # {} THEN {"xcom"} ELSE {})
                 \cup (IF "0059" \in undone THEN {"users", "user"} ELSE {})
      there == Grown[Place + 1] IN
  OnChain =>
    /\ schema.tables \ {Moved} = there.tables
    /\ {p \in schema.columns : p[1] # Moved} = there.columns
    /\ {k \in schema.keys : k.on \notin rebuilt} = {k \in there.keys : k.on \notin rebuilt}
    /\ {p \in schema.required : p[1] \notin rebuilt}
         = {p \in there.required : p[1] \notin rebuilt}
    /\ applied = Revision => \A t \in schema.tables, o \in schema.routines : o[1] # t

\* What a permission of release 1.10 has become at the head.
NewRight(p) ==
  IF p[1] \in DagActions THEN <<General(p[1]), IF p[2] = "all_dags" THEN "DAGs" ELSE DagPrefix \o p[2]>>
  ELSE LET entry == CHOOSE e \in ToSet(Mapping \o MappingFab) : e.old = p IN entry.new[1]

\* A role has, for each of its old permissions, the first of the new ones, and
\* just these, after every downgrade that stops short of 0073.  Its dags it
\* keeps even then, until the downgrade of 0057 drops the tables.
RightsKept ==
  applied = Revision /\ rights # {} =>
    /\ {NewRight(p) : p \in {q \in OldRights : q[1] \in DagActions}} \subseteq rights
    /\ "0073" \notin undone => rights = {NewRight(p) : p \in OldRights}

\* What no further call repairs: an error the checks name, several heads, or a
\* row that a script stumbles over.
Blocked == failed[1] \in {"checks", "heads", "up"}

\* The lambda is invoked again after every failure and kill: the database is
\* upgraded to the head over and over, unless it is blocked.
Recovers == []<>(applied = Revision \/ Blocked)
=============================================================================
