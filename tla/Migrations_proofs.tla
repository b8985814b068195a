-------------------------- MODULE Migrations_proofs --------------------------
(***************************************************************************)
(* The properties of Migrations for any number of overlapping calls, any   *)
(* rows, tables and revisions, whatever is killed and whenever.            *)
(***************************************************************************)
EXTENDS Migrations, TLAPS

Pc == {"idle", "downgradeLock", "downgrade", "resetLock", "drop", "dropMoved", "dropped",
       "reflect", "check", "purge", "revision", "init", "initLock", "create",
       "stamp", "stamped", "upgradeLock", "upgrade", "connections", "merge", "pool",
       "insert", "template", "completed"}

RunnerState ==
  [pc : Pc, down : 0 .. Latest, done : 0 .. Len(Models), old : SUBSET Tables,
   existing : SUBSET Tables, errored : BOOLEAN, from : 0 .. Latest, fresh : BOOLEAN,
   load : BOOLEAN, merged : 0 .. Connections]

InLock == {"downgrade", "create", "stamp", "stamped", "upgrade", "drop",
           "dropMoved", "dropped"}
Dropping == {"dropMoved", "dropped"}

\* Where a call is once it has brought the database to the latest revision.
Settling == {"pool", "insert", "template", "connections", "merge", "completed"}

-----------------------------------------------------------------------------
(* The inductive invariant.                                                *)

Database ==
  /\ revision \in 0 .. Latest /\ shape \in [Tables -> Shapes] /\ others \subseteq Others
  /\ source \subseteq Row /\ orphan \subseteq Row /\ excused \subseteq Row
  /\ parked \subseteq Tables /\ moved \subseteq Row /\ torn \in BOOLEAN
  /\ overtaken \subseteq Runner /\ pool \in BOOLEAN /\ template \in BOOLEAN
  /\ connected \subseteq 1 .. Connections

Types ==
  /\ Database
  /\ runner \in [Runner -> RunnerState] /\ lock \in Runner \cup {Free, Ghost}
  /\ \A r \in Runner : lock = r <=> runner[r].pc \in InLock

\* What a call remembers, wherever it is.
Local(s) ==
  /\ s.pc \in {"downgradeLock", "downgrade"} => s.down # None
  /\ s.pc \in {"initLock", "create", "stamp"} => s.fresh
  /\ s.pc \in {"idle", "resetLock", "drop"} \cup Dropping => ~s.load /\ s.merged = 0
  /\ s.pc = "merge" => s.merged < Connections
  /\ s.pc = "completed" => (s.load => s.merged = Connections)

AllTables == others = Others /\ \A t \in Tables : shape[t] # "none"

\* What the holder of the lock relies on.
Held(s) ==
  /\ s.pc \in {"upgrade", "downgrade"} => s.from = revision
  /\ s.pc \in {"stamp", "stamped"} => AllTables
  /\ s.pc = "stamped" => revision = Latest
  /\ s.pc \in Dropping => source = {}

Rows ==
  /\ shape[Models[1]] = "none" => NoTables
  /\ \A x \in source : shape[TableOf[x]] # "none"
  /\ \A x \in source \cap orphan : shape[TableOf[x]] = "dated"
  /\ \A x \in moved : TableOf[x] \in parked

\* No table is missing but for a reset.
Whole == Missing(revision) => torn \/ \E r \in Runner : runner[r].pc = "drop"

Saved(t) == Dangling(t) \subseteq excused \cup moved

\* What lacks a dag run in a table that a call has checked is saved, or the call
\* remembers that it is not.
Checked(r) ==
  \A t \in Tables : Passed(r, t) =>
    Saved(t) \/ (runner[r].errored /\ runner[r].pc \in {"check", "purge"})

Settled == revision = Latest /\ (Missing(revision) => torn)

Reached(r) ==
  r \notin overtaken =>
    /\ 1 .. runner[r].merged \subseteq connected
    /\ runner[r].pc \in Settling => Settled
    /\ runner[r].pc \in {"template", "completed"} => pool
    /\ At(r, "completed") => template \/ torn

IInv ==
  /\ Types /\ Rows /\ Whole
  /\ \A r \in Runner : /\ Local(runner[r]) /\ Held(runner[r])
                       /\ Checked(r) /\ Reached(r)

-----------------------------------------------------------------------------
(* Steps in general.                                                       *)

LEMMA Bounds ==
  /\ Latest \in Nat /\ Latest >= 1 /\ Connections \in Nat /\ Len(Models) \in Nat
  /\ Models[1] \in Tables
  /\ \A i \in 1 .. Len(Models) : Models[i] \in Tables
  /\ \A t \in Tables : RunIdAt[t] \in Nat /\ 2 <= RunIdAt[t] /\ RunIdAt[t] <= Latest
  /\ \A x \in Row : TableOf[x] \in Tables
  /\ MapIndexAt \in Nat /\ 2 <= MapIndexAt /\ MapIndexAt <= Latest
<1>1. Models \in Seq(Tables) /\ Models # <<>> /\ MapIndexAt \in 2 .. Latest /\ Latest \in Nat \ {0}
      /\ RunIdAt \in [Tables -> 2 .. MapIndexAt] /\ TableOf \in [Row -> Tables]
      /\ Connections \in Nat
  BY MigrationsAssumption
<1>2. MapIndexAt \in Nat /\ 2 <= MapIndexAt /\ MapIndexAt <= Latest  BY <1>1
<1>3. \A t \in Tables : RunIdAt[t] \in 2 .. MapIndexAt  BY <1>1
<1>4. Len(Models) \in Nat /\ \A i \in 1 .. Len(Models) : Models[i] \in Tables  BY <1>1
<1>5. Models[1] \in Tables  BY <1>1, <1>4
<1> HIDE DEF Tables
<1> QED  BY <1>1, <1>2, <1>3, <1>4, <1>5

\* What a revision makes of a table.
LEMMA ShapeBounds ==
  ASSUME NEW t \in Tables, NEW n \in 0 .. Latest
  PROVE  /\ ShapeAt(t, n) \in Shapes
         /\ ShapeAt(t, n) = "none" <=> n = None
         /\ ShapeAt(t, n) = "dated" <=> n # None /\ n < RunIdAt[t]
<1> QED  BY DEF ShapeAt, Shapes

LEMMA OthersBounds ==
  /\ \A n : OthersAt(n) \subseteq Others
  /\ OthersAt(None) = {} /\ OthersAt(Latest) = Others
<1>1. Latest # None /\ ~(Latest < MapIndexAt)  BY Bounds DEF None
<1> QED  BY <1>1 DEF OthersAt

LEMMA Names == \A r \in Runner : r # Free /\ r # Ghost
<1> QED  BY MigrationsAssumption

LEMMA IdleState ==
  /\ Idle \in RunnerState /\ Local(Idle)
  /\ Idle.pc = "idle" /\ Idle.merged = 0 /\ ~Idle.load
<1>1. 0 \in 0 .. Latest /\ 0 \in 0 .. Len(Models) /\ 0 \in 0 .. Connections  BY Bounds
<1>2. Idle \in RunnerState  BY <1>1 DEF Idle, RunnerState, Pc, None
<1> QED  BY <1>2 DEF Idle, Local, Dropping

LEMMA Alone ==
  ASSUME IInv, NEW r \in Runner, NEW q \in Runner, q # r, runner[r].pc \in InLock
  PROVE  runner[q].pc \notin InLock /\ lock = r
<1> QED  BY DEF IInv, Types

\* A call that goes on to another place, and keeps all it remembers.
LEMMA GotoState ==
  ASSUME IInv, NEW r \in Runner, NEW pc \in Pc, Goto(r, pc)
  PROVE  \E s \in RunnerState :
           /\ runner' = [runner EXCEPT ![r] = s]
           /\ s.pc = pc /\ s.down = runner[r].down /\ s.done = runner[r].done
           /\ s.old = runner[r].old /\ s.existing = runner[r].existing
           /\ s.errored = runner[r].errored /\ s.from = runner[r].from
           /\ s.fresh = runner[r].fresh /\ s.load = runner[r].load
           /\ s.merged = runner[r].merged
<1> DEFINE s == [runner[r] EXCEPT !.pc = pc]
<1>1. runner[r] \in RunnerState  BY DEF IInv, Types
<1>2. s \in RunnerState  BY <1>1 DEF RunnerState
<1>3. /\ s.pc = pc /\ s.down = runner[r].down /\ s.done = runner[r].done
      /\ s.old = runner[r].old /\ s.existing = runner[r].existing
      /\ s.errored = runner[r].errored /\ s.from = runner[r].from
      /\ s.fresh = runner[r].fresh /\ s.load = runner[r].load
      /\ s.merged = runner[r].merged
  BY <1>1 DEF RunnerState
<1>4. runner' = [runner EXCEPT ![r] = s]  BY DEF Goto
<1> HIDE DEF s
<1> QED  BY <1>2, <1>3, <1>4

\* A step of one call keeps the invariant if it does so for that call and does no
\* harm to the others.
LEMMA Step ==
  ASSUME IInv, NEW r \in Runner, NEW s \in RunnerState,
         runner' = [runner EXCEPT ![r] = s],
         Database', lock' \in Runner \cup {Free, Ghost},
         lock' = r <=> s.pc \in InLock,
         \A q \in Runner \ {r} : lock' = q <=> lock = q,
         Rows', Whole', Local(s), Held(s)', Checked(r)', Reached(r)',
         \A q \in Runner \ {r} : Held(runner[q])' /\ Checked(q)' /\ Reached(q)'
  PROVE  IInv'
<1>1. /\ runner' \in [Runner -> RunnerState] /\ runner'[r] = s
      /\ \A q \in Runner \ {r} : runner'[q] = runner[q]
  BY DEF IInv, Types
<1>2. Types'  BY <1>1 DEF IInv, Types
<1>3. Local(runner'[r]) /\ Held(runner[r])'  BY <1>1 DEF Held, AllTables
<1>4. \A q \in Runner \ {r} : Local(runner'[q])  BY <1>1 DEF IInv
<1>5. \A q \in Runner : Local(runner'[q])  BY <1>3, <1>4
<1>6. \A q \in Runner : (Held(runner[q]) /\ Checked(q) /\ Reached(q))'  BY <1>3
<1> QED  BY <1>2, <1>5, <1>6 DEF IInv, Local

LEMMA Unmoved ==
  ASSUME IInv, NEW r \in Runner, NEW s \in RunnerState,
         runner' = [runner EXCEPT ![r] = s]
  PROVE  /\ runner'[r] = s /\ \A q \in Runner \ {r} : runner'[q] = runner[q]
         /\ \A q \in Runner \ {r} : \A t : Passed(q, t)' <=> Passed(q, t)
<1>1. runner'[r] = s /\ \A q \in Runner \ {r} : runner'[q] = runner[q]
  BY DEF IInv, Types
<1> QED  BY <1>1 DEF Passed, Left

\* A step of one call that leaves the database as it is.
LEMMA QuietStep ==
  ASSUME IInv, NEW r \in Runner, NEW s \in RunnerState,
         runner' = [runner EXCEPT ![r] = s],
         UNCHANGED database, overtaken' \subseteq overtaken,
         overtaken \ {r} \subseteq overtaken',
         torn' \in BOOLEAN, torn => torn',
         runner[r].pc = "drop" /\ revision # None => torn',
         lock' \in Runner \cup {Free, Ghost},
         lock' = r <=> s.pc \in InLock,
         \A q \in Runner \ {r} : lock' = q <=> lock = q,
         Local(s), Held(s), Checked(r)', Reached(r)'
  PROVE  IInv'
<1>1. /\ UNCHANGED <<revision, shape, others, source, parked, moved, orphan, excused>>
      /\ UNCHANGED <<pool, template, connected>>
  BY DEF database, tables, settled
<1>2. /\ runner'[r] = s /\ \A q \in Runner \ {r} : runner'[q] = runner[q]
      /\ \A q \in Runner \ {r} : \A t : Passed(q, t)' <=> Passed(q, t)
  BY Unmoved
<1>3. Database'  BY <1>1 DEF IInv, Types, Database
<1>4. Rows'  BY <1>1 DEF IInv, Rows, NoTables
<1>5. Held(s)'  BY <1>1 DEF Held, AllTables
<1>6. \A t : Saved(t)' <=> Saved(t)  BY <1>1 DEF Saved, Dangling, In
<1>7. Missing(revision)' <=> Missing(revision)  BY <1>1 DEF Missing
<1>8. Whole'
  <2>1. Missing(revision) => torn \/ \E q \in Runner : runner[q].pc = "drop"
    BY DEF IInv, Whole
  <2>2. Missing(revision) => revision # None  BY DEF Missing
  <2> QED  BY <1>2, <1>7, <2>1, <2>2 DEF Whole
<1>9. ASSUME NEW q \in Runner \ {r}
      PROVE  Held(runner[q])' /\ Checked(q)' /\ Reached(q)'
  <2>1. Held(runner[q])'  BY <1>1, <1>2 DEF IInv, Held, AllTables
  <2>2. Checked(q)'  BY <1>2, <1>6 DEF IInv, Checked
  <2>3. Reached(q)'
    BY <1>1, <1>2, <1>7 DEF IInv, Reached, Settled, At
  <2> QED  BY <2>1, <2>2, <2>3
<1> QED  BY <1>3, <1>4, <1>5, <1>8, <1>9, Step

LEMMA NotPassing ==
  ASSUME NEW r \in Runner,
         runner'[r].pc \notin {"revision", "upgradeLock", "upgrade", "check", "purge"}
  PROVE  Checked(r)'
<1> QED  BY DEF Checked, Passed

-----------------------------------------------------------------------------
(* Steps that leave the database as it is.                                 *)

\* A call ends, or is killed: what it held is released, or held by its connection.
LEMMA IdleStep ==
  ASSUME IInv, NEW r \in Runner, runner' = [runner EXCEPT ![r] = Idle],
         UNCHANGED <<database, overtaken>>,
         torn' \in BOOLEAN, torn => torn', runner[r].pc = "drop" /\ revision # None => torn',
         IF lock = r THEN lock' \in {Free, Ghost} ELSE lock' = lock
  PROVE  IInv'
<1>1. lock' \in Runner \cup {Free, Ghost} /\ lock' # r
      /\ \A q \in Runner \ {r} : lock' = q <=> lock = q
  BY Names DEF IInv, Types
<1>2. runner'[r] = Idle  BY IdleState, Unmoved
<1>3. Checked(r)'  BY <1>2, IdleState, NotPassing
<1>4. Reached(r)'
  <2>1. 1 .. 0 = {}  OBVIOUS
  <2> QED  BY <1>2, <2>1, IdleState DEF Reached, At, Settling
<1>5. Held(Idle)  BY IdleState DEF Held, Dropping
<1>6. Idle.pc \notin InLock  BY IdleState DEF InLock
<1> QED  BY <1>1, <1>3, <1>4, <1>5, <1>6, IdleState, QuietStep

LEMMA FailsStep ==
  ASSUME IInv, NEW r \in Runner, Fails(r), runner[r].pc # "drop"
  PROVE  IInv'
<1>1. torn \in BOOLEAN  BY DEF IInv, Types, Database
<1> QED  BY <1>1, IdleStep DEF Fails

LEMMA CompleteStep ==
  ASSUME IInv, NEW r \in Runner, Complete(r)
  PROVE  IInv'
<1>1. lock # r /\ torn \in BOOLEAN /\ runner[r].pc = "completed"
  BY DEF IInv, Types, Database, Complete, At, InLock
<1> QED  BY <1>1, IdleStep DEF Complete

LEMMA KilledStep ==
  ASSUME IInv, NEW r \in Runner, Killed(r)
  PROVE  IInv'
<1>1. torn' = (torn \/ (At(r, "drop") /\ revision # None))  BY DEF Killed
<1>2. torn' \in BOOLEAN  BY <1>1 DEF At
<1> QED  BY <1>1, <1>2, IdleStep DEF Killed, At

LEMMA ConnectionDroppedStep ==
  ASSUME IInv, ConnectionDropped
  PROVE  IInv'
<1>1. /\ UNCHANGED <<revision, shape, others, source, parked, moved, orphan, excused>>
      /\ UNCHANGED <<pool, template, connected, runner, overtaken, torn>>
      /\ lock' = Free /\ lock = Ghost
  BY DEF ConnectionDropped, database, tables, settled
<1>2. Types'  BY <1>1, Names DEF IInv, Types, Database
<1>3. Rows' /\ Whole'  BY <1>1 DEF IInv, Rows, NoTables, Whole, Missing
<1>4. ASSUME NEW r \in Runner
      PROVE  (Local(runner[r]) /\ Held(runner[r]) /\ Checked(r) /\ Reached(r))'
  <2>1. Local(runner[r])' /\ Held(runner[r])'  BY <1>1 DEF IInv, Local, Held, AllTables
  <2>2. Checked(r)'
    BY <1>1 DEF IInv, Checked, Passed, Left, Saved, Dangling, In
  <2>3. Reached(r)'  BY <1>1 DEF IInv, Reached, Settled, Missing, At
  <2> QED  BY <2>1, <2>2, <2>3
<1> QED  BY <1>2, <1>3, <1>4 DEF IInv

\* A call that begins has merged nothing yet.
LEMMA CallStep ==
  ASSUME IInv, NEW r \in Runner,
         CallReset(r) \/ \E to \in 0 .. Latest : Call(r, to)
  PROVE  IInv'
<1>1. runner[r] \in RunnerState /\ ~runner[r].load /\ runner[r].merged = 0
      /\ runner[r].pc = "idle" /\ lock # r
  BY DEF CallReset, Call, At, IInv, Types, Local, InLock
<1>2. PICK s \in RunnerState :
        /\ runner' = [runner EXCEPT ![r] = s]
        /\ s.pc \in {"reflect", "downgradeLock", "resetLock"}
        /\ s.pc = "downgradeLock" => s.down # None
        /\ ~s.load /\ s.merged = 0
  <2>1. CASE CallReset(r)
    <3>1. "resetLock" \in Pc /\ Goto(r, "resetLock")  BY <2>1 DEF CallReset, Pc
    <3> QED  BY <1>1, <3>1, GotoState
  <2>2. ASSUME NEW to \in 0 .. Latest, Call(r, to)
        PROVE  \E s \in RunnerState :
                 /\ runner' = [runner EXCEPT ![r] = s]
                 /\ s.pc \in {"reflect", "downgradeLock", "resetLock"}
                 /\ s.pc = "downgradeLock" => s.down # None
                 /\ ~s.load /\ s.merged = 0
    <3> DEFINE pc == IF to = None THEN "reflect" ELSE "downgradeLock"
               s == [runner[r] EXCEPT !.pc = pc, !.down = to]
    <3>0. pc \in Pc /\ pc \in {"reflect", "downgradeLock"}
          /\ (pc = "downgradeLock" => to # None)
      BY DEF Pc
    <3> HIDE DEF pc
    <3>1. s \in RunnerState  BY <1>1, <3>0 DEF RunnerState
    <3>2. s.pc = pc /\ s.down = to /\ ~s.load /\ s.merged = 0
      BY <1>1 DEF RunnerState
    <3>3. runner' = [runner EXCEPT ![r] = s]  BY <2>2 DEF Call, pc
    <3> HIDE DEF s
    <3> QED  BY <3>0, <3>1, <3>2, <3>3
  <2> QED  BY <2>1, <2>2
<1>3. /\ UNCHANGED <<database, lock, torn>> /\ overtaken' = overtaken \ {r}
  BY DEF CallReset, Call
<1>4. runner'[r] = s  BY <1>2, Unmoved
<1>5. Checked(r)'  BY <1>2, <1>4, NotPassing
<1>6. Reached(r)'
  <2>1. 1 .. 0 = {}  OBVIOUS
  <2> QED  BY <1>2, <1>4, <2>1 DEF Reached, At, Settling
<1>7. Local(s) /\ Held(s) /\ s.pc \notin InLock
  BY <1>2 DEF Local, Held, InLock, Dropping
<1>8. lock \in Runner \cup {Free, Ghost} /\ torn \in BOOLEAN
  BY DEF IInv, Types, Database
<1> QED  BY <1>1, <1>2, <1>3, <1>5, <1>6, <1>7, <1>8, QuietStep

LEMMA LockStep ==
  ASSUME IInv, NEW r \in Runner, Lock(r)
  PROVE  IInv'
<1>1. /\ runner[r] \in RunnerState
      /\ runner[r].pc \in {"downgradeLock", "initLock", "upgradeLock", "resetLock"}
      /\ lock = Free /\ lock' = r /\ UNCHANGED <<database, overtaken, torn>>
      /\ torn \in BOOLEAN
  BY DEF Lock, Waiting, IInv, Types, Database
<1> DEFINE pc == Waiting[runner[r].pc]
<1>2. /\ runner[r].pc = "downgradeLock" => pc = "downgrade"
      /\ runner[r].pc = "initLock" => pc = "create"
      /\ runner[r].pc = "upgradeLock" => pc = "upgrade"
      /\ runner[r].pc = "resetLock" => pc = "drop"
  BY DEF Waiting
<1> HIDE DEF pc
<1>3. PICK s \in RunnerState :
        /\ runner' = [runner EXCEPT ![r] = s]
        /\ s.pc = pc /\ s.from = revision /\ s.down = runner[r].down
        /\ s.fresh = runner[r].fresh /\ s.load = runner[r].load
        /\ s.merged = runner[r].merged /\ s.errored = runner[r].errored
  <2> DEFINE s == [runner[r] EXCEPT !.pc = pc, !.from = revision]
  <2>1. revision \in 0 .. Latest /\ pc \in Pc
    BY <1>1, <1>2 DEF IInv, Types, Database, Pc
  <2>2. s \in RunnerState  BY <1>1, <2>1 DEF RunnerState
  <2>3. /\ s.pc = pc /\ s.from = revision /\ s.down = runner[r].down
        /\ s.fresh = runner[r].fresh /\ s.load = runner[r].load
        /\ s.merged = runner[r].merged /\ s.errored = runner[r].errored
    BY <1>1 DEF RunnerState
  <2>4. runner' = [runner EXCEPT ![r] = s]  BY DEF Lock, pc
  <2> HIDE DEF s
  <2> QED  BY <2>2, <2>3, <2>4
<1>4. runner'[r] = s  BY <1>3, Unmoved
<1>5. /\ UNCHANGED <<revision, shape, others, source, parked, moved, orphan, excused>>
      /\ UNCHANGED <<pool, template, connected>>
  BY <1>1 DEF database, tables, settled
<1>6. Local(s)
  BY <1>1, <1>2, <1>3 DEF IInv, Local, Dropping
<1>7. Held(s) /\ s.pc \in InLock
  BY <1>1, <1>2, <1>3 DEF Held, Dropping, InLock
<1>8. Checked(r)'
  <2>1. CASE runner[r].pc = "upgradeLock"
    <3>1. \A t \in Tables : Saved(t)
      BY <2>1 DEF IInv, Checked, Passed
    <3>2. \A t \in Tables : Saved(t)'  BY <1>5, <3>1 DEF Saved, Dangling, In
    <3> QED  BY <3>2 DEF Checked
  <2>2. CASE runner[r].pc # "upgradeLock"
    BY <1>1, <1>2, <1>3, <1>4, <2>2, NotPassing
  <2> QED  BY <2>1, <2>2
<1>9. Reached(r)'
  <2>1. r \notin overtaken => 1 .. runner[r].merged \subseteq connected
    BY DEF IInv, Reached
  <2> QED  BY <1>1, <1>2, <1>3, <1>4, <1>5, <2>1 DEF Reached, At, Settling
<1>10. \A q \in Runner \ {r} : lock' = q <=> lock = q  BY <1>1, Names
<1> QED  BY <1>1, <1>3, <1>6, <1>7, <1>8, <1>9, <1>10, QuietStep

LEMMA UnlockStep ==
  ASSUME IInv, NEW r \in Runner, Unlock(r)
  PROVE  IInv'
<1>1. /\ runner[r] \in RunnerState /\ runner[r].pc \in InLock
      /\ runner[r].pc \in {"downgrade", "upgrade", "stamped", "dropped"}
      /\ runner[r].pc = "upgrade" => runner[r].from = Latest
      /\ torn \in BOOLEAN
  BY DEF Unlock, Finished, At, IInv, Types, Database, InLock
<1>2. PICK pc \in AfterLock[runner[r].pc] :
        runner' = [runner EXCEPT ![r] =
          [Idle EXCEPT !.pc = pc, !.load = @ \/ runner[r].load \/ pc = "init",
                       !.merged = runner[r].merged]]
  BY DEF Unlock
<1>3. /\ runner[r].pc = "downgrade" => pc = "reflect"
      /\ runner[r].pc = "upgrade" => pc = "pool"
      /\ runner[r].pc = "stamped" => pc = "connections"
      /\ runner[r].pc = "dropped" => pc \in {"init", "idle"}
  BY <1>1 DEF AfterLock
<1>4. PICK s \in RunnerState :
        /\ runner' = [runner EXCEPT ![r] = s]
        /\ s.pc = pc /\ s.load = (runner[r].load \/ pc = "init")
        /\ s.merged = runner[r].merged
  <2> DEFINE s == [Idle EXCEPT !.pc = pc, !.load = @ \/ runner[r].load \/ pc = "init",
                               !.merged = runner[r].merged]
  <2>1. pc \in Pc  BY <1>1, <1>3 DEF Pc
  <2>2. s \in RunnerState  BY <1>1, <2>1, IdleState DEF RunnerState
  <2>3. s.pc = pc /\ s.merged = runner[r].merged
    BY <1>1, IdleState DEF RunnerState
  <2>4. s.load = (runner[r].load \/ pc = "init")
    <3>1. s.load = (Idle.load \/ runner[r].load \/ pc = "init")
      BY <1>1, IdleState DEF RunnerState
    <3>2. Idle.load = FALSE  BY DEF Idle
    <3> HIDE DEF s
    <3> QED  BY <3>1, <3>2
  <2>5. runner' = [runner EXCEPT ![r] = s]  BY <1>2
  <2> HIDE DEF s
  <2> QED  BY <2>2, <2>3, <2>4, <2>5
<1>5. runner'[r] = s /\ \A q \in Runner \ {r} : runner'[q] = runner[q]
  BY <1>4, Unmoved
<1>6. /\ UNCHANGED <<revision, shape, others, source, parked, moved, orphan, excused>>
      /\ UNCHANGED <<pool, template, connected, overtaken, torn>>
      /\ UNCHANGED database /\ lock' = Free
  BY DEF Unlock, database, tables, settled
<1>7. Local(s)
  BY <1>1, <1>3, <1>4 DEF IInv, Local, Dropping
<1>8. Held(s) /\ s.pc \notin InLock
  BY <1>1, <1>3, <1>4 DEF Held, InLock, Dropping
<1>9. Checked(r)'  BY <1>1, <1>3, <1>4, <1>5, NotPassing
<1>10. Reached(r)'
  <2>1. Missing(revision) => torn
    <3>1. \A q \in Runner : runner[q].pc # "drop"  BY <1>1, Alone DEF InLock
    <3> QED  BY <3>1 DEF IInv, Whole
  <2>2. s.pc \in Settling => revision = Latest
    BY <1>1, <1>3, <1>4 DEF IInv, Held, Settling
  <2>3. r \notin overtaken => 1 .. runner[r].merged \subseteq connected
    BY DEF IInv, Reached
  <2>4. s.pc \notin {"insert", "template", "merge", "completed"}  BY <1>1, <1>3, <1>4
  <2>5. Missing(revision)' <=> Missing(revision)  BY <1>6 DEF Missing
  <2> QED
    BY <1>4, <1>5, <1>6, <2>1, <2>2, <2>3, <2>4, <2>5 DEF Reached, Settled, At
<1>11. /\ lock' # r /\ lock' \in Runner \cup {Free, Ghost}
       /\ \A q \in Runner \ {r} : lock' = q <=> lock = q
  BY <1>1, <1>6, Names, Alone DEF IInv, Types
<1> QED  BY <1>1, <1>4, <1>6, <1>7, <1>8, <1>9, <1>10, <1>11, QuietStep

\* A step outside the lock that leaves the database as it is.
LEMMA OutsideStep ==
  ASSUME IInv, NEW r \in Runner, NEW s \in RunnerState,
         runner' = [runner EXCEPT ![r] = s],
         UNCHANGED <<database, lock, overtaken, torn>>,
         runner[r].pc \notin InLock, s.pc \notin InLock,
         Local(s), Checked(r)', Reached(r)'
  PROVE  IInv'
<1>1. lock # r /\ lock \in Runner \cup {Free, Ghost} /\ torn \in BOOLEAN
  BY DEF IInv, Types, Database
<1>2. Held(s) /\ runner[r].pc # "drop"  BY DEF Held, InLock, Dropping
<1> QED  BY <1>1, <1>2, QuietStep

\* As long as a call has not settled, nothing but its connections matters.
LEMMA NotSettling ==
  ASSUME IInv, NEW r \in Runner, NEW s \in RunnerState,
         runner' = [runner EXCEPT ![r] = s],
         UNCHANGED <<connected, overtaken>>,
         s.merged = runner[r].merged, s.pc \notin Settling
  PROVE  Reached(r)'
<1>1. runner'[r] = s  BY Unmoved
<1> QED  BY <1>1 DEF IInv, Reached, At, Settling

LEMMA ReflectStep ==
  ASSUME IInv, NEW r \in Runner, Reflect(r)
  PROVE  IInv'
<1> DEFINE old == IF shape[Models[1]] = "none" THEN {}
                  ELSE {t \in Tables : shape[t] = "dated"}
<1>1. runner[r] \in RunnerState /\ runner[r].pc = "reflect"
      /\ UNCHANGED <<database, lock, overtaken, torn>>
  BY DEF Reflect, At, IInv, Types
<1>2. old \subseteq Tables /\ parked \subseteq Tables
  BY DEF IInv, Types, Database
<1>3. PICK s \in RunnerState :
        /\ runner' = [runner EXCEPT ![r] = s]
        /\ s.pc = "check" /\ s.old = old /\ s.done = 0
        /\ s.merged = runner[r].merged
  <2> DEFINE s == [runner[r] EXCEPT !.pc = "check", !.old = old, !.done = 0,
                                    !.existing = parked, !.errored = FALSE]
  <2>1. runner' = [runner EXCEPT ![r] = s]  BY DEF Reflect
  <2> HIDE DEF old
  <2>2. s \in RunnerState
    <3>1. 0 \in 0 .. Len(Models) /\ "check" \in Pc  BY Bounds DEF Pc
    <3> QED  BY <1>1, <1>2, <3>1 DEF RunnerState
  <2>3. s.pc = "check" /\ s.old = old /\ s.done = 0 /\ s.merged = runner[r].merged
    BY <1>1 DEF RunnerState
  <2> HIDE DEF s
  <2> QED  BY <2>1, <2>2, <2>3
<1>4. runner'[r] = s  BY <1>3, Unmoved
<1>5. ASSUME NEW t \in Tables, Passed(r, t)'  PROVE Saved(t)'
  <2>1. PICK i \in 1 .. Len(Models) : t = Models[i]  BY DEF Tables
  <2>2. i > 0  BY Bounds
  <2>3. t \notin old
    BY <1>3, <1>4, <1>5, <2>1, <2>2 DEF Passed, Left
  <2>4. Dangling(t) = {}
    <3>1. shape[t] = "none" \/ shape[t] # "dated"
      BY <2>3 DEF IInv, Rows, NoTables
    <3> QED  BY <3>1 DEF IInv, Rows, Dangling, In
  <2>5. Dangling(t)' = Dangling(t)  BY <1>1 DEF database, Dangling, In
  <2> QED  BY <2>4, <2>5 DEF Saved
<1>6. Checked(r)'  BY <1>5 DEF Checked
<1>7. Reached(r)'
  BY <1>1, <1>3, NotSettling DEF database, settled, Settling
<1>8. Local(s) /\ s.pc \notin InLock /\ runner[r].pc \notin InLock
  BY <1>1, <1>3 DEF Local, Dropping, InLock
<1> QED  BY <1>1, <1>3, <1>6, <1>7, <1>8, OutsideStep

\* The tables left after the next one.
LEMMA NextLeft ==
  ASSUME NEW r \in Runner, NEW i \in 1 .. Len(Models), Checking(r, i),
         runner'[r].done = i, runner'[r].old = runner[r].old,
         NEW t \in Tables, t \notin {Models[j] : j \in Left(r)'}
  PROVE  t = Models[i] \/ t \notin {Models[j] : j \in Left(r)}
<1> SUFFICES ASSUME NEW j \in Left(r), t = Models[j], j # i  PROVE FALSE
  OBVIOUS
<1>1. j \in 1 .. Len(Models) /\ i <= j /\ Models[j] \in runner[r].old
  BY DEF Checking, Left
<1>2. j > i  BY <1>1, Bounds
<1>3. j \in Left(r)'  BY <1>1, <1>2 DEF Left
<1> QED  BY <1>3

LEMMA AlreadyMovedStep ==
  ASSUME IInv, NEW r \in Runner, NEW i \in 1 .. Len(Models), AlreadyMoved(r, i)
  PROVE  IInv'
<1>1. runner[r] \in RunnerState /\ runner[r].pc = "check" /\ Checking(r, i)
      /\ UNCHANGED <<database, lock, overtaken, torn>>
  BY DEF AlreadyMoved, Checking, At, IInv, Types
<1>2. PICK s \in RunnerState :
        /\ runner' = [runner EXCEPT ![r] = s]
        /\ s.pc = "check" /\ s.old = runner[r].old /\ s.done = i
        /\ s.errored = (runner[r].errored \/ Dangling(Models[i]) # {})
        /\ s.merged = runner[r].merged
  <2> DEFINE err == runner[r].errored \/ Dangling(Models[i]) # {}
             s == [runner[r] EXCEPT !.done = i, !.errored = err]
  <2>1. runner' = [runner EXCEPT ![r] = s]  BY DEF AlreadyMoved
  <2>2. err \in BOOLEAN  BY <1>1 DEF RunnerState
  <2> HIDE DEF err
  <2>3. i \in 0 .. Len(Models)  BY Bounds
  <2>4. s \in RunnerState  BY <1>1, <2>2, <2>3 DEF RunnerState
  <2>5. s.pc = "check" /\ s.old = runner[r].old /\ s.done = i /\ s.errored = err
        /\ s.merged = runner[r].merged
    BY <1>1 DEF RunnerState
  <2> HIDE DEF s
  <2> QED  BY <2>1, <2>4, <2>5 DEF err
<1>3. runner'[r] = s  BY <1>2, Unmoved
<1>4. \A t : Dangling(t)' = Dangling(t) /\ Saved(t)' = Saved(t)
  BY <1>1 DEF database, Dangling, In, Saved
<1>5. ASSUME NEW t \in Tables, Passed(r, t)'  PROVE Saved(t) \/ s.errored
  <2>1. t \notin {Models[j] : j \in Left(r)'}  BY <1>2, <1>3, <1>5 DEF Passed
  <2>2. t = Models[i] \/ t \notin {Models[j] : j \in Left(r)}
    BY <1>1, <1>2, <1>3, <2>1, NextLeft
  <2>3. CASE t = Models[i]  BY <1>2, <2>3 DEF Saved
  <2>4. CASE t \notin {Models[j] : j \in Left(r)}
    BY <1>1, <1>2, <2>4 DEF IInv, Checked, Passed
  <2> QED  BY <2>2, <2>3, <2>4
<1>6. Checked(r)'  BY <1>2, <1>3, <1>4, <1>5 DEF Checked
<1>7. Reached(r)'
  BY <1>1, <1>2, NotSettling DEF database, settled, Settling
<1>8. Local(s) /\ s.pc \notin InLock /\ runner[r].pc \notin InLock
  BY <1>1, <1>2 DEF Local, Dropping, InLock
<1> QED  BY <1>1, <1>2, <1>6, <1>7, <1>8, OutsideStep

LEMMA ChecksEndStep ==
  ASSUME IInv, NEW r \in Runner, ChecksEnd(r)
  PROVE  IInv'
<1>1. CASE runner[r].errored  BY <1>1, FailsStep DEF ChecksEnd, At
<1>2. CASE ~runner[r].errored
  <2>1. /\ runner[r] \in RunnerState /\ runner[r].pc = "check" /\ Left(r) = {}
        /\ Begin(r, "revision") /\ UNCHANGED <<database, lock, overtaken, torn>>
    BY <1>2 DEF ChecksEnd, At, IInv, Types
  <2>2. PICK s \in RunnerState :
          /\ runner' = [runner EXCEPT ![r] = s]
          /\ s.pc = "revision" /\ s.merged = runner[r].merged
    <3> DEFINE s == [Idle EXCEPT !.pc = "revision", !.load = runner[r].load,
                                 !.merged = runner[r].merged]
    <3>1. runner' = [runner EXCEPT ![r] = s]  BY <2>1 DEF Begin
    <3>0. "revision" \in Pc  BY DEF Pc
    <3>2. s \in RunnerState  BY <2>1, <3>0, IdleState DEF RunnerState
    <3>3. s.pc = "revision" /\ s.merged = runner[r].merged
      BY IdleState DEF RunnerState
    <3> HIDE DEF s
    <3> QED  BY <3>1, <3>2, <3>3
  <2>3. \A t \in Tables : Saved(t)
    BY <1>2, <2>1 DEF IInv, Checked, Passed
  <2>4. \A t \in Tables : Saved(t)'
    BY <2>1, <2>3 DEF database, Saved, Dangling, In
  <2>5. Checked(r)'  BY <2>4 DEF Checked
  <2>6. Reached(r)'
    BY <2>1, <2>2, NotSettling DEF database, settled, Settling
  <2>7. Local(s) /\ s.pc \notin InLock /\ runner[r].pc \notin InLock
    BY <2>1, <2>2 DEF Local, Dropping, InLock
  <2> QED  BY <2>1, <2>2, <2>5, <2>6, <2>7, OutsideStep
<1> QED  BY <1>1, <1>2

LEMMA ReadRevisionStep ==
  ASSUME IInv, NEW r \in Runner, ReadRevision(r)
  PROVE  IInv'
<1>1. /\ runner[r] \in RunnerState /\ runner[r].pc = "revision"
      /\ UNCHANGED <<database, lock, overtaken, torn>>
  BY DEF ReadRevision, At, IInv, Types
<1>2. \E pc \in {"init", "upgradeLock"} : pc \in Pc /\ Goto(r, pc)
  BY DEF ReadRevision, Pc
<1>3. PICK s \in RunnerState :
        /\ runner' = [runner EXCEPT ![r] = s]
        /\ s.pc \in {"init", "upgradeLock"} /\ s.merged = runner[r].merged
  BY <1>2, GotoState
<1>4. \A t \in Tables : Saved(t)  BY <1>1 DEF IInv, Checked, Passed
<1>5. \A t \in Tables : Saved(t)'
  BY <1>1, <1>4 DEF database, Saved, Dangling, In
<1>6. Checked(r)'  BY <1>5 DEF Checked
<1>7. Reached(r)'
  BY <1>1, <1>3, NotSettling DEF database, settled, Settling
<1>8. Local(s) /\ s.pc \notin InLock /\ runner[r].pc \notin InLock
  BY <1>1, <1>3 DEF Local, Dropping, InLock
<1> QED  BY <1>1, <1>3, <1>6, <1>7, <1>8, OutsideStep

LEMMA InitDbStep ==
  ASSUME IInv, NEW r \in Runner, InitDb(r)
  PROVE  IInv'
<1>1. /\ runner[r] \in RunnerState /\ runner[r].pc = "init"
      /\ UNCHANGED <<database, lock, overtaken, torn>>
  BY DEF InitDb, At, IInv, Types
<1>2. PICK s \in RunnerState :
        /\ runner' = [runner EXCEPT ![r] = s]
        /\ s.pc \in {"initLock", "reflect"} /\ s.merged = runner[r].merged
        /\ s.pc = "initLock" => s.fresh
  <2>1. CASE revision = None
    <3> DEFINE s == [runner[r] EXCEPT !.pc = "initLock", !.fresh = TRUE]
    <3>1. runner' = [runner EXCEPT ![r] = s]  BY <2>1 DEF InitDb
    <3>2. s \in RunnerState  BY <1>1 DEF RunnerState, Pc
    <3>3. s.pc = "initLock" /\ s.merged = runner[r].merged /\ s.fresh
      BY <1>1 DEF RunnerState
    <3> HIDE DEF s
    <3> QED  BY <3>1, <3>2, <3>3
  <2>2. CASE revision # None
    <3>1. "reflect" \in Pc /\ Goto(r, "reflect")  BY <2>2 DEF InitDb, Pc
    <3> QED  BY <3>1, GotoState
  <2> QED  BY <2>1, <2>2
<1>3. runner'[r] = s  BY <1>2, Unmoved
<1>4. Checked(r)'  BY <1>2, <1>3, NotPassing
<1>5. Reached(r)'
  BY <1>1, <1>2, NotSettling DEF database, settled, Settling
<1>6. Local(s) /\ s.pc \notin InLock /\ runner[r].pc \notin InLock
  BY <1>1, <1>2 DEF Local, Dropping, InLock
<1> QED  BY <1>1, <1>2, <1>4, <1>5, <1>6, OutsideStep

\* Of the settling calls, those that only read.
LEMMA ReadConnectionStep ==
  ASSUME IInv, NEW r \in Runner, ReadConnection(r)
  PROVE  IInv'
<1>1. /\ runner[r] \in RunnerState /\ runner[r].pc = "connections"
      /\ runner[r].merged < Connections /\ runner[r].merged \in Nat
      /\ UNCHANGED <<database, lock, overtaken, torn>>
  BY Bounds DEF ReadConnection, Merging, At, IInv, Types, RunnerState
<1>2. PICK s \in RunnerState :
        /\ runner' = [runner EXCEPT ![r] = s]
        /\ \/ s.pc = "merge" /\ s.merged = runner[r].merged
           \/ /\ s.pc = "connections" /\ s.merged = runner[r].merged + 1
              /\ runner[r].merged + 1 \in connected
  <2>1. CASE runner[r].merged + 1 \in connected
    <3> DEFINE s == [runner[r] EXCEPT !.pc = "connections", !.merged = @ + 1]
    <3>1. runner' = [runner EXCEPT ![r] = s]  BY <2>1 DEF ReadConnection, Merged
    <3>2. runner[r].merged + 1 \in 0 .. Connections  BY <1>1, Bounds
    <3>3. s \in RunnerState  BY <1>1, <3>2 DEF RunnerState, Pc
    <3>4. s.pc = "connections" /\ s.merged = runner[r].merged + 1
      BY <1>1 DEF RunnerState
    <3> HIDE DEF s
    <3> QED  BY <2>1, <3>1, <3>3, <3>4
  <2>2. CASE runner[r].merged + 1 \notin connected
    <3>1. "merge" \in Pc /\ Goto(r, "merge")  BY <2>2 DEF ReadConnection, Pc
    <3> QED  BY <3>1, GotoState
  <2> QED  BY <2>1, <2>2
<1>3. runner'[r] = s /\ \A q \in Runner \ {r} : runner'[q] = runner[q]
  BY <1>2, Unmoved
<1>4. Checked(r)'  BY <1>2, <1>3, NotPassing
<1>5. Reached(r)'
  <2>1. r \notin overtaken => 1 .. runner[r].merged \subseteq connected /\ Settled
    BY <1>1 DEF IInv, Reached, Settling
  <2>2. r \notin overtaken => 1 .. s.merged \subseteq connected
    BY <1>1, <1>2, <2>1
  <2>3. Settled' <=> Settled  BY <1>1 DEF database, tables, Settled, Missing
  <2> QED
    BY <1>1, <1>2, <1>3, <2>1, <2>2, <2>3 DEF database, settled, Reached, At
<1>6. Local(s) /\ s.pc \notin InLock /\ runner[r].pc \notin InLock
  BY <1>1, <1>2 DEF Local, Dropping, InLock
<1> QED  BY <1>1, <1>2, <1>4, <1>5, <1>6, OutsideStep

LEMMA ReadPoolStep ==
  ASSUME IInv, NEW r \in Runner, ReadPool(r)
  PROVE  IInv'
<1>1. /\ runner[r] \in RunnerState /\ runner[r].pc \in {"pool", "connections"}
      /\ UNCHANGED <<database, lock, overtaken, torn>>
  BY DEF ReadPool, AtPool, At, IInv, Types
<1>2. PICK s \in RunnerState :
        /\ runner' = [runner EXCEPT ![r] = s] /\ s.merged = runner[r].merged
        /\ s.pc = IF pool THEN "template" ELSE "insert"
  <2>1. /\ (IF pool THEN "template" ELSE "insert") \in Pc
        /\ Goto(r, IF pool THEN "template" ELSE "insert")
    BY DEF ReadPool, Pc
  <2> QED  BY <2>1, GotoState
<1>3. runner'[r] = s /\ \A q \in Runner \ {r} : runner'[q] = runner[q]
  BY <1>2, Unmoved
<1>4. Checked(r)'  BY <1>2, <1>3, NotPassing
<1>5. Reached(r)'
  <2>1. r \notin overtaken => 1 .. runner[r].merged \subseteq connected /\ Settled
    BY <1>1 DEF IInv, Reached, Settling
  <2>2. Settled' <=> Settled  BY <1>1 DEF database, tables, Settled, Missing
  <2> QED
    BY <1>1, <1>2, <1>3, <2>1, <2>2 DEF database, settled, Reached, At
<1>6. Local(s) /\ s.pc \notin InLock /\ runner[r].pc \notin InLock
  BY <1>1, <1>2 DEF Local, Dropping, InLock
<1> QED  BY <1>1, <1>2, <1>4, <1>5, <1>6, OutsideStep

-----------------------------------------------------------------------------
(* Steps that change the database.                                         *)

LEMMA SavedMore ==
  ASSUME source' \subseteq source, orphan' \subseteq orphan, moved \subseteq moved',
         excused \subseteq excused'
  PROVE  \A t : Saved(t) => Saved(t)'
<1> QED  BY DEF Saved, Dangling, In

\* The holder of the lock goes on inside the locked block.
LEMMA HolderStep ==
  ASSUME IInv, NEW r \in Runner, NEW s \in RunnerState,
         runner' = [runner EXCEPT ![r] = s],
         runner[r].pc \in InLock, s.pc \in InLock, lock' = lock,
         source' \subseteq source, orphan' \subseteq orphan, excused \subseteq excused',
         moved \subseteq moved' \/ source' = {},
         Database', Rows', Whole', Local(s), Held(s)', Checked(r)', Reached(r)',
         \A q \in Runner \ {r} : Reached(q)'
  PROVE  IInv'
<1>1. lock = r /\ \A q \in Runner \ {r} : runner[q].pc \notin InLock
  BY DEF IInv, Types
<1>2. /\ \A q \in Runner \ {r} : runner'[q] = runner[q]
      /\ \A q \in Runner \ {r} : \A t : Passed(q, t)' <=> Passed(q, t)
  BY Unmoved
<1>3. \A t : Saved(t) => Saved(t)'
  <2>1. CASE source' = {}  BY <2>1 DEF Saved, Dangling, In
  <2> QED  BY <2>1, SavedMore
<1>4. ASSUME NEW q \in Runner \ {r}
      PROVE  Held(runner[q])' /\ Checked(q)' /\ Reached(q)'
  <2>1. Held(runner[q])'  BY <1>1, <1>2 DEF Held, InLock, Dropping
  <2>2. Checked(q)'  BY <1>2, <1>3 DEF IInv, Checked
  <2> QED  BY <2>1, <2>2
<1>5. lock' \in Runner \cup {Free, Ghost}  BY DEF IInv, Types
<1> QED  BY <1>1, <1>4, <1>5, Step

\* What a downgrade or a reset does to the others.
LEMMA OvertakenReached ==
  ASSUME IInv, NEW r \in Runner, NEW s \in RunnerState,
         runner' = [runner EXCEPT ![r] = s], Overtake(r), NEW q \in Runner \ {r}
  PROVE  Reached(q)'
<1>1. runner'[q] = runner[q]  BY Unmoved
<1>2. q \notin overtaken' => runner[q].pc = "idle" /\ runner[q].merged = 0
  BY DEF Overtake, At, IInv, Local
<1>3. 1 .. 0 = {}  OBVIOUS
<1> QED  BY <1>1, <1>2, <1>3 DEF Reached, At, Settling

\* A migration either leaves a table alone or takes it from the shape the one
\* revision gives it to that of the other.
LEMMA Migrated ==
  ASSUME IInv, NEW r \in Runner, NEW to \in 0 .. Latest, Migrate(r, to),
         runner[r].from = revision, to # None
  PROVE  /\ shape' \in [Tables -> Shapes] /\ others' \subseteq Others /\ revision' = to
         /\ \A t \in Tables :
              \/ shape'[t] = shape[t] /\ ShapeAt(t, revision) = ShapeAt(t, to)
              \/ shape[t] = ShapeAt(t, revision) /\ shape'[t] = ShapeAt(t, to)
         /\ \A o \in OthersAt(to) \ others' : o \in OthersAt(revision) \ others
         /\ shape'[Models[1]] = "none" => NoTables'
         /\ Missing(revision)' => Missing(revision)
<1>1. /\ shape \in [Tables -> Shapes] /\ others \subseteq Others /\ revision \in 0 .. Latest
      /\ shape[Models[1]] = "none" => NoTables
  BY DEF IInv, Types, Database, Rows
<1>2. /\ Applies(revision, to) /\ revision' = to
      /\ shape' = [t \in Tables |-> IF t \in Altered(revision, to) THEN ShapeAt(t, to)
                                                                  ELSE shape[t]]
      /\ others' = (others \ OthersAt(revision)) \cup (others \cap OthersAt(to))
                      \cup (OthersAt(to) \ OthersAt(revision))
  BY DEF Migrate
<1>3. shape' \in [Tables -> Shapes]
  <2>1. \A t \in Tables : ShapeAt(t, to) \in Shapes  BY ShapeBounds
  <2> QED  BY <1>1, <1>2, <2>1
<1>4. others' \subseteq Others  BY <1>1, <1>2, OthersBounds
<1>5. ASSUME NEW t \in Tables
      PROVE  \/ shape'[t] = shape[t] /\ ShapeAt(t, revision) = ShapeAt(t, to)
             \/ shape[t] = ShapeAt(t, revision) /\ shape'[t] = ShapeAt(t, to)
  <2>1. CASE t \in Altered(revision, to)  BY <1>2, <2>1 DEF Applies
  <2>2. CASE t \notin Altered(revision, to)  BY <1>2, <2>2 DEF Altered
  <2> QED  BY <2>1, <2>2
<1>6. \A o \in OthersAt(to) \ others' : o \in OthersAt(revision) \ others  BY <1>2
<1>7. \A t \in Tables : ShapeAt(t, to) # "none" /\ (ShapeAt(t, revision) = "none" <=> revision = None)
  BY <1>1, ShapeBounds
<1>8. ASSUME NEW t \in Tables, shape'[t] = "none"
      PROVE  shape[t] = "none" /\ revision # None
  BY <1>5, <1>7, <1>8
<1>9. shape'[Models[1]] = "none" => NoTables'
  <2> SUFFICES ASSUME shape'[Models[1]] = "none", NEW t \in Tables  PROVE shape'[t] = "none"
    BY DEF NoTables
  <2>1. shape[Models[1]] = "none" /\ revision # None  BY <1>8, Bounds
  <2>2. shape[t] = "none"  BY <1>1, <2>1 DEF NoTables
  <2> QED  BY <1>5, <1>7, <2>1, <2>2
<1>10. Missing(revision)' => Missing(revision)
  <2> SUFFICES ASSUME Missing(revision)'  PROVE Missing(revision)
    OBVIOUS
  <2>1. (\E o \in OthersAt(to) : o \notin others') \/ \E t \in Tables : shape'[t] = "none"
    BY <1>2 DEF Missing
  <2>2. ASSUME NEW o \in OthersAt(to), o \notin others'  PROVE Missing(revision)
    <3>1. o \in OthersAt(revision) /\ o \notin others  BY <1>6, <2>2
    <3>2. revision # None  BY <3>1, OthersBounds
    <3> QED  BY <3>1, <3>2 DEF Missing
  <2>3. ASSUME NEW t \in Tables, shape'[t] = "none"  PROVE Missing(revision)
    BY <1>8, <2>3 DEF Missing
  <2> QED  BY <2>1, <2>2, <2>3
<1> QED  BY <1>2, <1>3, <1>4, <1>5, <1>6, <1>9, <1>10

LEMMA DowngradeStep ==
  ASSUME IInv, NEW r \in Runner, Downgrade(r)
  PROVE  IInv'
<1> DEFINE dropped == IF runner[r].from = MapIndexAt THEN source \cap Mapped ELSE {}
           to == runner[r].from - 1
<1>1. /\ runner[r] \in RunnerState /\ runner[r].pc = "downgrade"
      /\ runner[r].from > runner[r].down /\ runner[r].down # None
      /\ runner[r].from = revision /\ revision \in 0 .. Latest
      /\ Migrate(r, to)
      /\ source' = source \ dropped /\ excused' = excused \cup dropped
      /\ template' = (template /\ runner[r].from # MapIndexAt) /\ Overtake(r)
      /\ UNCHANGED <<parked, moved, orphan, pool, connected, torn, lock>>
  BY DEF Downgrade, At, IInv, Types, Database, Local, Held
<1>2. to \in 0 .. Latest /\ to # None /\ revision \in Nat /\ revision = to + 1
  BY <1>1, Bounds DEF RunnerState, None
<1>3. dropped \subseteq source  OBVIOUS
<1> HIDE DEF dropped, to
<1>4. PICK s \in RunnerState :
        /\ runner' = [runner EXCEPT ![r] = s]
        /\ s.pc = "downgrade" /\ s.from = to
        /\ s.down = runner[r].down /\ s.merged = runner[r].merged
  <2> DEFINE s == [runner[r] EXCEPT !.from = to]
  <2>1. runner' = [runner EXCEPT ![r] = s]  BY <1>1 DEF Migrate
  <2>2. s \in RunnerState  BY <1>1, <1>2 DEF RunnerState
  <2>3. /\ s.pc = "downgrade" /\ s.from = to
        /\ s.down = runner[r].down /\ s.merged = runner[r].merged
    BY <1>1 DEF RunnerState
  <2> HIDE DEF s
  <2> QED  BY <2>1, <2>2, <2>3
<1>5. runner'[r] = s  BY <1>4, Unmoved
<1>6. /\ shape' \in [Tables -> Shapes] /\ others' \subseteq Others /\ revision' = to
      /\ \A t \in Tables :
           \/ shape'[t] = shape[t] /\ ShapeAt(t, revision) = ShapeAt(t, to)
           \/ shape[t] = ShapeAt(t, revision) /\ shape'[t] = ShapeAt(t, to)
      /\ shape'[Models[1]] = "none" => NoTables'
      /\ Missing(revision)' => Missing(revision)
  BY <1>1, <1>2, Migrated
<1>7. Database'
  <2>1. source' \subseteq Row /\ excused' \subseteq Row
    BY <1>1, <1>3 DEF IInv, Types, Database
  <2>2. overtaken' \subseteq Runner /\ template' \in BOOLEAN
    BY <1>1 DEF IInv, Types, Database, Overtake
  <2> QED  BY <1>1, <1>2, <1>6, <2>1, <2>2 DEF IInv, Types, Database
<1>8. Rows'
  <2>1. ASSUME NEW x \in source'
        PROVE  /\ shape'[TableOf[x]] # "none"
               /\ x \in orphan' => shape'[TableOf[x]] = "dated"
    <3>1. /\ x \in Row /\ shape[TableOf[x]] # "none"
          /\ x \in orphan => shape[TableOf[x]] = "dated"
      BY <1>1, <2>1 DEF IInv, Rows, Types, Database
    <3>2. TableOf[x] \in Tables /\ RunIdAt[TableOf[x]] \in Nat  BY <3>1, Bounds
    <3>3. ShapeAt(TableOf[x], to) # "none"  BY <1>2, <3>2, ShapeBounds
    <3>4. ShapeAt(TableOf[x], revision) = "dated" => ShapeAt(TableOf[x], to) = "dated"
      BY <1>1, <1>2, <3>2, ShapeBounds
    <3> QED  BY <1>1, <1>6, <3>1, <3>2, <3>3, <3>4
  <2>2. \A x \in moved' : TableOf[x] \in parked'  BY <1>1 DEF IInv, Rows
  <2> QED  BY <1>6, <2>1, <2>2 DEF Rows
<1>9. Whole'
  <2>1. \A q \in Runner : runner[q].pc # "drop"  BY <1>1, Alone DEF InLock
  <2> QED  BY <1>1, <1>6, <2>1 DEF IInv, Whole
<1>10. Local(s)  BY <1>1, <1>4 DEF Local, Dropping
<1>11. Held(s)'  BY <1>4, <1>6 DEF Held, Dropping
<1>12. Checked(r)'  BY <1>4, <1>5, NotPassing
<1>13. Reached(r)'
  BY <1>1, <1>4, <1>5 DEF IInv, Reached, At, Settling, Overtake
<1>14. \A q \in Runner \ {r} : Reached(q)'  BY <1>1, <1>4, OvertakenReached
<1> QED
  BY <1>1, <1>4, <1>7, <1>8, <1>9, <1>10, <1>11, <1>12, <1>13, <1>14, HolderStep DEF InLock

\* A DROP of a reset: it makes up for nothing, and overtakes everybody.
LEMMA DropStep ==
  ASSUME IInv, NEW r \in Runner, runner[r].pc = "drop",
         UNCHANGED <<revision, runner, lock, torn, parked, moved>>, Overtake(r),
         source' \subseteq source, orphan' \subseteq orphan, excused \subseteq excused',
         Database', Rows'
  PROVE  IInv'
<1>1. runner[r] \in RunnerState /\ runner' = [runner EXCEPT ![r] = runner[r]]
      /\ runner'[r] = runner[r]
  BY DEF IInv, Types
<1>2. Local(runner[r]) /\ ~runner[r].load /\ runner[r].merged = 0  BY DEF IInv, Local
<1>3. Whole'  BY DEF Whole
<1>4. Held(runner[r])'  BY DEF Held, Dropping
<1>5. Checked(r)'  BY NotPassing
<1>6. Reached(r)'
  <2>1. 1 .. 0 = {}  OBVIOUS
  <2> QED  BY <1>1, <1>2, <2>1 DEF Reached, At, Settling
<1>7. \A q \in Runner \ {r} : Reached(q)'  BY <1>1, OvertakenReached
<1>8. runner[r].pc \in InLock  BY DEF InLock
<1> QED  BY <1>1, <1>2, <1>3, <1>4, <1>5, <1>6, <1>7, <1>8, HolderStep DEF Held, AllTables

LEMMA DropModelStep ==
  ASSUME IInv, NEW r \in Runner, NEW t \in Tables, DropModel(r, t)
  PROVE  IInv'
<1>1. /\ runner[r].pc = "drop" /\ shape[t] # "none"
      /\ t = Models[1] => \A u \in Tables \ {t} : shape[u] = "none"
      /\ shape' = [shape EXCEPT ![t] = "none"]
      /\ source' = source \ In(t) /\ orphan' = orphan \ In(t)
      /\ excused' = excused \cup In(t) /\ Overtake(r)
      /\ UNCHANGED <<revision, others, parked, moved, lock, runner, torn>>
      /\ UNCHANGED <<pool, template, connected>>
  BY DEF DropModel, At, settled
<1>2. shape \in [Tables -> Shapes] /\ In(t) \subseteq source  BY DEF IInv, Types, Database, In
<1>3. shape'[t] = "none" /\ \A u \in Tables \ {t} : shape'[u] = shape[u]  BY <1>1, <1>2
<1>4. Database'
  <2>1. shape' \in [Tables -> Shapes]
    <3>1. "none" \in Shapes  BY DEF Shapes
    <3> QED  BY <1>1, <1>2, <3>1
  <2>2. overtaken' \subseteq Runner  BY <1>1 DEF IInv, Types, Database, Overtake
  <2> QED  BY <1>1, <1>2, <2>1, <2>2 DEF IInv, Types, Database
<1>5. Rows'
  <2>1. shape'[Models[1]] = "none" => NoTables'
    <3>1. CASE t = Models[1]  BY <1>1, <1>3, <3>1 DEF NoTables
    <3>2. CASE t # Models[1]
      <4>1. shape[Models[1]] # "none"  BY <1>1 DEF IInv, Rows, NoTables
      <4> QED  BY <1>3, <3>2, <4>1, Bounds
    <3> QED  BY <3>1, <3>2
  <2>2. ASSUME NEW x \in source'
        PROVE  /\ shape'[TableOf[x]] # "none"
               /\ x \in orphan' => shape'[TableOf[x]] = "dated"
    <3>1. x \in source /\ TableOf[x] # t  BY <1>1, <2>2 DEF In
    <3>2. /\ TableOf[x] \in Tables /\ shape[TableOf[x]] # "none"
          /\ x \in orphan => shape[TableOf[x]] = "dated"
      BY <3>1, Bounds DEF IInv, Rows, Types, Database
    <3> QED  BY <1>1, <1>3, <3>1, <3>2
  <2>3. \A x \in moved' : TableOf[x] \in parked'  BY <1>1 DEF IInv, Rows
  <2> QED  BY <2>1, <2>2, <2>3 DEF Rows
<1> QED  BY <1>1, <1>4, <1>5, DropStep

LEMMA DropOtherStep ==
  ASSUME IInv, NEW r \in Runner, NEW o \in Others, DropOther(r, o)
  PROVE  IInv'
<1>1. /\ runner[r].pc = "drop" /\ others' = others \ {o}
      /\ pool' = (pool /\ o # "slot_pool") /\ template' = (template /\ o # "log_template")
      /\ connected' = (IF o = "connection" THEN {} ELSE connected) /\ Overtake(r)
      /\ UNCHANGED <<revision, shape, source, parked, moved, orphan, excused, lock, runner,
                     torn>>
  BY DEF DropOther, At
<1>2. Database'
  <2>1. pool' \in BOOLEAN /\ template' \in BOOLEAN  BY <1>1 DEF IInv, Types, Database
  <2>2. overtaken' \subseteq Runner /\ connected' \subseteq 1 .. Connections
    BY <1>1 DEF IInv, Types, Database, Overtake
  <2> QED  BY <1>1, <2>1, <2>2 DEF IInv, Types, Database
<1>3. Rows'  BY <1>1 DEF IInv, Rows, NoTables
<1> QED  BY <1>1, <1>2, <1>3, DropStep

LEMMA DropRestStep ==
  ASSUME IInv, NEW r \in Runner, DropStamp(r) \/ DropMovedTables(r)
  PROVE  IInv'
<1>1. /\ runner[r].pc \in {"drop", "dropMoved"} /\ source = {}
      /\ ~runner[r].load /\ runner[r].merged = 0
      /\ UNCHANGED <<shape, others, source, orphan, excused, lock>>
      /\ UNCHANGED <<pool, template, connected>>
  <2>1. CASE DropStamp(r)
    <3>1. At(r, "drop") /\ NoTables  BY <2>1 DEF DropStamp
    <3>2. source = {}
      <4>1. \A x \in source : TableOf[x] \in Tables /\ shape[TableOf[x]] # "none"
        BY Bounds DEF IInv, Rows, Types, Database
      <4> QED  BY <3>1, <4>1 DEF NoTables
    <3> QED  BY <2>1, <3>1, <3>2 DEF DropStamp, At, IInv, Local, tables, settled
  <2>2. CASE DropMovedTables(r)
    BY <2>2 DEF DropMovedTables, At, IInv, Local, Held, Dropping, tables, settled
  <2> QED  BY <2>1, <2>2
<1>2. \/ /\ revision' = None /\ torn' = FALSE /\ Overtake(r)
         /\ parked' = parked /\ moved' = moved
      \/ /\ runner[r].pc = "dropMoved" /\ UNCHANGED <<revision, torn, overtaken>>
         /\ parked' = {} /\ moved' = {}
  BY DEF DropStamp, DropMovedTables, At
<1>3. PICK s \in RunnerState :
        /\ runner' = [runner EXCEPT ![r] = s]
        /\ s.pc \in Dropping /\ ~s.load /\ s.merged = 0
  <2>1. "dropMoved" \in Pc /\ "dropped" \in Pc  BY DEF Pc
  <2>2. Goto(r, "dropMoved") \/ Goto(r, "dropped")
    BY DEF DropStamp, DropMovedTables
  <2> QED  BY <1>1, <2>1, <2>2, GotoState DEF Dropping
<1>4. runner'[r] = s /\ \A q \in Runner \ {r} : runner'[q] = runner[q]
  BY <1>3, Unmoved
<1>5. Database'
  <2>1. None \in 0 .. Latest  BY Bounds DEF None
  <2>2. revision' \in 0 .. Latest /\ torn' \in BOOLEAN
    BY <1>2, <2>1 DEF IInv, Types, Database
  <2>3. parked' \subseteq Tables /\ moved' \subseteq Row /\ overtaken' \subseteq Runner
    BY <1>2 DEF IInv, Types, Database, Overtake
  <2> QED  BY <1>1, <2>2, <2>3 DEF IInv, Types, Database
<1>6. Rows'  BY <1>1, <1>2 DEF IInv, Rows, NoTables
<1>7. Whole'
  <2>1. CASE revision' = None  BY <2>1 DEF Whole, Missing
  <2>2. CASE runner[r].pc = "dropMoved" /\ UNCHANGED <<revision, torn>>
    <3>1. \A q \in Runner : runner[q].pc # "drop"  BY <2>2, Alone DEF InLock
    <3>2. Missing(revision)' => Missing(revision)  BY <1>1, <2>2 DEF Missing
    <3> QED  BY <2>2, <3>1, <3>2 DEF IInv, Whole
  <2> QED  BY <1>2, <2>1, <2>2
<1>8. Local(s)  BY <1>3 DEF Local, Dropping
<1>9. Held(s)'  BY <1>1, <1>3 DEF Held, Dropping
<1>10. Checked(r)'  BY <1>3, <1>4, NotPassing DEF Dropping
<1>11. Reached(r)'
  <2>1. 1 .. 0 = {}  OBVIOUS
  <2> QED  BY <1>3, <1>4, <2>1 DEF Reached, At, Settling, Dropping
<1>12. ASSUME NEW q \in Runner \ {r}  PROVE Reached(q)'
  <2>1. CASE Overtake(r)  BY <1>3, <2>1, OvertakenReached
  <2>2. CASE UNCHANGED <<revision, torn, overtaken>>
    <3>1. Settled' <=> Settled  BY <1>1, <2>2 DEF Settled, Missing
    <3> QED  BY <1>1, <1>4, <2>2, <3>1 DEF IInv, Reached, At
  <2> QED  BY <1>2, <2>1, <2>2
<1>13. runner[r].pc \in InLock /\ s.pc \in InLock  BY <1>1, <1>3 DEF InLock, Dropping
<1>14. /\ lock' = lock /\ source' = {} /\ source' \subseteq source
       /\ orphan' \subseteq orphan /\ excused \subseteq excused'
  BY <1>1
<1> QED
  BY <1>3, <1>5, <1>6, <1>7, <1>8, <1>9, <1>10, <1>11, <1>12, <1>13, <1>14, HolderStep

LEMMA CreateAllStep ==
  ASSUME IInv, NEW r \in Runner, CreateAll(r)
  PROVE  IInv'
<1>1. /\ runner[r].pc = "create" /\ runner[r].fresh
      /\ shape' = [t \in Tables |-> IF shape[t] = "none" THEN ShapeAt(t, Latest) ELSE shape[t]]
      /\ others' = Others /\ Goto(r, "stamp")
      /\ UNCHANGED <<revision, source, parked, moved, orphan, excused, lock, overtaken, torn>>
      /\ UNCHANGED <<pool, template, connected>>
  BY DEF CreateAll, At, IInv, Local, settled
<1>2. PICK s \in RunnerState :
        /\ runner' = [runner EXCEPT ![r] = s]
        /\ s.pc = "stamp" /\ s.fresh /\ s.merged = runner[r].merged
  <2>1. "stamp" \in Pc  BY DEF Pc
  <2> QED  BY <1>1, <2>1, GotoState
<1>3. runner'[r] = s /\ \A q \in Runner \ {r} : runner'[q] = runner[q]
  BY <1>2, Unmoved
<1>4. \A t \in Tables : ShapeAt(t, Latest) \in Shapes /\ ShapeAt(t, Latest) # "none"
  <2>1. Latest \in 0 .. Latest /\ Latest # None  BY Bounds DEF None
  <2> QED  BY <2>1, ShapeBounds
<1>5. shape \in [Tables -> Shapes]  BY DEF IInv, Types, Database
<1>6. shape' \in [Tables -> Shapes]  BY <1>1, <1>4, <1>5
<1>7. /\ AllTables'
      /\ \A t \in Tables : shape[t] # "none" => shape'[t] = shape[t]
  BY <1>1, <1>4 DEF AllTables
<1>8. Database'  BY <1>1, <1>6 DEF IInv, Types, Database
<1>9. Rows'
  <2>1. \A x \in source : TableOf[x] \in Tables  BY Bounds DEF IInv, Types, Database
  <2> QED  BY <1>1, <1>7, <2>1, Bounds DEF IInv, Rows, AllTables
<1>10. ~Missing(revision)'
  BY <1>7, OthersBounds DEF Missing, AllTables
<1>11. Whole'  BY <1>10 DEF Whole
<1>12. Local(s)  BY <1>2 DEF Local, Dropping
<1>13. Held(s)'  BY <1>2, <1>7 DEF Held, Dropping
<1>14. Checked(r)'  BY <1>2, <1>3, NotPassing
<1>15. Reached(r)'  BY <1>1, <1>2, NotSettling DEF Settling
<1>16. ASSUME NEW q \in Runner \ {r}  PROVE Reached(q)'
  <2>1. Settled => Settled'  BY <1>1, <1>10 DEF Settled
  <2> QED  BY <1>1, <1>3, <2>1 DEF IInv, Reached, At
<1> QED
  BY <1>1, <1>2, <1>8, <1>9, <1>11, <1>12, <1>13, <1>14, <1>15, <1>16, HolderStep DEF InLock

LEMMA StampStep ==
  ASSUME IInv, NEW r \in Runner, Stamp(r)
  PROVE  IInv'
<1>1. /\ runner[r].pc = "stamp" /\ revision' = Latest /\ Goto(r, "stamped") /\ AllTables
      /\ UNCHANGED <<shape, others, source, parked, moved, orphan, excused, lock, overtaken,
                     torn>>
      /\ UNCHANGED <<pool, template, connected>>
  BY DEF Stamp, At, IInv, Held, tables, settled
<1>2. PICK s \in RunnerState :
        /\ runner' = [runner EXCEPT ![r] = s]
        /\ s.pc = "stamped" /\ s.merged = runner[r].merged
  <2>1. "stamped" \in Pc  BY DEF Pc
  <2> QED  BY <1>1, <2>1, GotoState
<1>3. runner'[r] = s /\ \A q \in Runner \ {r} : runner'[q] = runner[q]
  BY <1>2, Unmoved
<1>4. Database'
  <2>1. Latest \in 0 .. Latest  BY Bounds
  <2> QED  BY <1>1, <2>1 DEF IInv, Types, Database
<1>5. Rows'  BY <1>1 DEF IInv, Rows, NoTables
<1>6. AllTables'  BY <1>1 DEF AllTables
<1>7. ~Missing(revision)'  BY <1>6, OthersBounds DEF Missing, AllTables
<1>8. Whole'  BY <1>7 DEF Whole
<1>9. Local(s)  BY <1>2 DEF Local, Dropping
<1>10. Held(s)'  BY <1>1, <1>2, <1>6 DEF Held, Dropping
<1>11. Checked(r)'  BY <1>2, <1>3, NotPassing
<1>12. Reached(r)'  BY <1>1, <1>2, NotSettling DEF Settling
<1>13. ASSUME NEW q \in Runner \ {r}  PROVE Reached(q)'
  <2>1. Settled'  BY <1>1, <1>7 DEF Settled
  <2> QED  BY <1>1, <1>3, <2>1 DEF IInv, Reached, At
<1> QED
  BY <1>1, <1>2, <1>4, <1>5, <1>8, <1>9, <1>10, <1>11, <1>12, <1>13, HolderStep DEF InLock

LEMMA UpgradeStep ==
  ASSUME IInv, NEW r \in Runner, Upgrade(r)
  PROVE  IInv'
<1> DEFINE next == runner[r].from + 1
           refused == UNION {Dangling(t) : t \in Rekeyed(next)}
<1>1. /\ runner[r] \in RunnerState /\ runner[r].pc = "upgrade"
      /\ runner[r].from < Latest /\ runner[r].from = revision /\ revision \in 0 .. Latest
      /\ Migrate(r, next) /\ source' = source \ refused
      /\ UNCHANGED <<parked, moved, orphan, excused, lock, overtaken, torn>>
      /\ UNCHANGED <<pool, template, connected>>
  BY DEF Upgrade, At, IInv, Types, Database, Held, settled
<1>2. next \in 0 .. Latest /\ next # None /\ revision \in Nat /\ next = revision + 1
  BY <1>1, Bounds DEF RunnerState, None
<1>3. PICK s \in RunnerState :
        /\ runner' = [runner EXCEPT ![r] = s]
        /\ s.pc = "upgrade" /\ s.from = next /\ s.merged = runner[r].merged
  <2> DEFINE s == [runner[r] EXCEPT !.from = next]
  <2>1. runner' = [runner EXCEPT ![r] = s]  BY <1>1 DEF Migrate
  <2> HIDE DEF next
  <2>2. s \in RunnerState  BY <1>1, <1>2 DEF RunnerState
  <2>3. s.pc = "upgrade" /\ s.from = next /\ s.merged = runner[r].merged
    BY <1>1 DEF RunnerState
  <2> HIDE DEF s
  <2> QED  BY <2>1, <2>2, <2>3
<1> HIDE DEF next
<1>4. runner'[r] = s /\ \A q \in Runner \ {r} : runner'[q] = runner[q]
  BY <1>3, Unmoved
<1>5. /\ shape' \in [Tables -> Shapes] /\ others' \subseteq Others /\ revision' = next
      /\ \A t \in Tables :
           \/ shape'[t] = shape[t] /\ ShapeAt(t, revision) = ShapeAt(t, next)
           \/ shape[t] = ShapeAt(t, revision) /\ shape'[t] = ShapeAt(t, next)
      /\ shape'[Models[1]] = "none" => NoTables'
      /\ Missing(revision)' => Missing(revision)
  BY <1>1, <1>2, Migrated
<1>6. Database'  BY <1>1, <1>2, <1>5 DEF IInv, Types, Database
<1>7. Rows'
  <2>1. ASSUME NEW x \in source'
        PROVE  /\ shape'[TableOf[x]] # "none"
               /\ x \in orphan' => shape'[TableOf[x]] = "dated"
    <3>1. /\ x \in source /\ x \in Row /\ shape[TableOf[x]] # "none"
          /\ x \in orphan => shape[TableOf[x]] = "dated"
      BY <1>1, <2>1 DEF IInv, Rows, Types, Database
    <3>2. TableOf[x] \in Tables /\ RunIdAt[TableOf[x]] \in Nat  BY <3>1, Bounds
    <3>3. ShapeAt(TableOf[x], next) # "none"  BY <1>2, <3>2, ShapeBounds
    <3>4. x \in orphan => RunIdAt[TableOf[x]] # next
      <4>1. x \in orphan => x \in Dangling(TableOf[x])  BY <3>1 DEF Dangling, In
      <4>2. x \in orphan => TableOf[x] \notin Rekeyed(next)  BY <1>1, <2>1, <4>1
      <4> QED  BY <3>2, <4>2 DEF Rekeyed
    <3>5. x \in orphan /\ ShapeAt(TableOf[x], revision) = "dated"
            => ShapeAt(TableOf[x], next) = "dated"
      BY <1>1, <1>2, <3>2, <3>4, ShapeBounds
    <3> QED  BY <1>1, <1>5, <3>1, <3>2, <3>3, <3>5
  <2>2. \A x \in moved' : TableOf[x] \in parked'  BY <1>1 DEF IInv, Rows
  <2> QED  BY <1>5, <2>1, <2>2 DEF Rows
<1>8. Whole'
  <2>1. \A q \in Runner : runner[q].pc # "drop"  BY <1>1, Alone DEF InLock
  <2> QED  BY <1>1, <1>5, <2>1 DEF IInv, Whole
<1>9. Local(s)  BY <1>3 DEF Local, Dropping
<1>10. Held(s)'  BY <1>3, <1>5 DEF Held, Dropping
<1>11. Checked(r)'
  <2>1. \A t \in Tables : Saved(t)  BY <1>1 DEF IInv, Checked, Passed
  <2>2. \A t \in Tables : Saved(t)'  BY <1>1, <2>1, SavedMore
  <2> QED  BY <2>2 DEF Checked
<1>12. Reached(r)'  BY <1>1, <1>3, NotSettling DEF Settling
<1>13. ASSUME NEW q \in Runner \ {r}  PROVE Reached(q)'
  <2>1. ~Settled  BY <1>1, Bounds DEF Settled
  <2>2. q \notin overtaken => runner[q].pc \notin Settling
    BY <2>1 DEF IInv, Reached
  <2> QED  BY <1>1, <1>4, <2>2 DEF IInv, Reached, At, Settling
<1>14. source' \subseteq source  BY <1>1
<1> QED
  BY <1>1, <1>3, <1>6, <1>7, <1>8, <1>9, <1>10, <1>11, <1>12, <1>13, <1>14, HolderStep DEF InLock

\* A step outside the lock: neither the stamp nor the tables change.
LEMMA OutsideChange ==
  ASSUME IInv, NEW r \in Runner, NEW s \in RunnerState,
         runner' = [runner EXCEPT ![r] = s],
         runner[r].pc \notin InLock, s.pc \notin InLock,
         UNCHANGED <<revision, shape, others, orphan, excused, lock, overtaken, torn>>,
         source' \subseteq source, moved \subseteq moved',
         pool => pool', connected \subseteq connected',
         template' = template \/ template' = ("log_template" \in others),
         Database', Rows', Local(s), Checked(r)', Reached(r)'
  PROVE  IInv'
<1>1. /\ \A q \in Runner \ {r} : runner'[q] = runner[q]
      /\ \A q \in Runner \ {r} : \A t : Passed(q, t)' <=> Passed(q, t)
  BY Unmoved
<1>2. lock # r /\ lock \in Runner \cup {Free, Ghost}  BY DEF IInv, Types
<1>3. Held(s)'  BY DEF Held, InLock, Dropping
<1>4. \A t : Saved(t) => Saved(t)'  BY SavedMore
<1>5. Missing(revision)' <=> Missing(revision)  BY DEF Missing
<1>6. Whole'
  <2>1. \A p \in Runner : runner[p].pc = "drop" => runner'[p].pc = "drop"
    BY <1>1 DEF InLock
  <2> QED  BY <1>5, <2>1 DEF IInv, Whole
<1>7. Settled /\ template => template' \/ torn
  <2>1. revision = Latest /\ "log_template" \notin others => Missing(revision)
    BY OthersBounds, Bounds DEF Missing, Others, None
  <2> QED  BY <2>1 DEF Settled
<1>8. ASSUME NEW q \in Runner \ {r}
      PROVE  Held(runner[q])' /\ Checked(q)' /\ Reached(q)'
  <2>1. Held(runner[q])'
    BY <1>1 DEF IInv, Held, AllTables
  <2>2. Checked(q)'  BY <1>1, <1>4 DEF IInv, Checked
  <2>3. Settled' <=> Settled  BY <1>5 DEF Settled
  <2>4. Reached(q)'  BY <1>1, <1>7, <2>3 DEF IInv, Reached, Settling, At
  <2> QED  BY <2>1, <2>2, <2>4
<1> QED  BY <1>2, <1>3, <1>6, <1>8, Step

LEMMA CopyDanglingStep ==
  ASSUME IInv, NEW r \in Runner, NEW i \in 1 .. Len(Models), CopyDangling(r, i)
  PROVE  IInv'
<1> DEFINE t0 == Models[i]
<1>1. /\ runner[r] \in RunnerState /\ runner[r].pc = "check" /\ Checking(r, i)
      /\ parked' = parked \cup {t0} /\ moved' = moved \cup Dangling(t0)
      /\ UNCHANGED <<revision, shape, others, source, orphan, excused, lock, overtaken,
                     torn>>
      /\ UNCHANGED <<pool, template, connected>>
  BY DEF CopyDangling, Checking, At, IInv, Types, tables, settled
<1>2. t0 \in Tables  BY Bounds
<1>3. PICK s \in RunnerState :
        /\ runner' = [runner EXCEPT ![r] = s]
        /\ s.pc = "purge" /\ s.old = runner[r].old /\ s.done = i
        /\ s.errored = runner[r].errored /\ s.merged = runner[r].merged
  <2> DEFINE s == [runner[r] EXCEPT !.pc = "purge", !.done = i]
  <2>1. runner' = [runner EXCEPT ![r] = s]  BY DEF CopyDangling
  <2>2. i \in 0 .. Len(Models) /\ "purge" \in Pc  BY Bounds DEF Pc
  <2>3. s \in RunnerState  BY <1>1, <2>2 DEF RunnerState
  <2>4. /\ s.pc = "purge" /\ s.old = runner[r].old /\ s.done = i
        /\ s.errored = runner[r].errored /\ s.merged = runner[r].merged
    BY <1>1 DEF RunnerState
  <2> HIDE DEF s
  <2> QED  BY <2>1, <2>3, <2>4
<1>4. runner'[r] = s  BY <1>3, Unmoved
<1>5. Dangling(t0) \subseteq source /\ \A x \in Dangling(t0) : TableOf[x] = t0
  BY DEF Dangling, In
<1> HIDE DEF t0
<1>6. Database'  BY <1>1, <1>2, <1>5 DEF IInv, Types, Database
<1>7. Rows'  BY <1>1, <1>5 DEF IInv, Rows, NoTables
<1>8. ASSUME NEW t \in Tables, Passed(r, t)'  PROVE Saved(t)' \/ s.errored
  <2>1. t \notin {Models[j] : j \in Left(r)'}  BY <1>3, <1>4, <1>8 DEF Passed
  <2>2. t = t0 \/ t \notin {Models[j] : j \in Left(r)}
    BY <1>1, <1>3, <1>4, <2>1, NextLeft DEF t0
  <2>3. CASE t = t0  BY <1>1, <2>3 DEF Saved, Dangling, In
  <2>4. CASE t \notin {Models[j] : j \in Left(r)}
    <3>1. Saved(t) \/ runner[r].errored
      BY <1>1, <2>4 DEF IInv, Checked, Passed
    <3>2. Saved(t) => Saved(t)'  BY <1>1, SavedMore
    <3> QED  BY <1>3, <3>1, <3>2
  <2> QED  BY <2>2, <2>3, <2>4
<1>9. Checked(r)'  BY <1>3, <1>4, <1>8 DEF Checked
<1>10. Reached(r)'  BY <1>1, <1>3, NotSettling DEF Settling
<1>11. Local(s) /\ s.pc \notin InLock /\ runner[r].pc \notin InLock
  BY <1>1, <1>3 DEF Local, Dropping, InLock
<1> QED
  BY <1>1, <1>3, <1>6, <1>7, <1>9, <1>10, <1>11, OutsideChange

LEMMA PurgeStep ==
  ASSUME IInv, NEW r \in Runner, Purge(r)
  PROVE  IInv'
<1> DEFINE t0 == Models[runner[r].done]
<1>1. /\ runner[r] \in RunnerState /\ runner[r].pc = "purge" /\ Goto(r, "check")
      /\ source' = source \ Copy(t0)
      /\ parked' = IF Copy(t0) = {} THEN parked \ {t0} ELSE parked
      /\ UNCHANGED <<revision, shape, others, moved, orphan, excused, lock, overtaken, torn>>
      /\ UNCHANGED <<pool, template, connected>>
  BY DEF Purge, At, IInv, Types, tables, settled
<1> HIDE DEF t0
<1>2. PICK s \in RunnerState :
        /\ runner' = [runner EXCEPT ![r] = s]
        /\ s.pc = "check" /\ s.old = runner[r].old /\ s.done = runner[r].done
        /\ s.errored = runner[r].errored /\ s.merged = runner[r].merged
  <2>1. "check" \in Pc  BY DEF Pc
  <2> QED  BY <1>1, <2>1, GotoState
<1>3. runner'[r] = s  BY <1>2, Unmoved
<1>4. Database'  BY <1>1 DEF IInv, Types, Database
<1>5. Rows'
  <2>1. \A x \in moved : TableOf[x] \in parked'
    BY <1>1 DEF IInv, Rows, Copy
  <2> QED  BY <1>1, <2>1 DEF IInv, Rows, NoTables
<1>6. Left(r)' = Left(r)  BY <1>2, <1>3 DEF Left
<1>7. ASSUME NEW t \in Tables, Passed(r, t)'  PROVE Saved(t)' \/ s.errored
  <2>1. Passed(r, t)  BY <1>1, <1>2, <1>3, <1>6, <1>7 DEF Passed
  <2>2. Saved(t) \/ runner[r].errored  BY <2>1 DEF IInv, Checked
  <2>3. Saved(t) => Saved(t)'  BY <1>1, SavedMore
  <2> QED  BY <1>2, <2>2, <2>3
<1>8. Checked(r)'  BY <1>2, <1>3, <1>7 DEF Checked
<1>9. Reached(r)'  BY <1>1, <1>2, NotSettling DEF Settling
<1>10. Local(s) /\ s.pc \notin InLock /\ runner[r].pc \notin InLock
  BY <1>1, <1>2 DEF Local, Dropping, InLock
<1> QED
  BY <1>1, <1>2, <1>4, <1>5, <1>8, <1>9, <1>10, OutsideChange

LEMMA InsertConnectionStep ==
  ASSUME IInv, NEW r \in Runner, InsertConnection(r)
  PROVE  IInv'
<1>1. /\ runner[r] \in RunnerState /\ runner[r].pc = "merge"
      /\ runner[r].merged < Connections /\ runner[r].merged \in Nat
      /\ connected' = connected \cup {runner[r].merged + 1}
      /\ UNCHANGED <<revision, shape, others, source, parked, moved, orphan, excused>>
      /\ UNCHANGED <<pool, template, lock, overtaken, torn>>
  BY Bounds DEF InsertConnection, At, IInv, Types, RunnerState, Local, tables
<1>2. PICK s \in RunnerState :
        /\ runner' = [runner EXCEPT ![r] = s]
        /\ s.pc = "connections" /\ s.merged = runner[r].merged + 1
  <2> DEFINE s == [runner[r] EXCEPT !.pc = "connections", !.merged = @ + 1]
  <2>1. runner' = [runner EXCEPT ![r] = s]  BY DEF InsertConnection, Merged
  <2>2. runner[r].merged + 1 \in 0 .. Connections  BY <1>1, Bounds
  <2>3. s \in RunnerState  BY <1>1, <2>2 DEF RunnerState, Pc
  <2>4. s.pc = "connections" /\ s.merged = runner[r].merged + 1
    BY <1>1 DEF RunnerState
  <2> HIDE DEF s
  <2> QED  BY <2>1, <2>3, <2>4
<1>3. runner'[r] = s /\ \A q \in Runner \ {r} : runner'[q] = runner[q]
  BY <1>2, Unmoved
<1>4. Database'
  <2>1. runner[r].merged + 1 \in 1 .. Connections  BY <1>1, Bounds
  <2> QED  BY <1>1, <2>1 DEF IInv, Types, Database
<1>5. Rows'  BY <1>1 DEF IInv, Rows, NoTables
<1>6. Checked(r)'  BY <1>2, <1>3, NotPassing
<1>7. Reached(r)'
  <2>1. r \notin overtaken => 1 .. runner[r].merged \subseteq connected /\ Settled
    BY <1>1 DEF IInv, Reached, Settling
  <2>2. r \notin overtaken => 1 .. s.merged \subseteq connected'
    BY <1>1, <1>2, <2>1
  <2>3. Settled' <=> Settled  BY <1>1 DEF Settled, Missing
  <2> QED  BY <1>1, <1>2, <1>3, <2>1, <2>2, <2>3 DEF Reached, At
<1>8. Local(s) /\ s.pc \notin InLock /\ runner[r].pc \notin InLock
  BY <1>1, <1>2 DEF Local, Dropping, InLock
<1> QED
  BY <1>1, <1>2, <1>4, <1>5, <1>6, <1>7, <1>8, OutsideChange

LEMMA InsertPoolStep ==
  ASSUME IInv, NEW r \in Runner, InsertPool(r)
  PROVE  IInv'
<1>1. /\ runner[r] \in RunnerState /\ runner[r].pc = "insert"
      /\ pool' = TRUE /\ Goto(r, "template")
      /\ UNCHANGED <<revision, shape, others, source, parked, moved, orphan, excused>>
      /\ UNCHANGED <<connected, template, lock, overtaken, torn>>
  BY DEF InsertPool, At, IInv, Types, tables
<1>2. PICK s \in RunnerState :
        /\ runner' = [runner EXCEPT ![r] = s]
        /\ s.pc = "template" /\ s.merged = runner[r].merged
  <2>1. "template" \in Pc  BY DEF Pc
  <2> QED  BY <1>1, <2>1, GotoState
<1>3. runner'[r] = s /\ \A q \in Runner \ {r} : runner'[q] = runner[q]
  BY <1>2, Unmoved
<1>4. Database'  BY <1>1 DEF IInv, Types, Database
<1>5. Rows'  BY <1>1 DEF IInv, Rows, NoTables
<1>6. Checked(r)'  BY <1>2, <1>3, NotPassing
<1>7. Reached(r)'
  <2>1. r \notin overtaken => 1 .. runner[r].merged \subseteq connected /\ Settled
    BY <1>1 DEF IInv, Reached, Settling
  <2>2. Settled' <=> Settled  BY <1>1 DEF Settled, Missing
  <2> QED  BY <1>1, <1>2, <1>3, <2>1, <2>2 DEF Reached, At
<1>8. Local(s) /\ s.pc \notin InLock /\ runner[r].pc \notin InLock
  BY <1>1, <1>2 DEF Local, Dropping, InLock
<1> QED
  BY <1>1, <1>2, <1>4, <1>5, <1>6, <1>7, <1>8, OutsideChange

LEMMA SyncTemplateStep ==
  ASSUME IInv, NEW r \in Runner, SyncTemplate(r)
  PROVE  IInv'
<1>1. /\ runner[r] \in RunnerState /\ runner[r].pc = "template"
      /\ template' = ("log_template" \in others)
      /\ UNCHANGED <<revision, shape, others, source, parked, moved, orphan, excused>>
      /\ UNCHANGED <<connected, pool, lock, overtaken, torn>>
  BY DEF SyncTemplate, At, IInv, Types, tables
<1>2. PICK s \in RunnerState :
        /\ runner' = [runner EXCEPT ![r] = s]
        /\ s.pc \in {"connections", "completed"}
        /\ s.pc = "completed" => (s.load => s.merged = Connections)
        /\ s.merged = runner[r].merged
  <2> DEFINE pc == IF runner[r].load /\ runner[r].merged < Connections
                     THEN "connections" ELSE "completed"
  <2>1. pc \in Pc /\ Goto(r, pc)  BY DEF SyncTemplate, Pc
  <2>2. pc = "completed" => (runner[r].load => runner[r].merged = Connections)
    BY <1>1, Bounds DEF RunnerState
  <2>3. pc \in {"connections", "completed"}  OBVIOUS
  <2> HIDE DEF pc
  <2> QED  BY <2>1, <2>2, <2>3, GotoState
<1>3. runner'[r] = s /\ \A q \in Runner \ {r} : runner'[q] = runner[q]
  BY <1>2, Unmoved
<1>4. Database'  BY <1>1 DEF IInv, Types, Database
<1>5. Rows'  BY <1>1 DEF IInv, Rows, NoTables
<1>6. Checked(r)'  BY <1>2, <1>3, NotPassing
<1>7. Reached(r)'
  <2>1. r \notin overtaken => 1 .. runner[r].merged \subseteq connected /\ Settled /\ pool
    BY <1>1 DEF IInv, Reached, Settling
  <2>2. Settled' <=> Settled  BY <1>1 DEF Settled, Missing
  <2>3. Settled /\ "log_template" \notin others => torn
    BY OthersBounds, Bounds DEF Settled, Missing, Others, None
  <2> QED  BY <1>1, <1>2, <1>3, <2>1, <2>2, <2>3 DEF Reached, At
<1>8. Local(s) /\ s.pc \notin InLock /\ runner[r].pc \notin InLock
  BY <1>1, <1>2 DEF Local, Dropping, InLock
<1> QED
  BY <1>1, <1>2, <1>4, <1>5, <1>6, <1>7, <1>8, OutsideChange

\* A row that is orphaned behind the back of a call that has checked its table is
\* excused.
LEMMA RunRemovedStep ==
  ASSUME IInv, NEW x \in Row, RunRemoved(x)
  PROVE  IInv'
<1>1. /\ x \in source /\ ~Reshaped(TableOf[x])
      /\ orphan' = orphan \cup {x}
      /\ excused \subseteq excused' /\ excused' \subseteq excused \cup {x}
      /\ (\E r \in Runner : Passed(r, TableOf[x])) => x \in excused'
      /\ UNCHANGED <<revision, shape, others, source, parked, moved, lock, runner, overtaken>>
      /\ UNCHANGED <<pool, template, connected, torn>>
  BY DEF RunRemoved, tables, settled
<1>2. shape[TableOf[x]] = "dated"  BY <1>1 DEF Reshaped
<1>3. Types'  BY <1>1 DEF IInv, Types, Database
<1>4. Rows' /\ Whole'  BY <1>1, <1>2 DEF IInv, Rows, NoTables, Whole, Missing
<1>5. ASSUME NEW r \in Runner
      PROVE  (Local(runner[r]) /\ Held(runner[r]) /\ Checked(r) /\ Reached(r))'
  <2>1. Local(runner[r])' /\ Held(runner[r])'  BY <1>1 DEF IInv, Local, Held, AllTables
  <2>2. ASSUME NEW t \in Tables, Passed(r, t)', Saved(t)  PROVE Saved(t)'
    <3>1. Passed(r, t)  BY <1>1, <2>2 DEF Passed, Left
    <3>2. TableOf[x] = t => x \in excused'  BY <1>1, <3>1
    <3> QED  BY <1>1, <2>2, <3>2 DEF Saved, Dangling, In
  <2>3. \A t \in Tables : Passed(r, t)' => Passed(r, t)
    BY <1>1 DEF Passed, Left
  <2>4. Checked(r)'  BY <1>1, <2>2, <2>3 DEF IInv, Checked
  <2>5. Reached(r)'  BY <1>1 DEF IInv, Reached, Settled, Missing, At
  <2> QED  BY <2>1, <2>4, <2>5
<1> QED  BY <1>3, <1>4, <1>5 DEF IInv

-----------------------------------------------------------------------------
LEMMA InitIInv == Init => IInv
<1> SUFFICES ASSUME Init  PROVE IInv  OBVIOUS
<1>1. /\ runner = [r \in Runner |-> Idle] /\ lock = Free
      /\ revision \in 0 .. Latest
      /\ shape = [t \in Tables |-> ShapeAt(t, revision)] /\ others = OthersAt(revision)
      /\ source \subseteq Row /\ (revision = None => source = {}) /\ torn = FALSE
      /\ orphan \subseteq {x \in source : shape[TableOf[x]] = "dated"}
      /\ parked = {} /\ moved = {} /\ overtaken = {} /\ excused = {} /\ connected = {}
      /\ pool = (revision # None) /\ template = (revision >= MapIndexAt)
  BY DEF Init
<1>2. Types
  <2>1. runner \in [Runner -> RunnerState] /\ \A r \in Runner : runner[r].pc = "idle"
    BY <1>1, IdleState
  <2>2. shape \in [Tables -> Shapes]  BY <1>1, ShapeBounds
  <2>3. others \subseteq Others /\ pool \in BOOLEAN /\ template \in BOOLEAN
    BY <1>1, OthersBounds
  <2>4. Database  BY <1>1, <2>2, <2>3 DEF Database
  <2> QED  BY <1>1, <2>1, <2>4, Names DEF Types, InLock
<1>3. Rows
  <2>1. \A t \in Tables : shape[t] = "none" <=> revision = None  BY <1>1, ShapeBounds
  <2>2. shape[Models[1]] = "none" => NoTables  BY <2>1, Bounds DEF NoTables
  <2>3. \A x \in source : shape[TableOf[x]] # "none"  BY <1>1, <2>1, Bounds
  <2> QED  BY <1>1, <2>2, <2>3 DEF Rows
<1>5. Whole
  <2>1. \A t \in Tables : revision # None => shape[t] # "none"  BY <1>1, ShapeBounds
  <2> QED  BY <1>1, <2>1 DEF Whole, Missing
<1>4. ASSUME NEW r \in Runner
      PROVE  Local(runner[r]) /\ Held(runner[r]) /\ Checked(r) /\ Reached(r)
  <2>1. runner[r] = Idle /\ runner[r].pc = "idle" /\ runner[r].merged = 0
    BY <1>1, IdleState
  <2>2. 1 .. 0 = {}  OBVIOUS
  <2>3. Held(runner[r]) /\ Checked(r)
    BY <2>1 DEF Held, Checked, Passed, Dropping
  <2>4. Reached(r)  BY <2>1, <2>2 DEF Reached, Settling, At
  <2> QED  BY <2>1, <2>3, <2>4, IdleState
<1> QED  BY <1>2, <1>3, <1>4, <1>5 DEF IInv

LEMMA NextIInv == IInv /\ [Next]_vars => IInv'
<1> SUFFICES ASSUME IInv, [Next]_vars  PROVE IInv'  OBVIOUS
<1>1. CASE UNCHANGED vars
  <2> USE <1>1 DEF vars
  <2>1. Types'  BY DEF IInv, Types, Database
  <2>2. Rows' /\ Whole'  BY DEF IInv, Rows, NoTables, Whole, Missing
  <2>3. ASSUME NEW r \in Runner
        PROVE  (Local(runner[r]) /\ Held(runner[r]) /\ Checked(r) /\ Reached(r))'
    <3>1. Local(runner[r])' /\ Held(runner[r])'  BY DEF IInv, Local, Held, AllTables
    <3>2. Checked(r)'  BY DEF IInv, Checked, Passed, Left, Saved, Dangling, In
    <3>3. Reached(r)'  BY DEF IInv, Reached, Settled, Missing, At
    <3> QED  BY <3>1, <3>2, <3>3
  <2> QED  BY <2>1, <2>2, <2>3 DEF IInv
<1>2. ASSUME NEW r \in Runner,
             \/ LockTimeout(r) \/ DowngradeFails(r) \/ PurgeFails(r) \/ UpgradeFails(r)
             \/ ConnectionFails(r) \/ PoolFails(r)
             \/ \E i \in 1 .. Len(Models) : CheckFails(r, i)
      PROVE  IInv'
  <2>1. Fails(r) /\ runner[r].pc # "drop"
    BY <1>2 DEF LockTimeout, DowngradeFails, PurgeFails, UpgradeFails, ConnectionFails,
                PoolFails, CheckFails, Checking, Merging, AtPool, At, Waiting
  <2> QED  BY <2>1, FailsStep
<1>3. ASSUME NEW r \in Runner,
             \/ CallReset(r) \/ \E to \in 0 .. Latest : Call(r, to)
             \/ Lock(r) \/ Unlock(r) \/ Complete(r) \/ Killed(r)
      PROVE  IInv'
  <2>1. CASE CallReset(r) \/ \E to \in 0 .. Latest : Call(r, to)  BY <2>1, CallStep
  <2>2. CASE Lock(r)  BY <2>2, LockStep
  <2>3. CASE Unlock(r)  BY <2>3, UnlockStep
  <2>4. CASE Complete(r)  BY <2>4, CompleteStep
  <2>5. CASE Killed(r)  BY <2>5, KilledStep
  <2> QED  BY <1>3, <2>1, <2>2, <2>3, <2>4, <2>5
<1>4. ASSUME NEW r \in Runner,
             \/ Downgrade(r) \/ DropStamp(r) \/ DropMovedTables(r)
             \/ (\E t \in Tables : DropModel(r, t)) \/ (\E o \in Others : DropOther(r, o))
             \/ CreateAll(r) \/ Stamp(r) \/ Upgrade(r)
      PROVE  IInv'
  <2>1. CASE Downgrade(r)  BY <2>1, DowngradeStep
  <2>2. ASSUME NEW t \in Tables, DropModel(r, t)  PROVE IInv'  BY <2>2, DropModelStep
  <2>3. CASE DropStamp(r) \/ DropMovedTables(r)  BY <2>3, DropRestStep
  <2>4. CASE CreateAll(r)  BY <2>4, CreateAllStep
  <2>5. CASE Stamp(r)  BY <2>5, StampStep
  <2>6. CASE Upgrade(r)  BY <2>6, UpgradeStep
  <2>7. ASSUME NEW o \in Others, DropOther(r, o)  PROVE IInv'  BY <2>7, DropOtherStep
  <2> QED  BY <1>4, <2>1, <2>2, <2>3, <2>4, <2>5, <2>6, <2>7
<1>5. ASSUME NEW r \in Runner,
             \/ Reflect(r) \/ Purge(r) \/ ChecksEnd(r) \/ ReadRevision(r) \/ InitDb(r)
             \/ \E i \in 1 .. Len(Models) : AlreadyMoved(r, i) \/ CopyDangling(r, i)
      PROVE  IInv'
  <2>1. CASE Reflect(r)  BY <2>1, ReflectStep
  <2>2. CASE Purge(r)  BY <2>2, PurgeStep
  <2>3. CASE ChecksEnd(r)  BY <2>3, ChecksEndStep
  <2>4. CASE ReadRevision(r)  BY <2>4, ReadRevisionStep
  <2>5. CASE InitDb(r)  BY <2>5, InitDbStep
  <2>6. ASSUME NEW i \in 1 .. Len(Models), AlreadyMoved(r, i)  PROVE IInv'
    BY <2>6, AlreadyMovedStep
  <2>7. ASSUME NEW i \in 1 .. Len(Models), CopyDangling(r, i)  PROVE IInv'
    BY <2>7, CopyDanglingStep
  <2> QED  BY <1>5, <2>1, <2>2, <2>3, <2>4, <2>5, <2>6, <2>7
<1>6. ASSUME NEW r \in Runner,
             \/ ReadConnection(r) \/ InsertConnection(r) \/ ReadPool(r) \/ InsertPool(r)
             \/ SyncTemplate(r)
      PROVE  IInv'
  <2>1. CASE ReadConnection(r)  BY <2>1, ReadConnectionStep
  <2>2. CASE InsertConnection(r)  BY <2>2, InsertConnectionStep
  <2>3. CASE ReadPool(r)  BY <2>3, ReadPoolStep
  <2>4. CASE InsertPool(r)  BY <2>4, InsertPoolStep
  <2>5. CASE SyncTemplate(r)  BY <2>5, SyncTemplateStep
  <2> QED  BY <1>6, <2>1, <2>2, <2>3, <2>4, <2>5
<1>7. CASE ConnectionDropped  BY <1>7, ConnectionDroppedStep
<1>8. ASSUME NEW x \in Row, RunRemoved(x)  PROVE IInv'  BY <1>8, RunRemovedStep
<1> QED  BY <1>1, <1>2, <1>3, <1>4, <1>5, <1>6, <1>7, <1>8 DEF Next

LEMMA Invariance == Spec => []IInv
<1> QED  BY InitIInv, NextIInv, PTL DEF Spec

\* Every variable keeps its type, and the lock is held exactly by the call that is
\* inside a locked block.
THEOREM TypeCorrect == Spec => []TypeOK
<1>1. IInv => TypeOK  BY DEF IInv, Types, Database, TypeOK, InLock
<1> QED  BY <1>1, Invariance, PTL

\* Migrations of two calls never alternate, whoever is killed and whatever lock
\* times out: the stamp is what the last migration of the call under the lock left.
THEOREM Exclusive == Spec => []MigrationsAlone
<1>1. IInv => MigrationsAlone  BY DEF IInv, Held, MigrationsAlone, At
<1> QED  BY <1>1, Invariance, PTL

-----------------------------------------------------------------------------
(* What a step does to the rows, the stamp and the answers.                *)

\* The actions by what they change of the database.
LEMMA StepKinds ==
  ASSUME [Next]_vars
  PROVE  \/ UNCHANGED <<revision, shape, source, parked, moved, excused>>
         \/ \E r \in Runner :
              \/ Downgrade(r) \/ DropStamp(r) \/ DropMovedTables(r)
              \/ \E t \in Tables : DropModel(r, t)
              \/ CreateAll(r) \/ Stamp(r) \/ Upgrade(r) \/ Purge(r)
              \/ \E i \in 1 .. Len(Models) : CopyDangling(r, i)
         \/ \E x \in Row : RunRemoved(x)
<1>1. CASE UNCHANGED vars  BY <1>1 DEF vars
<1>2. ASSUME UNCHANGED database
      PROVE  UNCHANGED <<revision, shape, source, parked, moved, excused>>
  BY <1>2 DEF database, tables
<1>3. ASSUME NEW r \in Runner,
             \/ (\E to \in 0 .. Latest : Call(r, to)) \/ CallReset(r)
             \/ Lock(r) \/ LockTimeout(r) \/ Unlock(r) \/ DowngradeFails(r)
             \/ Reflect(r) \/ PurgeFails(r) \/ ChecksEnd(r)
             \/ \E i \in 1 .. Len(Models) : AlreadyMoved(r, i) \/ CheckFails(r, i)
             \/ ReadRevision(r) \/ InitDb(r) \/ UpgradeFails(r)
             \/ ReadConnection(r) \/ ConnectionFails(r) \/ ReadPool(r) \/ PoolFails(r)
             \/ Complete(r) \/ Killed(r)
      PROVE  UNCHANGED <<revision, shape, source, parked, moved, excused>>
  <2>1. UNCHANGED database
    BY <1>3 DEF Call, CallReset, Lock, LockTimeout, Unlock, DowngradeFails, Reflect,
                PurgeFails, ChecksEnd, AlreadyMoved, CheckFails, ReadRevision, InitDb,
                UpgradeFails, ReadConnection, ConnectionFails, ReadPool, PoolFails,
                Complete, Killed, Fails
  <2> QED  BY <1>2, <2>1
<1>4. ASSUME NEW r \in Runner,
             \/ InsertConnection(r) \/ InsertPool(r) \/ SyncTemplate(r)
             \/ \E o \in Others : DropOther(r, o)
      PROVE  UNCHANGED <<revision, shape, source, parked, moved, excused>>
  BY <1>4 DEF InsertConnection, InsertPool, SyncTemplate, DropOther, tables
<1>5. CASE ConnectionDropped  BY <1>2, <1>5 DEF ConnectionDropped
<1> QED  BY <1>1, <1>3, <1>4, <1>5 DEF Next

\* A row leaves its table only if it is copied to a moved table, or excused, and a
\* moved table keeps its rows but for a reset.
THEOREM RowsAreKept == Spec => NothingLost
<1>1. ASSUME IInv, [Next]_vars  PROVE RowsKept
  <2>1. \A x \in moved : TableOf[x] \in parked  BY <1>1 DEF IInv, Rows
  <2>2. CASE UNCHANGED <<revision, shape, source, parked, moved, excused>>
    BY <2>1, <2>2 DEF RowsKept
  <2>3. ASSUME NEW r \in Runner, Downgrade(r) \/ \E t \in Tables : DropModel(r, t)
        PROVE  RowsKept
    <3>1. \A x \in source \ source' : x \in excused'
      BY <2>3 DEF Downgrade, DropModel
    <3>2. parked' = parked /\ moved' = moved  BY <2>3 DEF Downgrade, DropModel
    <3> QED  BY <2>1, <3>1, <3>2 DEF RowsKept
  <2>4. ASSUME NEW r \in Runner, DropMovedTables(r)  PROVE RowsKept
    <3>1. At(r, "dropMoved") /\ source' = source  BY <2>4 DEF DropMovedTables
    <3>2. lock = r  BY <1>1, <3>1 DEF At, IInv, Types, InLock
    <3> QED  BY <3>1, <3>2 DEF RowsKept
  <2>5. ASSUME NEW r \in Runner, DropStamp(r) \/ CreateAll(r) \/ Stamp(r)
        PROVE  RowsKept
    <3>1. source' = source /\ parked' = parked /\ moved' = moved
      BY <2>5 DEF DropStamp, CreateAll, Stamp
    <3> QED  BY <2>1, <3>1 DEF RowsKept
  <2>6. ASSUME NEW r \in Runner, Upgrade(r)  PROVE RowsKept
    <3>1. /\ At(r, "upgrade") /\ parked' = parked /\ moved' = moved /\ excused' = excused
          /\ source' = source \ UNION {Dangling(t) : t \in Rekeyed(runner[r].from + 1)}
      BY <2>6 DEF Upgrade
    <3>2. \A t \in Tables : Saved(t)
      BY <1>1, <3>1 DEF At, IInv, Checked, Passed
    <3>3. \A x \in source \ source' : x \in excused \/ x \in moved
      BY <3>1, <3>2 DEF Rekeyed, Saved
    <3> QED  BY <2>1, <3>1, <3>3 DEF RowsKept
  <2>7. ASSUME NEW r \in Runner, Purge(r)  PROVE RowsKept
    <3>1. /\ source' = source \ Copy(Models[runner[r].done]) /\ moved' = moved
          /\ parked' = IF Copy(Models[runner[r].done]) = {}
                         THEN parked \ {Models[runner[r].done]} ELSE parked
      BY <2>7 DEF Purge
    <3>2. \A x \in source \ source' : x \in moved'  BY <3>1 DEF Copy
    <3>3. \A x \in moved : TableOf[x] \in parked'  BY <2>1, <3>1 DEF Copy
    <3> QED  BY <3>1, <3>2, <3>3 DEF RowsKept
  <2>8. ASSUME NEW r \in Runner, NEW i \in 1 .. Len(Models), CopyDangling(r, i)
        PROVE  RowsKept
    <3>1. source' = source /\ moved \subseteq moved' /\ parked \subseteq parked'
      BY <2>8 DEF CopyDangling
    <3> QED  BY <2>1, <3>1 DEF RowsKept
  <2>9. ASSUME NEW x \in Row, RunRemoved(x)  PROVE RowsKept
    <3>1. source' = source /\ parked' = parked /\ moved' = moved
      BY <2>9 DEF RunRemoved
    <3> QED  BY <2>1, <3>1 DEF RowsKept
  <2> QED
    BY <1>1, <2>2, <2>3, <2>4, <2>5, <2>6, <2>7, <2>8, <2>9, StepKinds
<1>2. IInv /\ [Next]_vars => [RowsKept]_vars  BY <1>1
<1> QED  BY <1>2, Invariance, PTL DEF Spec, NothingLost

\* A migration keeps the agreement of the tables that are there with the stamp.
LEMMA StampMigrated ==
  ASSUME IInv, NEW r \in Runner, NEW to \in 0 .. Latest, Migrate(r, to),
         runner[r].from = revision, to # None, revision # None, Stamped
  PROVE  Stamped'
<1>1. /\ revision' = to
      /\ \A t \in Tables :
           \/ shape'[t] = shape[t] /\ ShapeAt(t, revision) = ShapeAt(t, to)
           \/ shape[t] = ShapeAt(t, revision) /\ shape'[t] = ShapeAt(t, to)
  BY Migrated
<1>2. \A t \in Tables : shape'[t] \in {"none", ShapeAt(t, to)}  BY <1>1 DEF Stamped
<1>3. \A t \in Tables : ShapeAt(t, to) = ShapeAt(t, revision)'  BY <1>1 DEF ShapeAt
<1> QED  BY <1>2, <1>3 DEF Stamped

\* The columns of the tables come to differ from the stamp only by an initialisation
\* that saw no revision before it had the lock; and no table of the stamped revision
\* is missing unless a reset is at its DROPs or was killed among them, and no reset
\* got through since.
THEOREM StampTrue == Spec => StampIsTrue
<1>1. ASSUME IInv, [Next]_vars  PROVE StampKept
  <2>1. Missing(revision)' => torn' \/ \E r \in Runner : runner'[r].pc = "drop"
    BY <1>1, NextIInv DEF IInv, Whole
  <2> DEFINE Created == \E r \in Runner : /\ lock = r /\ runner[r].fresh
                                         /\ \/ At(r, "create") /\ runner'[r].pc = "stamp"
                                            \/ At(r, "stamp") /\ runner'[r].pc = "stamped"
  <2>2. SUFFICES ASSUME revision # None, Stamped
                 PROVE  revision' = None \/ Stamped' \/ Created
    BY <2>1 DEF StampKept
  <2>3. CASE UNCHANGED <<revision, shape>>
    BY <2>2, <2>3 DEF Stamped, ShapeAt
  <2>4. ASSUME NEW r \in Runner, NEW t \in Tables, DropModel(r, t)  PROVE Stamped'
    <3>1. shape' = [shape EXCEPT ![t] = "none"] /\ revision' = revision
      BY <2>4 DEF DropModel
    <3>2. shape \in [Tables -> Shapes]  BY <1>1 DEF IInv, Types, Database
    <3> QED  BY <2>2, <3>1, <3>2 DEF Stamped, ShapeAt
  <2>5. ASSUME NEW r \in Runner, Downgrade(r)  PROVE Stamped'
    <3>1. /\ Migrate(r, runner[r].from - 1) /\ runner[r] \in RunnerState
          /\ runner[r].from = revision /\ runner[r].from > runner[r].down
          /\ runner[r].down # None
      BY <1>1, <2>5 DEF Downgrade, At, IInv, Types, Local, Held
    <3>2. runner[r].from - 1 \in 0 .. Latest /\ runner[r].from - 1 # None
      BY <3>1, Bounds DEF RunnerState, None
    <3> QED  BY <1>1, <2>2, <3>1, <3>2, StampMigrated
  <2>6. ASSUME NEW r \in Runner, Upgrade(r)  PROVE Stamped'
    <3>1. /\ Migrate(r, runner[r].from + 1) /\ runner[r] \in RunnerState
          /\ runner[r].from = revision /\ runner[r].from < Latest
      BY <1>1, <2>6 DEF Upgrade, At, IInv, Types, Held
    <3>2. runner[r].from + 1 \in 0 .. Latest /\ runner[r].from + 1 # None
      BY <3>1, Bounds DEF RunnerState, None
    <3> QED  BY <1>1, <2>2, <3>1, <3>2, StampMigrated
  <2>7. ASSUME NEW r \in Runner, DropStamp(r)  PROVE revision' = None
    BY <2>7 DEF DropStamp
  <2>8. ASSUME NEW r \in Runner, CreateAll(r) \/ Stamp(r)  PROVE Created
    <3>1. lock = r /\ runner[r].fresh
      BY <1>1, <2>8 DEF CreateAll, Stamp, At, IInv, Types, InLock, Local
    <3>2. \/ At(r, "create") /\ runner'[r].pc = "stamp"
          \/ At(r, "stamp") /\ runner'[r].pc = "stamped"
      BY <1>1, <2>8 DEF CreateAll, Stamp, Goto, IInv, Types, RunnerState
    <3> QED  BY <3>1, <3>2
  <2>9. ASSUME NEW r \in Runner,
               \/ DropMovedTables(r) \/ Purge(r)
               \/ \E i \in 1 .. Len(Models) : CopyDangling(r, i)
        PROVE  UNCHANGED <<revision, shape>>
    BY <2>9 DEF DropMovedTables, Purge, CopyDangling, tables
  <2>10. ASSUME NEW x \in Row, RunRemoved(x)  PROVE UNCHANGED <<revision, shape>>
    BY <2>10 DEF RunRemoved, tables
  <2> HIDE DEF Created
  <2> QED
    BY <1>1, <2>3, <2>4, <2>5, <2>6, <2>7, <2>8, <2>9, <2>10, StepKinds
<1>2. IInv /\ [Next]_vars => [StampKept]_vars  BY <1>1
<1> QED  BY <1>2, Invariance, PTL DEF Spec, StampIsTrue

\* MigrationCompleted is true of the database, unless another call downgraded or
\* reset it meanwhile; only a reset killed among its DROPs lets tables be missing.
THEOREM AnswersTrue == Spec => CompletedIsLatest
<1>1. ASSUME IInv  PROVE AnswersHold
  <2>1. SUFFICES ASSUME NEW r \in Runner, At(r, "completed"), r \notin overtaken
                 PROVE  /\ revision = Latest /\ (Missing(Latest) => torn)
                        /\ pool /\ (template \/ torn)
                        /\ runner[r].load => connected = 1 .. Connections
    BY DEF AnswersHold, Answers
  <2>2. /\ 1 .. runner[r].merged \subseteq connected /\ Settled /\ pool
        /\ template \/ torn
    BY <1>1, <2>1 DEF IInv, Reached, At, Settling
  <2>3. runner[r].load => connected = 1 .. Connections
    BY <1>1, <2>1, <2>2 DEF IInv, Types, Database, Local, At
  <2> QED  BY <2>2, <2>3 DEF Settled
<1>2. IInv /\ [Next]_vars => [AnswersHold]_vars  BY <1>1
<1> QED  BY <1>2, Invariance, PTL DEF Spec, CompletedIsLatest
=============================================================================
