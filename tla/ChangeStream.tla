---------------------------- MODULE ChangeStream ----------------------------
(***************************************************************************)
(* The way from a row of the metadata database to the queues of the        *)
(* lambdas.  The migration service appends every change of task_instance,  *)
(* dag_run and dag to a stream; the records of one table keep their order. *)
(* Lambda hands the records of a lane to the forwarder in batches.  The    *)
(* forwarder converts all of them, then puts the events on the bus, and    *)
(* reports the entries the bus refused; the batch is retried from the      *)
(* first of them, at most MaxRetries times, and then discarded.            *)
(*                                                                         *)
(* A record the converter has no event for raises ValueError before        *)
(* anything is put: its batch is retried as a whole, to no avail.          *)
(***************************************************************************)
EXTENDS Events, Naturals, Sequences, FiniteSetsExt

CONSTANTS
  Row,          \* rows of the three tables
  TableOf,      \* "task_instance", "dag_run" or "dag"
  ExecutorOf,   \* the queue column of a task instance
  StatesOf,     \* states a row takes: bounds the model only
  Lane,         \* shards, times parallelization_factor
  LaneOf,       \* the lane of a table
  BatchSize,    \* batch_size, 10 in the deployment
  MaxRetries,   \* maximum_retry_attempts, 5 in the deployment
  MaxChanges,   \* bound: changes of rows
  MaxFailures   \* bound: failures of the bus or of an invocation

ASSUME StreamAssumption ==
  /\ TableOf \in [Row -> Table]
  /\ ExecutorOf \in [Row -> {"default", "lambda", "batch", "other"}]
  /\ StatesOf \in [Row -> SUBSET (TaskInstanceState \cup DagRunState \cup {"row"})]
  /\ LaneOf \in [Table -> Lane]
  /\ BatchSize \in Nat \ {0}
  /\ MaxRetries \in Nat /\ MaxChanges \in Nat /\ MaxFailures \in Nat
  /\ MaxFailures <= MaxRetries  \* an outage is shorter than the retries

VARIABLES
  log,         \* the records of a lane so far
  checkpoint,  \* records of the lane that are done with
  batch,       \* what the forwarder of the lane is busy with: [end, retries]
  put,         \* <<lane, position>> of the records whose event is on the bus
  latest,      \* position of the last event the bus got about a row
  lost,        \* <<lane, position>> of the records that were discarded
  failures

vars == <<log, checkpoint, batch, put, latest, lost, failures>>

Record == [row : Row, state : UNION {StatesOf[r] : r \in Row}, delete : BOOLEAN]

NoBatch == [end |-> 0, retries |-> 0]
Busy(l) == batch[l].end # 0

RowLane(r) == LaneOf[TableOf[r]]

Init ==
  /\ log = [l \in Lane |-> <<>>]
  /\ checkpoint = [l \in Lane |-> 0]
  /\ batch = [l \in Lane |-> NoBatch]
  /\ put = {} /\ lost = {} /\ failures = 0
  /\ latest = [r \in Row |-> 0]

-----------------------------------------------------------------------------
(* What becomes of a record.                                               *)

\* The rows of delete operations are skipped, whatever is in them.
Skipped(rec) == rec.delete

Poison(rec) ==
  /\ ~Skipped(rec)
  /\ ~Converts(TableOf[rec.row], rec.state)

\* The records whose event the rules of the bus sent to queue q.
Targets(rec) == Route(TableOf[rec.row], rec.state, ExecutorOf[rec.row])
Reached(q) == {x \in put : q \in Targets(log[x[1]][x[2]])}

Positions == UNION {{l} \X (1 .. Len(log[l])) : l \in Lane}

-----------------------------------------------------------------------------
\* The migration service appends a change; the order of a table is kept.
Change(r) ==
  /\ Cardinality(Positions) < MaxChanges
  /\ \E s \in StatesOf[r], d \in BOOLEAN :
       log' = [log EXCEPT ![RowLane(r)] =
                 Append(@, [row |-> r, state |-> s, delete |-> d])]
  /\ UNCHANGED <<checkpoint, batch, put, latest, lost, failures>>

\* mutant: one record more than the bus takes in a call
WithinBatchPlusOne(l, end) == end <= checkpoint[l] + BatchSize + 1
WithinBatch(l, end) == end <= checkpoint[l] + BatchSize

\* The next batch of a lane: one at a time, so that the order is kept.
Poll(l) ==
  /\ ~Busy(l)
  /\ \E end \in checkpoint[l] + 1 .. Len(log[l]) :
       /\ WithinBatch(l, end)
       /\ batch' = [batch EXCEPT ![l] = [end |-> end, retries |-> 0]]
  /\ UNCHANGED <<log, checkpoint, put, latest, lost, failures>>

Batch(l) == checkpoint[l] + 1 .. batch[l].end
Entries(l) == {i \in Batch(l) : ~Skipped(log[l][i])}

\* mutant: the entries are put in the opposite order
LatestReversed(l, r, ok) == Min({i \in ok : log[l][i].row = r})
\* The entry of ok about row r that the bus saw last.
Latest(l, r, ok) == Max({i \in ok : log[l][i].row = r})

PutEvents(l, ok) ==
  /\ put' = put \cup ({l} \X ok)
  /\ latest' = [r \in Row |-> IF \E i \in ok : log[l][i].row = r
                              THEN Latest(l, r, ok) ELSE latest[r]]

Finish(l) ==
  /\ checkpoint' = [checkpoint EXCEPT ![l] = batch[l].end]
  /\ batch' = [batch EXCEPT ![l] = NoBatch]

\* mutant: retries are not counted
RetryUncounted(b) == b
Retry(b) == [b EXCEPT !.retries = @ + 1]

MayNeverRetry(l) == FALSE  \* mutant: no retries
MayRetry(l) == batch[l].retries < MaxRetries

\* The batch is tried again from the record after k, or given up.
RetryAfter(l, k) ==
  IF MayRetry(l)
  THEN /\ checkpoint' = [checkpoint EXCEPT ![l] = k]
       /\ batch' = [batch EXCEPT ![l] = Retry(@)]
       /\ UNCHANGED lost
  ELSE /\ Finish(l)
       /\ lost' = lost \cup (({l} \X Entries(l)) \ put')

\* handle_records, when every entry converts and the bus takes them all.
Forward(l) ==
  /\ Busy(l)
  /\ \A i \in Batch(l) : ~Poison(log[l][i])
  /\ PutEvents(l, Entries(l))
  /\ Finish(l)
  /\ UNCHANGED <<log, lost, failures>>

\* mutant: the checkpoint is the last refused entry, not the first
LastRefused(refused) == Max(refused)
\* Lambda goes back to the lowest of the identifiers it is given.
FirstRefused(refused) == Min(refused)

\* The bus refuses some entries.  The identifier the forwarder reports is the
\* event id of the record, not its bare sequence number: Lambda goes back to that
\* record, or, if it does not know it, to the start of the batch.
ForwardPartly(l) ==
  /\ Busy(l)
  /\ failures < MaxFailures
  /\ \A i \in Batch(l) : ~Poison(log[l][i])
  /\ \E refused \in (SUBSET Entries(l)) \ {{}} :
       /\ PutEvents(l, Entries(l) \ refused)
       /\ \E k \in {checkpoint[l], FirstRefused(refused) - 1} : RetryAfter(l, k)
  /\ failures' = failures + 1
  /\ UNCHANGED log

\* The converter raises: nothing of the batch is put.
RaiseOnPoison(l) ==
  /\ Busy(l)
  /\ \E i \in Batch(l) : Poison(log[l][i])
  /\ UNCHANGED <<put, latest>>
  /\ RetryAfter(l, checkpoint[l])
  /\ UNCHANGED <<log, failures>>

\* The invocation dies after the bus took some of the entries.
Crash(l) ==
  /\ Busy(l)
  /\ failures < MaxFailures
  /\ \A i \in Batch(l) : ~Poison(log[l][i])
  /\ \E ok \in SUBSET Entries(l) : PutEvents(l, ok)
  /\ RetryAfter(l, checkpoint[l])
  /\ failures' = failures + 1
  /\ UNCHANGED log

-----------------------------------------------------------------------------
ForwarderStep(l) == Poll(l) \/ Forward(l) \/ ForwardPartly(l)
                    \/ RaiseOnPoison(l) \/ Crash(l)

Next == (\E r \in Row : Change(r)) \/ (\E l \in Lane : ForwarderStep(l))

\* Lambda goes on polling a lane that has records.
Spec == Init /\ [][Next]_vars /\ \A l \in Lane : WF_vars(ForwarderStep(l))

-----------------------------------------------------------------------------
\* Every variable has its type, and a batch is within the limit of put_events.
TypeOK ==
  /\ log \in [Lane -> Seq(Record)]
  /\ checkpoint \in [Lane -> Nat]
  /\ batch \in [Lane -> [end : Nat, retries : 0 .. MaxRetries]]
  /\ \A l \in Lane : Busy(l) => batch[l].end \in checkpoint[l] + 1 .. Len(log[l])
                                /\ Cardinality(Batch(l)) <= BatchSize
  /\ put \subseteq Positions /\ lost \subseteq Positions \ put
  /\ latest \in [Row -> Nat]
  /\ failures \in 0 .. MaxFailures

\* No record is passed over: behind the checkpoint every change is on the bus, was
\* a delete, or was discarded.  Partial failures, where only some entries of a
\* call are refused and others are put twice, lose nothing.
NothingPassedOver ==
  \A l \in Lane : \A i \in 1 .. checkpoint[l] :
    <<l, i>> \in put \cup lost \/ Skipped(log[l][i])

\* A record is discarded only in the neighbourhood of one the converter refuses:
\* failures of the bus, together with retries, lose nothing by themselves.
LostOnlyNearPoison ==
  \A x \in lost :
    \E j \in 1 .. Len(log[x[1]]) :
      /\ Poison(log[x[1]][j])
      /\ j < x[2] + BatchSize /\ x[2] < j + BatchSize

\* An old event never has the last word: when the stream is through with a row, the
\* last event the bus got about it tells its latest change.
LatestEventIsCurrent ==
  \A r \in Row :
    LET l == RowLane(r)
        of == {i \in 1 .. Len(log[l]) : log[l][i].row = r /\ ~Skipped(log[l][i])} IN
    of # {} /\ Max(of) <= checkpoint[l] /\ <<l, Max(of)>> \notin lost =>
      latest[r] = Max(of)

\* No record blocks its lane for ever: the stream is always caught up with.
Drains ==
  \A l \in Lane : Busy(l) \/ checkpoint[l] < Len(log[l]) ~>
                    ~Busy(l) /\ checkpoint[l] = Len(log[l])

\* What the rule task-up-for-retry is there for: a task instance that is up for
\* retry wakes the scheduler.
RetryWakesScheduler ==
  \A l \in Lane : \A i \in 1 .. checkpoint[l] :
    log[l][i].state = "up_for_retry" /\ ~log[l][i].delete =>
      <<l, i>> \in Reached("scheduler")
=============================================================================
