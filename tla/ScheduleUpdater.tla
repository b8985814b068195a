--------------------------- MODULE ScheduleUpdater ---------------------------
(***************************************************************************)
(* The lambda that keeps one EventBridge cron rule per dag.  Every change  *)
(* of a row of the dag table sends an event about the dag to a standard    *)
(* SQS queue; any number of invocations run at once, each with a batch of  *)
(* events.  An invocation downloads the DAG files, and for each event      *)
(* takes the schedule from its files and is_paused from the database,      *)
(* then puts the rule, then its target.                                    *)
(*                                                                         *)
(* An event that cannot be handled (a DAG whose schedule is no cron, or    *)
(* that is not in the files yet) fails the batch, the healthy events after *)
(* it included; the queue delivers the batch again until it expires        *)
(* (80 s visibility, 300 s retention: MaxReceives is 4).                   *)
(***************************************************************************)
EXTENDS Naturals, Sequences, FiniteSets

CONSTANTS
  Dag,
  NoCron,       \* dags whose schedule interval is no cron string
  Updater,      \* invocations that may overlap
  MaxReceives,  \* deliveries of an event before it expires
  MaxChanges,   \* bound: changes of dag rows
  MaxFailures   \* bound: invocations that crash or time out

ASSUME UpdaterAssumption ==
  /\ NoCron \subseteq Dag
  /\ MaxReceives \in Nat \ {0}
  /\ MaxChanges \in Nat
  /\ MaxFailures \in Nat

VARIABLES
  paused,    \* dag.is_paused in the metadata database
  changes,   \* changes so far; each is the identity of the event it sends
  queue,     \* visible events: [dag, id, receives]
  updater,   \* what each invocation is doing
  rule,      \* the cron rule of a dag
  raced,     \* dags two invocations handled at the same time
  expired,   \* dags with an event that the queue gave up on
  failures

vars == <<paused, changes, queue, updater, rule, raced, expired, failures>>

Event == [dag : Dag, id : 1 .. MaxChanges, receives : 0 .. MaxReceives]

NoRule == [state |-> "none", target |-> FALSE]

\* batch: events still to handle, the first one now;  taken: the whole batch;
\* read: the state the rule will be put with.
Idle == [pc |-> "idle", batch |-> <<>>, taken |-> {}, read |-> "none"]

Init ==
  /\ paused = [d \in Dag |-> TRUE] /\ changes = 0
  /\ queue = {}
  /\ updater = [u \in Updater |-> Idle]
  /\ rule = [d \in Dag |-> NoRule]
  /\ raced = {} /\ expired = {} /\ failures = 0

Handling(u) == updater[u].batch[1].dag
Busy(d) == {u \in Updater : updater[u].pc \in {"put", "target"} /\ Handling(u) = d}

\* get_rule_state
RuleState(d) == IF paused[d] THEN "DISABLED" ELSE "ENABLED"

\* mutant: deliveries are not counted, so an event never expires
ReceiveUncounted(e) == e

\* A delivery brings an event nearer to the end of its retention.
Receive(e) == [e EXCEPT !.receives = @ + 1]

\* mutant: an event outlives the retention of its queue
RedeliveredForever(S) == S

\* Back on the queue after the visibility timeout, or past the retention.
Redelivered(S) == {e \in S : e.receives < MaxReceives}

-----------------------------------------------------------------------------
\* A user pauses or unpauses the dag, or its row is written again unchanged; the
\* change data capture turns the row into an event (dag_created, dag_updated).
ChangeDag(d) ==
  /\ changes < MaxChanges
  /\ changes' = changes + 1
  /\ \E p \in BOOLEAN : paused' = [paused EXCEPT ![d] = p]
  /\ queue' = queue \cup {[dag |-> d, id |-> changes + 1, receives |-> 0]}
  /\ UNCHANGED <<updater, rule, raced, expired, failures>>

\* The handler gets a batch, in any order; download_dags.
TakeBatch(u) ==
  /\ updater[u].pc = "idle"
  /\ \E B \in (SUBSET queue) \ {{}} :
       \E batch \in [1 .. Cardinality(B) -> B] :
         /\ {batch[i] : i \in 1 .. Cardinality(B)} = B
         /\ updater' = [updater EXCEPT ![u] =
                          [pc |-> "read", batch |-> batch,
                           taken |-> {Receive(e) : e \in B}, read |-> "none"]]
         /\ queue' = queue \ B
  /\ UNCHANGED <<paused, changes, rule, raced, expired, failures>>

\* from_airflow_schedule_to_aws_cron, then dag.get_is_paused().
ReadDag(u) ==
  /\ updater[u].pc = "read"
  /\ updater[u].batch # <<>>
  /\ Handling(u) \notin NoCron
  /\ updater' = [updater EXCEPT ![u].pc = "put",
                                ![u].read = RuleState(Handling(u))]
  /\ raced' = IF Busy(Handling(u)) # {} THEN raced \cup {Handling(u)} ELSE raced
  /\ UNCHANGED <<paused, changes, queue, rule, expired, failures>>

\* mutant: the rule is only created, never updated
PutRuleOnce(u) ==
  /\ updater[u].pc = "put"
  /\ rule' = [rule EXCEPT ![Handling(u)].state =
                IF @ = "none" THEN updater[u].read ELSE @]
  /\ updater' = [updater EXCEPT ![u].pc = "target"]
  /\ UNCHANGED <<paused, changes, queue, raced, expired, failures>>

\* put_rule: creates the rule, or updates it and keeps its target.
PutRule(u) ==
  /\ updater[u].pc = "put"
  /\ rule' = [rule EXCEPT ![Handling(u)].state = updater[u].read]
  /\ updater' = [updater EXCEPT ![u].pc = "target"]
  /\ UNCHANGED <<paused, changes, queue, raced, expired, failures>>

PutTargets(u) ==
  /\ updater[u].pc = "target"
  /\ rule' = [rule EXCEPT ![Handling(u)].target = TRUE]
  /\ updater' = [updater EXCEPT ![u].pc = "read", ![u].batch = Tail(@)]
  /\ UNCHANGED <<paused, changes, queue, raced, expired, failures>>

\* The handler returns, and the batch is deleted.
Return(u) ==
  /\ updater[u].pc = "read"
  /\ updater[u].batch = <<>>
  /\ updater' = [updater EXCEPT ![u] = Idle]
  /\ UNCHANGED <<paused, changes, queue, rule, raced, expired, failures>>

\* mutant: a failed batch is not delivered again
GiveUpAtOnce(u) ==
  /\ updater' = [updater EXCEPT ![u] = Idle]
  /\ UNCHANGED <<queue, expired>>

GiveBack(u) ==
  LET back == Redelivered(updater[u].taken) IN
  /\ queue' = queue \cup back
  /\ expired' = expired \cup {e.dag : e \in updater[u].taken \ back}
  /\ updater' = [updater EXCEPT ![u] = Idle]

\* ValueError of the cron conversion: nothing catches it.
RefuseSchedule(u) ==
  /\ updater[u].pc = "read"
  /\ updater[u].batch # <<>>
  /\ Handling(u) \in NoCron
  /\ GiveBack(u)
  /\ UNCHANGED <<paused, changes, rule, raced, failures>>

\* An AWS or database error, or the timeout, at any point.
Fail(u) ==
  /\ updater[u].pc # "idle"
  /\ failures < MaxFailures
  /\ failures' = failures + 1
  /\ GiveBack(u)
  /\ UNCHANGED <<paused, changes, rule, raced>>

-----------------------------------------------------------------------------
UpdaterStep(u) ==
  \/ TakeBatch(u)
  \/ ReadDag(u)
  \/ PutRule(u)
  \/ PutTargets(u)
  \/ Return(u)
  \/ RefuseSchedule(u)

Next ==
  \/ \E d \in Dag : ChangeDag(d)
  \/ \E u \in Updater : UpdaterStep(u) \/ Fail(u)

Spec == Init /\ [][Next]_vars /\ \A u \in Updater : WF_vars(UpdaterStep(u))

-----------------------------------------------------------------------------
\* Every variable has its type; no event is delivered more often than its retention
\* allows.
TypeOK ==
  /\ paused \in [Dag -> BOOLEAN] /\ changes \in 0 .. MaxChanges
  /\ queue \subseteq Event
  /\ updater \in [Updater ->
       [pc : {"idle", "read", "put", "target"}, batch : Seq(Event),
        taken : SUBSET Event, read : {"none", "ENABLED", "DISABLED"}]]
  /\ rule \in [Dag -> [state : {"none", "ENABLED", "DISABLED"}, target : BOOLEAN]]
  /\ raced \subseteq Dag /\ expired \subseteq Dag /\ failures \in 0 .. MaxFailures

Settled == queue = {} /\ \A u \in Updater : updater[u].pc = "idle"

\* The events about a dag that are still somewhere.
Pending(d) ==
  \/ \E e \in queue : e.dag = d
  \/ \E u \in Updater : \E e \in updater[u].taken : e.dag = d

\* The rule of a dag with nothing pending is enabled exactly if the dag is not
\* paused, and has a target, unless an event expired behind a batch that kept
\* failing, or two invocations handled the dag at the same time.
StaleOnlyByRaceOrExpiry ==
  \A d \in Dag :
    ~Pending(d) /\ d \notin raced \cup expired /\ rule[d].state # "none" =>
      rule[d] = [state |-> RuleState(d), target |-> TRUE]

\* A change is answered: sooner or later nothing is pending about a dag, whatever
\* its neighbours in the batch do.
EventuallyHandled == \A d \in Dag : Pending(d) ~> ~Pending(d)

\* What upsert_new_cron_schedule says of itself: it enables or disables the rule
\* as the dag is unpaused or paused.
RuleFollowsDag ==
  \A d \in Dag : Settled /\ rule[d].state # "none" /\ d \notin expired =>
                   rule[d].state = RuleState(d)
=============================================================================
