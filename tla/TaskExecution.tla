---------------------------- MODULE TaskExecution ----------------------------
(***************************************************************************)
(* From a QUEUED task instance to its outcome.  The event of the queueing  *)
(* reaches the queue of an executor lambda, which starts a Step Functions  *)
(* execution named after the queueing.  The execution runs a worker, a     *)
(* lambda or a Batch job, and if the worker fails, a catcher that marks    *)
(* the task instance FAILED.                                               *)
(*                                                                         *)
(* Nothing but the name of the execution makes a queueing run once: the    *)
(* queue delivers an event again until its batch is handled, or until the  *)
(* event expires (300 s visibility and 1000 s retention: MaxReceives is 4).*)
(* A name of an execution that is running is accepted again, one of an     *)
(* execution that has ended is refused, and so is one that another task    *)
(* instance has taken.                                                     *)
(***************************************************************************)
EXTENDS TaskStates, Naturals, Sequences, FiniteSets

CONSTANTS
  TI,             \* task instances
  BatchTI,        \* those with queue = "batch"
  DigestOf,       \* what the name's hash makes of a task instance
  Invocation,     \* invocations of the executors that may overlap
  MaxReceives,    \* deliveries of an event before it expires
  CatcherRetries, \* retries of a catcher: 5 for lambdas, 0 for Batch
  BatchAttempts,  \* attempts of a Batch job whose container exits with code 1
  MaxQueueings,   \* bound: task instances queued, in one UPDATE or several
  MaxFailures     \* bound: failures of a delivery, a worker or a catcher

ASSUME ExecutionAssumption ==
  /\ IsFiniteSet(TI) /\ BatchTI \subseteq TI
  /\ DOMAIN DigestOf = TI
  /\ MaxReceives \in Nat \ {0} /\ CatcherRetries \in Nat
  /\ BatchAttempts \in Nat \ {0}
  /\ MaxQueueings \in Nat /\ MaxFailures \in Nat

VARIABLES
  state,       \* task_instance.state
  queuings,    \* how often a task instance was queued
  starts,      \* how often a worker set it to RUNNING
  owner,       \* the execution whose worker runs it: hostname and pid
  clock,       \* queued_dttm of the last UPDATE
  queue,       \* visible events: [ti, dttm, receives, copy]
  invocation,  \* what the executor invocations are doing
  executions,  \* the executions started so far, by name
  abandoned,   \* task instances nothing will bring to an end by itself
  failures

vars == <<state, queuings, starts, owner, clock, queue, invocation, executions,
          abandoned, failures>>

Event == [ti : TI, dttm : 1 .. MaxQueueings, receives : 0 .. MaxReceives,
          copy : BOOLEAN]

Names == {DigestOf[ti] : ti \in TI} \X (1 .. MaxQueueings)
NoOne == <<>>
IdleInvocation == [todo |-> <<>>, taken |-> {}]

Init ==
  /\ state = [ti \in TI |-> "none"]
  /\ queuings = [ti \in TI |-> 0] /\ starts = [ti \in TI |-> 0]
  /\ owner = [ti \in TI |-> NoOne]
  /\ clock = 0
  /\ queue = {}
  /\ invocation = [v \in Invocation |-> IdleInvocation]
  /\ executions = <<>>  \* the function with the empty domain
  /\ abandoned = {} /\ failures = 0

UnchangedQueue == UNCHANGED <<clock, queue, invocation>>
UnchangedTasks == UNCHANGED <<state, queuings, starts, owner, clock>>

\* The queueings so far, numbered for each task instance.
Queueings == UNION {{ti} \X (1 .. queuings[ti]) : ti \in TI}

\* A queueing is one execution, and that one attempt, or several of a Batch job.
AttemptsOf(ti) == IF ti \in BatchTI THEN BatchAttempts ELSE 1

Failure == failures < MaxFailures /\ failures' = failures + 1

-----------------------------------------------------------------------------
\* The critical section queues some task instances with one UPDATE, so with one
\* queued_dttm; the change stream sends an event about each.
QueueTis ==
  /\ clock' = clock + 1
  /\ \E S \in (SUBSET {ti \in TI : state[ti] \in SCHEDULEABLE_STATES}) \ {{}} :
       /\ Cardinality(Queueings) + Cardinality(S) <= MaxQueueings
       /\ state' = [ti \in TI |-> IF ti \in S THEN "queued" ELSE state[ti]]
       /\ queuings' = [ti \in TI |-> IF ti \in S THEN queuings[ti] + 1
                                    ELSE queuings[ti]]
       /\ queue' = queue \cup
                     [ti : S, dttm : {clock + 1}, receives : {0}, copy : {FALSE}]
  /\ UNCHANGED <<starts, owner, invocation, executions, abandoned, failures>>

\* A pass of the scheduler finds the dag run over its dagrun_timeout and skips the
\* task instances it read as unfinished, whatever a worker has made of them since.
\* Those that were not queued yet have a state of NULL, which IN does not find.
TimeOutRun ==
  /\ \E S \in (SUBSET {ti \in TI : queuings[ti] > 0 /\ state[ti] # "skipped"}) \ {{}} :
       state' = [ti \in TI |-> IF ti \in S THEN "skipped" ELSE state[ti]]
  /\ UNCHANGED <<queuings, starts, owner, executions, abandoned, failures>>
  /\ UnchangedQueue

\* The stream or the queue delivers an event twice.
Duplicate ==
  /\ Failure
  /\ \E e \in queue : ~e.copy /\ queue' = queue \cup {[e EXCEPT !.copy = TRUE]}
  /\ UNCHANGED <<invocation, executions, abandoned>>
  /\ UnchangedTasks

-----------------------------------------------------------------------------
(* The executors.                                                          *)

ReceiveUncounted(e) == e  \* mutant: an event never expires
Receive(e) == [e EXCEPT !.receives = @ + 1]

\* A batch comes from the queue of one executor, in any order.
TakeBatch(v) ==
  /\ invocation[v] = IdleInvocation
  /\ \E B \in (SUBSET queue) \ {{}} :
       \E todo \in [1 .. Cardinality(B) -> B] :
         /\ {todo[i] : i \in 1 .. Cardinality(B)} = B
         /\ {e.ti : e \in B} \subseteq BatchTI \/ {e.ti : e \in B} \cap BatchTI = {}
         /\ invocation' = [invocation EXCEPT ![v] =
                             [todo |-> todo, taken |-> {Receive(e) : e \in B}]]
         /\ queue' = queue \ B
  /\ UNCHANGED <<executions, abandoned, failures>>
  /\ UnchangedTasks

\* StepFunctionsNameCreator: a digest of the task instance, its queued_dttm and its
\* try number.
NameOfUpdate(e) == <<DigestOf[CHOOSE ti \in TI : TRUE], e.dttm>>  \* mutant: no map_index
Name(e) == <<DigestOf[e.ti], e.dttm>>

Known(e) == Name(e) \in DOMAIN executions
Same(e) == Known(e) /\ executions[Name(e)].ti = e.ti

\* Started already, for this task instance, and not closed.
IsRunning(e) == Same(e) /\ executions[Name(e)].pc # "closed"

NewExecution(e) == [ti |-> e.ti, pc |-> "submitted", attempt |-> 1, retries |-> 0]

\* start_execution
StartExecution(v) ==
  /\ invocation[v].todo # <<>>
  /\ LET e == Head(invocation[v].todo) IN
       \/ /\ ~Known(e)
          /\ executions' = [n \in DOMAIN executions \cup {Name(e)} |->
                              IF n = Name(e) THEN NewExecution(e) ELSE executions[n]]
       \/ IsRunning(e) /\ UNCHANGED executions
  /\ invocation' = [invocation EXCEPT ![v].todo = Tail(@)]
  /\ UNCHANGED <<queue, abandoned, failures>>
  /\ UnchangedTasks

\* The handler returns, and the batch is deleted.
EndBatch(v) ==
  /\ invocation[v].taken # {} /\ invocation[v].todo = <<>>
  /\ invocation' = [invocation EXCEPT ![v] = IdleInvocation]
  /\ UNCHANGED <<queue, executions, abandoned, failures>>
  /\ UnchangedTasks

ExpiredLate(e) == e.receives > MaxReceives  \* mutant: off by one
Expired(e) == e.receives = MaxReceives

\* The handler fails: the whole batch becomes visible again, but for the events
\* past their retention.  One that expires without ever having started an
\* execution leaves its task instance QUEUED.
GiveBack(v) ==
  LET taken == invocation[v].taken IN
  /\ invocation' = [invocation EXCEPT ![v] = IdleInvocation]
  /\ queue' = queue \cup {e \in taken : ~Expired(e)}
  /\ abandoned' = abandoned \cup
       {ti \in TI : \E e \in taken :
          e.ti = ti /\ Expired(e) /\ ~Same(e)}

\* ExecutionAlreadyExists: the execution of that name has ended, or belongs to
\* another task instance.  The batch executor retries it until the lambda times
\* out, which comes to the same.
RefuseName(v) ==
  /\ invocation[v].todo # <<>>
  /\ LET e == Head(invocation[v].todo) IN Known(e) /\ ~IsRunning(e)
  /\ GiveBack(v)
  /\ UNCHANGED <<executions, failures>>
  /\ UnchangedTasks

\* An AWS error or the timeout, after some of the executions were started.
FailBatch(v) ==
  /\ invocation[v].taken # {}
  /\ Failure
  /\ GiveBack(v)
  /\ UNCHANGED executions
  /\ UnchangedTasks

-----------------------------------------------------------------------------
(* An execution x: its worker, which may be attempted again if it is a     *)
(* Batch job, and its catcher.                                             *)

Ti(x) == executions[x].ti
At(x, pc) == executions[x].pc = pc
Goes(x, pc) == executions' = [executions EXCEPT ![x].pc = pc]
Sets(x, s) == state' = [state EXCEPT ![Ti(x)] = s]

RunnableUnlessFinished(x) == state[Ti(x)] \in UNFINISHED_STATES  \* mutant
Runnable(x) == state[Ti(x)] \in RUNNABLE_STATES

\* check_and_change_state_before_execution, with the row locked: RUNNING if the
\* state is runnable; NONE if the limits do not hold any more; else nothing, and
\* the worker returns without an error.
WorkerStarts(x) ==
  /\ At(x, "submitted") /\ Runnable(x)
  /\ Sets(x, "running") /\ Goes(x, "working")
  /\ starts' = [starts EXCEPT ![Ti(x)] = @ + 1]
  /\ owner' = [owner EXCEPT ![Ti(x)] = x]
  /\ UNCHANGED <<queuings, abandoned, failures>>
  /\ UnchangedQueue

WorkerPutsBack(x) ==
  /\ At(x, "submitted") /\ Runnable(x)
  /\ Sets(x, "none") /\ Goes(x, "closed")
  /\ UNCHANGED <<queuings, starts, owner, abandoned, failures>>
  /\ UnchangedQueue

\* A second attempt of a Batch job finds the task instance RUNNING, by its own
\* first attempt, and ends well: no catcher will run.
WorkerDeclines(x) ==
  /\ At(x, "submitted") /\ ~Runnable(x)
  /\ Goes(x, "closed")
  /\ abandoned' = IF state[Ti(x)] = "running" /\ owner[Ti(x)] = x
                  THEN abandoned \cup {Ti(x)} ELSE abandoned
  /\ UNCHANGED <<queue, invocation, failures>>
  /\ UnchangedTasks

\* The task ends; the process still has logs to write.
WorkerReports(x) ==
  /\ At(x, "working")
  /\ \E end \in {"success", "failed", "up_for_retry"} : Sets(x, end)
  /\ Goes(x, "reported")
  /\ UNCHANGED <<queuings, starts, owner, abandoned, failures>>
  /\ UnchangedQueue

\* The heartbeat sees a state that is not RUNNING, or another owner.
WorkerStops(x) ==
  /\ At(x, "working")
  /\ state[Ti(x)] # "running" \/ owner[Ti(x)] # x
  /\ Goes(x, "closed")
  /\ UNCHANGED <<queue, invocation, abandoned, failures>>
  /\ UnchangedTasks

WorkerReturns(x) ==
  /\ At(x, "reported")
  /\ Goes(x, "closed")
  /\ UNCHANGED <<queue, invocation, abandoned, failures>>
  /\ UnchangedTasks

CaughtNever(x) == Goes(x, "closed")  \* mutant: the worker's errors are not caught
Caught(x) == Goes(x, "caught")

\* The worker's lambda times out, its container is killed, or it raises, for one
\* because the DAG file is missing; a Batch job that exits with code 1 is tried
\* again, up to its number of attempts.
WorkerDies(x) ==
  /\ executions[x].pc \in {"submitted", "working", "reported"}
  /\ Failure
  /\ \/ Caught(x)
     \/ /\ executions[x].attempt < AttemptsOf(Ti(x))
        /\ executions' = [executions EXCEPT ![x].pc = "submitted", ![x].attempt = @ + 1]
  /\ UNCHANGED <<queue, invocation, abandoned>>
  /\ UnchangedTasks

\* ti.error(): FAILED, whatever the state is by now.
Catch(x) ==
  /\ At(x, "caught")
  /\ Sets(x, "failed") /\ Goes(x, "closed")
  /\ UNCHANGED <<queuings, starts, owner, abandoned, failures>>
  /\ UnchangedQueue

Leaves(x) == abandoned' = IF state[Ti(x)] \in EXECUTION_STATES
                          THEN abandoned \cup {Ti(x)} ELSE abandoned

\* The catcher does not find the DAG in its files, and returns.
CatchWithoutDag(x) ==
  /\ At(x, "caught")
  /\ Failure
  /\ Goes(x, "closed") /\ Leaves(x)
  /\ UNCHANGED <<queue, invocation>>
  /\ UnchangedTasks

Retries(x) == IF Ti(x) \in BatchTI THEN 0 ELSE CatcherRetries

CatcherFails(x) ==
  /\ At(x, "caught")
  /\ Failure
  /\ IF executions[x].retries < Retries(x)
     THEN executions' = [executions EXCEPT ![x].retries = @ + 1] /\ UNCHANGED abandoned
     ELSE Goes(x, "closed") /\ Leaves(x)
  /\ UNCHANGED <<queue, invocation>>
  /\ UnchangedTasks

-----------------------------------------------------------------------------
ExecutorStep(v) ==
  TakeBatch(v) \/ StartExecution(v) \/ EndBatch(v) \/ RefuseName(v)

ExecutionStep(x) ==
  \/ WorkerStarts(x) \/ WorkerPutsBack(x) \/ WorkerDeclines(x)
  \/ WorkerReports(x) \/ WorkerStops(x) \/ WorkerReturns(x)
  \/ Catch(x)

ExecutionFailure(x) == WorkerDies(x) \/ CatchWithoutDag(x) \/ CatcherFails(x)

Next ==
  \/ QueueTis
  \/ TimeOutRun
  \/ Duplicate
  \/ \E v \in Invocation : ExecutorStep(v) \/ FailBatch(v)
  \/ \E x \in DOMAIN executions : ExecutionStep(x) \/ ExecutionFailure(x)

\* Lambda polls a queue that is not empty; an execution goes on; and a task ends,
\* if only because its worker has a timeout.
Spec ==
  /\ Init /\ [][Next]_vars
  /\ \A v \in Invocation : WF_vars(ExecutorStep(v))
  /\ \A x \in Names : WF_vars(x \in DOMAIN executions /\ ExecutionStep(x))

-----------------------------------------------------------------------------
Execution ==
  [ti : TI,
   pc : {"submitted", "working", "reported", "caught", "closed"},
   attempt : 1 .. BatchAttempts, retries : 0 .. CatcherRetries]

\* Every variable has its type; an execution has the name of a queueing.
TypeOK ==
  /\ state \in [TI -> TaskInstanceState]
  /\ queuings \in [TI -> 0 .. MaxQueueings] /\ clock \in 0 .. MaxQueueings
  /\ starts \in [TI -> Nat] /\ owner \in [TI -> Names \cup {NoOne}]
  /\ queue \subseteq Event
  /\ invocation \in [Invocation -> [todo : Seq(Event), taken : SUBSET Event]]
  /\ DOMAIN executions \subseteq Names
  /\ \A x \in DOMAIN executions : executions[x] \in Execution
  /\ abandoned \subseteq TI /\ failures \in 0 .. MaxFailures

\* The executions whose worker is at work on ti.
Working(ti) == {x \in DOMAIN executions : Ti(x) = ti /\ At(x, "working")}

Runs == INSTANCE TaskRuns WITH
          Run <- Names, Attempts <- [ti \in TI |-> AttemptsOf(ti)],
          atWork <- [ti \in TI |-> Working(ti)]

\* No two workers are ever at work on one task instance: not a redelivered event's,
\* not the second attempt's, not one whose task instance a catcher has failed or
\* the scheduler has skipped; and it is not queued again before its worker is gone.
\* A queueing runs the task once for each of its attempts, however often its event
\* is delivered.
RunsOneAtATime == Runs!Spec

Backed(ti) ==
  \/ \E e \in queue : e.ti = ti
  \/ \E v \in Invocation : \E e \in invocation[v].taken : e.ti = ti
  \/ \E x \in DOMAIN executions : Ti(x) = ti /\ ~At(x, "closed")

\* A task instance that occupies a slot has somebody who will release it: an event
\* on its way, or an execution that has not ended.  The exceptions are an event
\* that expired, a catcher that found no DAG or kept failing, and a second attempt
\* of a Batch job.
SlotHasOwner ==
  \A ti \in TI : state[ti] \in EXECUTION_STATES => Backed(ti) \/ ti \in abandoned

\* Without a failure, and without two task instances that share a digest, no task
\* instance is abandoned.
AbandonedByFailureOnly == failures = 0 => abandoned = {}

\* A queued task instance gives its slot back, unless it is abandoned.
SlotIsReleased ==
  \A ti \in TI : state[ti] \in EXECUTION_STATES ~>
                   state[ti] \notin EXECUTION_STATES \/ ti \in abandoned
=============================================================================
