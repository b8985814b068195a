------------------------------ MODULE TaskRuns ------------------------------
(***************************************************************************)
(* What the executors, the state machines and the workers promise together *)
(* of a task instance that the scheduler queues: one worker at a time is   *)
(* at work on it, it is not queued again meanwhile, and it is started no   *)
(* more often than its queueings allow, each of which has a number of      *)
(* attempts.  Nothing is said of deliveries, names or retries: those are   *)
(* how the promise is kept.                                                *)
(***************************************************************************)
EXTENDS Naturals

CONSTANTS
  TI,        \* task instances
  Run,       \* runs: what a worker may be part of
  Attempts   \* attempts of a queueing, for each task instance

VARIABLES
  queuings,  \* how often a task instance was queued
  starts,    \* how often a worker started it
  atWork     \* the runs whose workers are at work on it

vars == <<queuings, starts, atWork>>

Idle(ti) == atWork[ti] = {}

Init ==
  /\ queuings = [ti \in TI |-> 0] /\ starts = [ti \in TI |-> 0]
  /\ atWork = [ti \in TI |-> {}]

Queue ==
  /\ \E S \in SUBSET {ti \in TI : Idle(ti)} :
       queuings' = [ti \in TI |-> IF ti \in S THEN queuings[ti] + 1 ELSE queuings[ti]]
  /\ UNCHANGED <<starts, atWork>>

Start(ti, r) ==
  /\ Idle(ti)
  /\ starts[ti] < queuings[ti] * Attempts[ti]
  /\ starts' = [starts EXCEPT ![ti] = @ + 1]
  /\ atWork' = [atWork EXCEPT ![ti] = {r}]
  /\ UNCHANGED queuings

\* The worker reports, stops or dies.
End(ti) ==
  /\ atWork' = [atWork EXCEPT ![ti] = {}]
  /\ UNCHANGED <<queuings, starts>>

Next ==
  \/ Queue
  \/ \E ti \in TI : End(ti) \/ \E r \in Run : Start(ti, r)

Spec == Init /\ [][Next]_vars
=============================================================================
