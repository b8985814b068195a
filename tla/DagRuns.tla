------------------------------ MODULE DagRuns ------------------------------
(***************************************************************************)
(* What the scheduler promises of the runs of a dag.  A run is created     *)
(* once, queued; it is started at most once, and ends at most once, for    *)
(* good.  No more than max_active_runs are running, and the scheduler does *)
(* not pile up more than that many either: while as many of its own are    *)
(* queued or running, it creates no other.  The run a user triggers may be *)
(* one more.  Nothing is said of intervals, passes and events.             *)
(***************************************************************************)
EXTENDS Naturals, FiniteSets

CONSTANT Triggered  \* the run a user triggers

VARIABLES
  run,   \* the state of each run, "none" for one that does not exist
  limit  \* max_active_runs

vars == <<run, limit>>

Having(states) == {r \in DOMAIN run : run[r] \in states}
Own(states) == Having(states) \ {Triggered}

Init == run = [r \in DOMAIN run |-> "none"] /\ limit \in Nat \ {0}

Create(r) ==
  /\ run[r] = "none"
  /\ r # Triggered => Cardinality(Own({"queued", "running"})) < limit
  /\ run' = [run EXCEPT ![r] = "queued"]

Start(S) ==
  /\ S \subseteq Having({"queued"})
  /\ Cardinality(Having({"running"}) \cup S) <= limit
  /\ run' = [r \in DOMAIN run |-> IF r \in S THEN "running" ELSE run[r]]

\* By the scheduler, a user or a timer; a run may end before it started.
End(S) ==
  /\ S \subseteq Having({"queued", "running"})
  /\ \E end \in [S -> {"success", "failed"}] :
       run' = [r \in DOMAIN run |-> IF r \in S THEN end[r] ELSE run[r]]

Next ==
  /\ \/ \E r \in DOMAIN run : Create(r)
     \/ \E S \in SUBSET DOMAIN run : Start(S) \/ End(S)
  /\ UNCHANGED limit

Spec == Init /\ [][Next]_vars
=============================================================================
