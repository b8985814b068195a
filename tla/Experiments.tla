---------------------------- MODULE Experiments ----------------------------
(***************************************************************************)
(* The experiment runner, as one of its controllers drives one             *)
(* installation of Airflow (beeflow, or Amazon's MWAA) through a list of   *)
(* experiments.  An experiment is a thread that publishes dag files, waits *)
(* for Airflow to know the dags, unpauses them, collects metrics, pauses   *)
(* them, has a dag export the metadata and removes everything.  Everything *)
(* is a command line or a bucket away, so all of it happens while files    *)
(* are parsed and tasks run.  An exception ends the thread where it is:    *)
(* nothing is undone, and the next experiment starts.                      *)
(*                                                                         *)
(* A file holds one dag and has its name.  A thread sleeps between two     *)
(* steps, so anything may happen in between.  How files are parsed is in   *)
(* DagParsing, how tasks run in the other modules.                         *)
(***************************************************************************)
EXTENDS Naturals, SequencesExt

CONSTANTS
  Dag,         \* dags of the experiments
  ExportDag,   \* export_dag_id
  Plan,        \* the experiments, in order: the dag_ids of each
  MaxFailures  \* bound: calls that fail

ASSUME ExperimentsAssumption ==
  /\ ExportDag \notin Dag
  /\ Plan \in Seq(Seq(Dag) \ {<<>>})
  /\ MaxFailures \in Nat

AnyDag == Dag \cup {ExportDag}

VARIABLES
  type,        \* controller_type: "beeflow" or "mwaa"
  experiment,  \* the experiment that runs, as its place in the plan
  done,        \* steps its thread has done
  bucket,      \* files in the bucket
  pending,     \* the bucket has changed since the files were last downloaded
  disk,        \* files on the disk they are parsed from
  parsing,     \* the files have been downloaded and not yet been parsed
  known,       \* dags with a row in the dag table
  unpaused,    \* those with is_paused = FALSE
  active,      \* those with is_active = TRUE
  busy,        \* dags with a running task instance
  triggered,   \* the export dag has a run that has not started
  ran,         \* of a dag, the experiments its dag runs are from
  failed,      \* dags whose last experiment raised an exception
  kept,        \* dags this experiment could not delete when it began
  failures

vars == <<type, experiment, done, bucket, pending, disk, parsing, known, unpaused,
          active, busy, triggered, ran, failed, kept, failures>>
threadVars == <<experiment, done, failed, kept, failures>>
fileVars == <<bucket, pending, disk, parsing>>
rowVars == <<known, unpaused, active, busy, triggered, ran>>

Init ==
  /\ type \in {"beeflow", "mwaa"}
  /\ experiment = 1 /\ done = 0 /\ failed = {} /\ kept = {} /\ failures = 0
  /\ bucket = {} /\ pending = FALSE /\ disk = {} /\ parsing = FALSE
  /\ known = {} /\ unpaused = {} /\ active = {} /\ busy = {}
  /\ triggered = FALSE /\ ran = [d \in AnyDag |-> {}]

-----------------------------------------------------------------------------
(* What a thread does: run_experiment, as the sequence of its calls.       *)

Step(op, dag) == [op |-> op, dags |-> {dag}]
ForEach(op, dags) == [i \in DOMAIN dags |-> Step(op, dags[i])]
Whole(op) == [op |-> op, dags |-> {}]

CreateDags(dags) ==
  ForEach("try_delete", dags)
    \o <<Whole("clear"), [op |-> "publish", dags |-> ToSet(dags)]>>
    \o ForEach("wait", dags)

StartDags(dags) == ForEach("start", dags)
StopDags(dags) == ForEach("stop", dags)

ExportMetrics ==
  <<Step("publish", ExportDag), Step("wait", ExportDag), Step("start", ExportDag),
    Step("trigger", ExportDag), Step("stop", ExportDag), Step("delete", ExportDag)>>

DeleteDagsQuietly(dags) == ForEach("try_delete", dags)  \* mutant: errors are swallowed
DeleteDags(dags) == ForEach("delete", dags)

RunExperiment(dags) ==
  <<Whole("scale")>> \o CreateDags(dags) \o StartDags(dags) \o <<Whole("collect")>>
    \o StopDags(dags) \o ExportMetrics \o DeleteDags(dags) \o <<Whole("clear")>>

Programs == [e \in DOMAIN Plan |-> RunExperiment(Plan[e])]

Running == experiment \in DOMAIN Plan
Own == IF Running THEN ToSet(Plan[experiment]) ELSE {}
Current == Programs[experiment][done + 1]
At(op) == Running /\ Current.op = op

\* The thread goes on; after its last step it ends and the next one starts.
AdvanceBeyond ==  \* mutant: one step too many
  /\ done' = done + 1 /\ UNCHANGED <<experiment, kept, failed>>
Advance ==
  /\ IF done + 1 < Len(Programs[experiment])
     THEN done' = done + 1 /\ UNCHANGED <<experiment, kept, failed>>
     ELSE /\ done' = 0 /\ experiment' = experiment + 1 /\ kept' = {}
          /\ failed' = failed \ (Own \cup {ExportDag})

\* __try_delete_dags goes on after an exception, and the dags may still be there.
Swallow(dags) == done' = done + 1 /\ kept' = kept \cup dags /\ UNCHANGED <<experiment, failed>>

\* An exception: nobody catches it.
Raise ==
  /\ experiment' = experiment + 1 /\ done' = 0 /\ kept' = {}
  /\ failed' = failed \cup Own \cup {ExportDag}

-----------------------------------------------------------------------------
(* The calls: what each does, if it does anything.                         *)

SetPaused(dags) ==
  unpaused' = unpaused \ dags /\ UNCHANGED <<known, active, busy, triggered, ran>>

\* delete_dag: the row goes and everything that refers to it.  With a running task
\* instance the dag stays; without a row there is nothing to delete.
Deletable(d) == d \in known \ busy
Delete(d) ==
  /\ known' = known \ {d} /\ unpaused' = unpaused \ {d} /\ active' = active \ {d}
  /\ ran' = [ran EXCEPT ![d] = {}]
  /\ triggered' = (triggered /\ d # ExportDag)
  /\ UNCHANGED busy

\* What a call on dags does, once Airflow is ready for it.
Possible(op, dags) ==
  CASE op \in {"wait", "stop"} -> dags \subseteq known
    [] op = "start" -> dags \subseteq known /\ (type = "mwaa" => dags \subseteq disk)
    [] op = "trigger" -> dags \subseteq active
    [] op \in {"delete", "try_delete"} -> \A d \in dags : Deletable(d)
    [] OTHER -> TRUE

Effect(op, dags) ==
  \/ op = "wait" /\ IF type = "mwaa" THEN SetPaused(dags) ELSE UNCHANGED rowVars
  \/ op = "stop" /\ SetPaused(dags)
  \/ /\ op = "start" /\ unpaused' = unpaused \cup dags
     /\ UNCHANGED <<known, active, busy, triggered, ran>>
  \/ /\ op = "trigger" /\ triggered' = TRUE
     /\ UNCHANGED <<known, unpaused, active, busy, ran>>
  \/ op \in {"delete", "try_delete"} /\ \E d \in dags : Delete(d)
  \/ op \in {"scale", "collect"} /\ UNCHANGED rowVars

IsCall == ~(At("clear") \/ At("publish"))

\* A call that works.
Call ==
  /\ Running /\ IsCall
  /\ Possible(Current.op, Current.dags)
  /\ Effect(Current.op, Current.dags)
  /\ Advance
  /\ UNCHANGED <<type, fileVars, failures>>

\* A call Airflow refuses, or that is given up: wait_until_dag_exists polls, and
\* start_dag of MWAA tries again, until they time out.
Refused ==
  /\ Running /\ IsCall
  /\ ~Possible(Current.op, Current.dags)
  /\ IF Current.op = "try_delete"
     THEN Swallow(Current.dags \cap known)
     ELSE Raise
  /\ UNCHANGED <<type, fileVars, rowVars, failures>>

\* A call fails: the network, the lambda or the web server, before or after it has
\* done its work.
CallFails ==
  /\ Running /\ IsCall /\ Current.op # "collect"
  /\ failures < MaxFailures /\ failures' = failures + 1
  /\ \/ UNCHANGED rowVars
     \/ Possible(Current.op, Current.dags) /\ Effect(Current.op, Current.dags)
  /\ IF Current.op = "try_delete"
     THEN Swallow(Current.dags \cap known')
     ELSE Raise
  /\ UNCHANGED <<type, fileVars>>

\* The bucket manager.  Files are deleted in batches and uploaded one by one, and
\* either may fail.
ClearDags ==
  /\ At("clear")
  /\ \/ bucket' = {} /\ Advance /\ UNCHANGED failures
     \/ /\ failures < MaxFailures /\ failures' = failures + 1
        /\ bucket' \in SUBSET bucket
        /\ Raise
  /\ pending' = (pending \/ bucket' # bucket)
  /\ UNCHANGED <<type, disk, parsing, rowVars>>

PublishDags ==
  /\ At("publish")
  /\ pending' = TRUE
  /\ \/ /\ bucket' = bucket \cup Current.dags
        /\ Advance /\ UNCHANGED failures
     \/ /\ failures < MaxFailures /\ failures' = failures + 1
        /\ \E some \in SUBSET Current.dags : bucket' = bucket \cup some
        /\ Raise
  /\ UNCHANGED <<type, disk, parsing, rowVars>>

-----------------------------------------------------------------------------
(* Airflow.                                                                *)

\* The files are downloaded: by the processor lambda when the bucket has changed, to
\* a disk nobody clears, that is new if the container is; by MWAA at any time.
Download ==
  /\ ~parsing /\ parsing' = TRUE
  /\ type = "beeflow" => pending
  /\ pending' = FALSE
  /\ disk' \in {bucket} \cup IF type = "beeflow" THEN {disk \cup bucket} ELSE {}
  /\ UNCHANGED <<type, threadVars, bucket, rowVars>>

\* They are parsed: a new dag is paused, one whose file is gone is deactivated.
Parse ==
  /\ parsing /\ parsing' = FALSE
  /\ known' = known \cup disk /\ active' = disk
  /\ UNCHANGED <<type, threadVars, bucket, pending, disk, unpaused, busy, triggered, ran>>

\* The scheduler starts a task of a dag, the export dag's only if it was triggered.
StartTask(d) ==
  /\ d \in (unpaused \cap active) \ busy
  /\ d = ExportDag => triggered
  /\ busy' = busy \cup {d} /\ triggered' = (triggered /\ d # ExportDag)
  /\ ran' = [ran EXCEPT ![d] = @ \cup {experiment}]
  /\ UNCHANGED <<type, threadVars, fileVars, known, unpaused, active>>

EndTask(d) ==
  /\ d \in busy /\ busy' = busy \ {d}
  /\ UNCHANGED <<type, threadVars, fileVars, known, unpaused, active, triggered, ran>>

-----------------------------------------------------------------------------
Thread == Call \/ Refused \/ CallFails \/ ClearDags \/ PublishDags

Airflow == Download \/ Parse \/ \E d \in AnyDag : StartTask(d) \/ EndTask(d)

Next == Thread \/ Airflow

Spec == Init /\ [][Next]_vars

-----------------------------------------------------------------------------
\* Every variable has its type; a dag without a row is neither started nor parsed.
TypeOK ==
  /\ type \in {"beeflow", "mwaa"}
  /\ experiment \in 1 .. Len(Plan) + 1
  /\ done \in 0 .. IF Running THEN Len(Programs[experiment]) - 1 ELSE 0
  /\ bucket \subseteq AnyDag /\ disk \subseteq AnyDag
  /\ pending \in BOOLEAN /\ parsing \in BOOLEAN /\ triggered \in BOOLEAN
  /\ known \subseteq AnyDag /\ unpaused \cup active \cup busy \subseteq known
  /\ ran \in [AnyDag -> SUBSET (1 .. Len(Plan) + 1)]
  /\ failed \subseteq AnyDag /\ kept \subseteq Dag /\ failures \in 0 .. MaxFailures

\* Metrics are collected of the experiment's own dags: all of them are started, and
\* another dag runs at the same time, or still has a task that does, only if the
\* last experiment it was in raised an exception.
MeasuresItsOwn ==
  At("collect") =>
    /\ Own \subseteq unpaused
    /\ \A d \in AnyDag \ Own : d \in busy \cup (unpaused \cap active) => d \in failed

\* When the export is triggered the experiment's dags are paused, and their runs are
\* of this experiment, unless an old dag could not be deleted when it began, for its
\* tasks were still running or the call failed.
ExportsItsOwn ==
  At("trigger") =>
    /\ Own \cap unpaused = {}
    /\ \A d \in Own : ran[d] \subseteq {experiment} \/ d \in kept

\* The results of an experiment are its own, those measured as those exported,
\* whatever the one before left behind.
ResultsAreItsOwn == MeasuresItsOwn /\ ExportsItsOwn
=============================================================================
