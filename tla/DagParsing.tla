------------------------------ MODULE DagParsing ------------------------------
(***************************************************************************)
(* How a change of a DAG file reaches the metadata database.  The bucket   *)
(* notifies a wait list; a trigger lambda answers any batch of             *)
(* notifications with one message, the current minute, on a FIFO queue     *)
(* that drops a message whose content it has seen in the last 5 minutes;   *)
(* and a processor lambda (one at a time) downloads the bucket file by     *)
(* file, parses what is on its disk and writes it to the database.         *)
(*                                                                         *)
(* Not modelled: the expiry of messages.  Both queues redeliver the batch  *)
(* of a failed lambda, and MaxFailures stays below the number of receives  *)
(* that fit into the retention (600 s / 80 s and 1000 s / 310 s).          *)
(***************************************************************************)
EXTENDS Naturals, Sequences, FiniteSets

CONSTANTS
  File,        \* keys of the bucket that hold DAG files
  MaxChanges,  \* bound: uploads and removals
  MaxMinute,   \* bound: minutes on the clock, all within the 5 of the FIFO
  MaxFailures  \* bound: lambda invocations that crash or time out

ASSUME ParsingAssumption ==
  /\ MaxChanges \in Nat /\ MaxFailures \in Nat
  /\ MaxMinute \in Nat \ {0}

Absent == 0
Version == 0 .. MaxChanges  \* contents of a file, Absent or the change it is from

VARIABLES
  bucket,    \* what the bucket holds
  changes,   \* changes so far
  minute,    \* the clock, int(time.time() / 60)
  waiting,   \* changed files with a notification on the wait list
  trigger,   \* the trigger lambda: its batch and the minute it has read
  funnel,    \* the FIFO queue of minutes
  seen,      \* contents the FIFO deduplicates against
  dropped,   \* files whose notification was answered by a dropped message
  promised,  \* the bucket as it was when the FIFO last accepted a message, except
             \* for what has been removed since
  processor, \* the processor lambda: its step, batch, listed files, files to do
  local,     \* files on the disk of the processor's container
  parsed,    \* contents the metadata database knows, Absent if deactivated
  failures   \* failed invocations so far

vars == <<bucket, changes, minute, waiting, trigger, funnel, seen, dropped,
          promised, processor, local, parsed, failures>>

s3Vars == <<bucket, changes>>
triggerVars == <<waiting, trigger, funnel, seen, dropped, promised>>
processorVars == <<processor, local, parsed>>

NoTrigger == [pc |-> "idle", batch |-> {}, minute |-> 0]
NoProcessor == [pc |-> "idle", batch |-> 0, listed |-> {}, todo |-> {}]

Empty == [f \in File |-> Absent]

Init ==
  /\ bucket = Empty /\ changes = 0
  /\ minute = 1
  /\ waiting = {} /\ trigger = NoTrigger
  /\ funnel = <<>> /\ seen = {} /\ dropped = {} /\ promised = Empty
  /\ processor = NoProcessor /\ local = Empty /\ parsed = Empty
  /\ failures = 0

-----------------------------------------------------------------------------
Tick ==
  /\ minute < MaxMinute
  /\ minute' = minute + 1
  /\ UNCHANGED <<s3Vars, triggerVars, processorVars, failures>>

\* s3:ObjectCreated and s3:ObjectRemoved both notify the wait list.
Change(f, v) ==
  /\ changes < MaxChanges
  /\ changes' = changes + 1
  /\ bucket' = [bucket EXCEPT ![f] = v]
  /\ waiting' = waiting \cup {f}
  /\ dropped' = dropped \ {f}
  /\ promised' = [promised EXCEPT ![f] = IF v = Absent THEN Absent ELSE @]
  /\ UNCHANGED <<minute, trigger, funnel, seen, processorVars, failures>>

Upload(f) == Change(f, changes + 1)
Remove(f) == bucket[f] # Absent /\ Change(f, Absent)

\* The handler gets a batch of notifications; prepare_event reads the clock.
TakeNotifications(B) ==
  /\ trigger.pc = "idle"
  /\ B # {}
  /\ trigger' = [pc |-> "send", batch |-> B, minute |-> minute]
  /\ waiting' = waiting \ B
  /\ UNCHANGED <<s3Vars, minute, funnel, seen, dropped, promised, processorVars,
                 failures>>

\* mutant: the FIFO queue without content-based deduplication
SendTriggerAlways ==
  /\ trigger.pc = "send"
  /\ funnel' = Append(funnel, trigger.minute)
  /\ seen' = seen \cup {trigger.minute}
  /\ promised' = bucket
  /\ trigger' = [trigger EXCEPT !.pc = "return"]
  /\ UNCHANGED <<s3Vars, minute, waiting, dropped, processorVars, failures>>

\* send_message: the FIFO acknowledges a duplicate, and drops it.
SendTrigger ==
  LET new == trigger.minute \notin seen IN
  /\ trigger.pc = "send"
  /\ funnel' = IF new THEN Append(funnel, trigger.minute) ELSE funnel
  /\ seen' = seen \cup {trigger.minute}
  /\ promised' = IF new THEN bucket ELSE promised
  /\ dropped' = IF new THEN {} ELSE dropped \cup trigger.batch
  /\ trigger' = [trigger EXCEPT !.pc = "return"]
  /\ UNCHANGED <<s3Vars, minute, waiting, processorVars, failures>>

\* The handler returns, and the notifications are deleted.
ReturnTrigger ==
  /\ trigger.pc = "return"
  /\ trigger' = NoTrigger
  /\ UNCHANGED <<s3Vars, minute, waiting, funnel, seen, dropped, promised,
                 processorVars, failures>>

\* The handler fails, before or after it sent: the wait list delivers again.
FailTrigger ==
  /\ trigger.pc # "idle"
  /\ failures < MaxFailures
  /\ failures' = failures + 1
  /\ waiting' = waiting \cup trigger.batch
  /\ trigger' = NoTrigger
  /\ UNCHANGED <<s3Vars, minute, funnel, seen, dropped, promised, processorVars>>

-----------------------------------------------------------------------------
Present(b) == {f \in File : b[f] # Absent}

\* The handler gets the first n messages of the group and lists the bucket.  A
\* new container starts with an empty disk, a warm one with its old files.
TakeTriggers(n) ==
  /\ processor.pc = "idle"
  /\ processor' = [pc |-> "download", batch |-> n,
                   listed |-> Present(bucket), todo |-> Present(bucket)]
  /\ local' \in {local, Empty}
  /\ UNCHANGED <<s3Vars, minute, triggerVars, parsed, failures>>

\* mutant: a file that is on the disk already is not downloaded again
DownloadSkippingLocal(f) ==
  /\ processor.pc = "download"
  /\ local' = [local EXCEPT ![f] = IF @ = Absent THEN bucket[f] ELSE @]
  /\ processor' = [processor EXCEPT !.todo = @ \ {f}]
  /\ UNCHANGED <<s3Vars, minute, triggerVars, parsed, failures>>

\* download_file of a listed key: its contents are those of this moment.
Download(f) ==
  /\ processor.pc = "download"
  /\ bucket[f] # Absent
  /\ local' = [local EXCEPT ![f] = bucket[f]]
  /\ processor' = [processor EXCEPT !.todo = @ \ {f}]
  /\ UNCHANGED <<s3Vars, minute, triggerVars, parsed, failures>>

\* The parsing loops: at least as many as files were downloaded.  The agent takes
\* the latest files first, so that all of those are parsed, whatever its
\* parallelism; old files of a warm container, and files that are gone, are only
\* seen to as far as there are loops left.
StartParsing ==
  /\ processor.pc = "download"
  /\ processor.todo = {}
  /\ \E S \in SUBSET File :
       /\ processor.listed \subseteq S
       /\ processor' = [processor EXCEPT !.pc = "parse", !.todo = S]
  /\ UNCHANGED <<s3Vars, minute, triggerVars, local, parsed, failures>>

Parse(f) ==
  /\ processor.pc = "parse"
  /\ parsed' = [parsed EXCEPT ![f] = local[f]]
  /\ processor' = [processor EXCEPT !.todo = @ \ {f}]
  /\ UNCHANGED <<s3Vars, minute, triggerVars, local, failures>>

\* The handler returns, and its messages are deleted.
ReturnProcessor ==
  /\ processor.pc = "parse"
  /\ processor.todo = {}
  /\ funnel' = SubSeq(funnel, processor.batch + 1, Len(funnel))
  /\ processor' = NoProcessor
  /\ UNCHANGED <<s3Vars, minute, waiting, trigger, seen, dropped, promised, local,
                 parsed, failures>>

\* mutant: the messages are deleted although the handler failed
FailProcessorDeleting ==
  /\ processor.pc # "idle"
  /\ processor' = NoProcessor
  /\ funnel' = SubSeq(funnel, processor.batch + 1, Len(funnel))
  /\ UNCHANGED <<s3Vars, minute, waiting, trigger, seen, dropped, promised, local,
                 parsed, failures>>

\* The handler times out, or a listed key is gone when it is downloaded: the
\* messages stay, and hold up their group until they are visible again.
FailProcessor ==
  /\ processor.pc # "idle"
  /\ \/ failures < MaxFailures /\ failures' = failures + 1
     \/ /\ processor.pc = "download"
        /\ \E f \in processor.todo : bucket[f] = Absent
        /\ UNCHANGED failures
  /\ processor' = NoProcessor
  /\ UNCHANGED <<s3Vars, minute, triggerVars, local, parsed>>

-----------------------------------------------------------------------------
TriggerStep ==
  \/ \E B \in SUBSET waiting : TakeNotifications(B)
  \/ SendTrigger
  \/ ReturnTrigger

ProcessorStep ==
  \/ \E n \in 1 .. Len(funnel) : TakeTriggers(n)
  \/ \E f \in processor.todo : Download(f)
  \/ StartParsing
  \/ \E f \in processor.todo : Parse(f)
  \/ ReturnProcessor

Next ==
  \/ Tick
  \/ \E f \in File : Upload(f) \/ Remove(f)
  \/ TriggerStep
  \/ FailTrigger
  \/ ProcessorStep
  \/ FailProcessor

\* The queues deliver and the lambdas run; nothing says when users change files,
\* when a lambda fails, or (within the bounds) how fast the clock goes.
Fairness ==
  /\ WF_vars(TriggerStep)
  /\ WF_vars(ProcessorStep)
  /\ WF_vars(FailProcessor /\ UNCHANGED failures)

Spec == Init /\ [][Next]_vars /\ Fairness

-----------------------------------------------------------------------------
\* Every variable has its type, and a batch that is being processed is still in the
\* funnel.
TypeOK ==
  /\ bucket \in [File -> Version] /\ changes \in 0 .. MaxChanges
  /\ minute \in 1 .. MaxMinute
  /\ waiting \subseteq File
  /\ trigger \in [pc : {"idle", "send", "return"}, batch : SUBSET File,
                  minute : 0 .. MaxMinute]
  /\ funnel \in Seq(1 .. MaxMinute) /\ seen \subseteq 1 .. MaxMinute
  /\ dropped \subseteq File /\ promised \in [File -> Version]
  /\ processor \in [pc : {"idle", "download", "parse"}, batch : 0 .. MaxMinute,
                    listed : SUBSET File, todo : SUBSET File]
  /\ processor.batch <= Len(funnel)
  /\ local \in [File -> Version] /\ parsed \in [File -> Version]
  /\ failures \in 0 .. MaxFailures

Settled ==
  waiting = {} /\ trigger.pc = "idle" /\ funnel = <<>> /\ processor.pc = "idle"

\* Once the queues are drained, a file whose last upload the database does not
\* know lost it to the deduplication: no interleaving of uploads, downloads,
\* crashes and redeliveries loses one in another way.
OnlyDedupLosesUploads ==
  Settled => \A f \in File :
               bucket[f] # Absent /\ parsed[f] # bucket[f] => f \in dropped

\* An accepted message is kept: what the bucket held when the FIFO accepted it is
\* parsed sooner or later, or something newer is.
AcceptedIsParsed ==
  \A f \in File, v \in Version \ {Absent} :
    (promised[f] = v) ~> (parsed[f] >= v \/ promised[f] = Absent)

\* What trigger.py promises: reprocessing is triggered if a DAG changed less than
\* 5 minutes after the last one, so that every upload ends up in the database.
UploadIsParsed ==
  \A f \in File, v \in Version \ {Absent} :
    (bucket[f] = v) ~> (parsed[f] = v \/ bucket[f] # v)
=============================================================================
