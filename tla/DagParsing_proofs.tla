-------------------------- MODULE DagParsing_proofs --------------------------
(***************************************************************************)
(* The types of DagParsing, and its main invariant: whatever the order of  *)
(* uploads, downloads, crashes and redeliveries, only the deduplication of *)
(* the FIFO queue keeps an upload from the metadata database.              *)
(***************************************************************************)
EXTENDS DagParsing, FiniteSetTheorems, SequenceTheorems, TLAPS

\* A lambda at work has a batch, and the funnel is never longer than the number
\* of minutes it has accepted a message for.
Shape ==
  /\ trigger.pc # "idle" => trigger.minute \in 1 .. MaxMinute
  /\ processor.pc = "idle" => processor.batch = 0
  /\ processor.pc # "idle" => processor.batch >= 1
  /\ Len(funnel) <= Cardinality(seen)

\* A run of the processor that has not begun yet will see the file.
Announced(f) ==
  \/ f \in waiting
  \/ trigger.pc = "send" /\ f \in trigger.batch
  \/ Len(funnel) > processor.batch

\* The run that goes on brings the file into the database, or, if none does, the
\* last one has.  A listed file is always downloaded again, which is what keeps
\* the stale copy of a warm container from being parsed.
Covered(f) ==
  \/ processor.pc = "idle" /\ parsed[f] = bucket[f]
  \/ /\ processor.pc = "download" /\ f \in processor.listed
     /\ f \in processor.todo \/ local[f] = bucket[f]
  \/ /\ processor.pc = "parse" /\ f \in processor.todo
     /\ local[f] = bucket[f]
  \/ /\ processor.pc = "parse" /\ f \notin processor.todo
     /\ parsed[f] = bucket[f]

UploadsCovered ==
  \A f \in File : bucket[f] # Absent => f \in dropped \/ Announced(f) \/ Covered(f)

IInv == TypeOK /\ Shape /\ UploadsCovered

-----------------------------------------------------------------------------
\* The deduplication bounds the funnel: it holds at most one message a minute.
LEMMA FunnelBounded ==
  ASSUME TypeOK, Shape
  PROVE  /\ IsFiniteSet(seen)
         /\ Len(funnel) <= MaxMinute
<1>1. IsFiniteSet(1 .. MaxMinute) /\ Cardinality(1 .. MaxMinute) = MaxMinute
  BY ParsingAssumption, FS_Interval
<1>2. IsFiniteSet(seen) /\ Cardinality(seen) <= MaxMinute
  <2>1. seen \in SUBSET (1 .. MaxMinute)  BY DEF TypeOK
  <2> QED  BY <1>1, <2>1, FS_Subset
<1> QED  BY <1>1, <1>2, FS_CardinalityType, ParsingAssumption DEF TypeOK, Shape

\* What Append gives, with the type of the longer sequence.
LEMMA AppendOne ==
  ASSUME NEW S, NEW s \in Seq(S), NEW x \in S
  PROVE  /\ Append(s, x) \in Seq(S)
         /\ Len(Append(s, x)) = Len(s) + 1
<1> QED  BY AppendProperties

LEMMA InitIInv == Init => IInv
<1> SUFFICES ASSUME Init  PROVE IInv  OBVIOUS
<1> USE ParsingAssumption
<1>1. TypeOK
  BY DEF Init, TypeOK, Empty, Version, Absent, NoTrigger, NoProcessor
<1>2. Shape  BY FS_EmptySet DEF Init, Shape, NoTrigger, NoProcessor
<1>3. UploadsCovered
  BY DEF Init, UploadsCovered, Empty
<1> QED  BY <1>1, <1>2, <1>3 DEF IInv

-----------------------------------------------------------------------------
(* One lemma per action or group of actions that write the same part.      *)

LEMMA ChangeStep ==
  ASSUME IInv, NEW f \in File, NEW v \in Version, v \in 0 .. changes + 1, Change(f, v)
  PROVE  IInv'
<1> USE ParsingAssumption DEF IInv, Change, s3Vars, triggerVars, processorVars
<1>1. TypeOK'  BY DEF TypeOK, Version, Absent
<1>2. Shape'  BY DEF Shape
<1>3. UploadsCovered'
  BY DEF UploadsCovered, Announced, Covered, TypeOK
<1> QED  BY <1>1, <1>2, <1>3

LEMMA TickStep ==
  ASSUME IInv, Tick
  PROVE  IInv'
<1> USE ParsingAssumption DEF IInv, Tick, s3Vars, triggerVars, processorVars
<1>1. TypeOK'  BY DEF TypeOK
<1>2. Shape'  BY DEF Shape
<1>3. UploadsCovered'  BY DEF UploadsCovered, Announced, Covered
<1> QED  BY <1>1, <1>2, <1>3

LEMMA TakeNotificationsStep ==
  ASSUME IInv, NEW B \in SUBSET waiting, TakeNotifications(B)
  PROVE  IInv'
<1> USE ParsingAssumption DEF IInv, TakeNotifications, s3Vars, processorVars
<1>1. TypeOK'  BY DEF TypeOK
<1>2. Shape'  BY DEF Shape, TypeOK
<1>3. UploadsCovered'  BY DEF UploadsCovered, Announced, Covered
<1> QED  BY <1>1, <1>2, <1>3

\* An accepted message announces every file; a dropped one is the exception the
\* invariant makes.
LEMMA SendTriggerStep ==
  ASSUME IInv, SendTrigger
  PROVE  IInv'
<1> USE ParsingAssumption DEF IInv, SendTrigger, s3Vars, processorVars
<1>1. trigger.minute \in 1 .. MaxMinute  BY DEF Shape
<1>2. TypeOK'
  <2>1. funnel' \in Seq(1 .. MaxMinute) /\ processor'.batch <= Len(funnel')
    <3>1. /\ funnel \in Seq(1 .. MaxMinute) /\ Len(funnel) \in Nat
          /\ processor.batch \in Nat /\ processor.batch <= Len(funnel)
      BY DEF TypeOK
    <3>2. CASE trigger.minute \notin seen
      <4>1. funnel' = Append(funnel, trigger.minute)  BY <3>2
      <4>2. funnel' \in Seq(1 .. MaxMinute) /\ Len(funnel') = Len(funnel) + 1
        <5>1. /\ Append(funnel, trigger.minute) \in Seq(1 .. MaxMinute)
              /\ Len(Append(funnel, trigger.minute)) = Len(funnel) + 1
          <6> HIDE DEF IInv, SendTrigger
          <6> QED  BY <1>1, <3>1, AppendOne
        <5> QED  BY <4>1, <5>1
      <4> QED  BY <3>1, <4>2
    <3> QED  BY <3>1, <3>2
  <2> QED  BY <1>1, <2>1 DEF TypeOK
<1>3. Shape'
  <2>1. Len(funnel') <= Cardinality(seen')
    <3>1. IsFiniteSet(seen) /\ Cardinality(seen) \in Nat
      BY FunnelBounded, FS_CardinalityType
    <3>2. CASE trigger.minute \in seen
      <4>1. seen' = seen /\ funnel' = funnel  BY <3>2
      <4> QED  BY <4>1 DEF Shape
    <3>3. CASE trigger.minute \notin seen
      <4>1. Cardinality(seen') = Cardinality(seen) + 1
        BY <3>1, <3>3, FS_AddElement
      <4>2. Len(funnel') = Len(funnel) + 1  BY <3>3, <1>1 DEF TypeOK
      <4> QED  BY <3>1, <4>1, <4>2 DEF Shape, TypeOK
    <3> QED  BY <3>2, <3>3
  <2> QED  BY <2>1 DEF Shape, TypeOK
<1>4. UploadsCovered'
  <2>1. CASE trigger.minute \in seen
    BY <2>1 DEF UploadsCovered, Announced, Covered, TypeOK
  <2>2. CASE trigger.minute \notin seen
    <3>1. Len(funnel') > processor'.batch  BY <1>1, <2>2 DEF TypeOK
    <3> QED  BY <3>1 DEF UploadsCovered, Announced
  <2> QED  BY <2>1, <2>2
<1> QED  BY <1>2, <1>3, <1>4

LEMMA EndTriggerStep ==
  ASSUME IInv, ReturnTrigger \/ FailTrigger
  PROVE  IInv'
<1> USE ParsingAssumption
    DEF IInv, ReturnTrigger, FailTrigger, NoTrigger, s3Vars, processorVars
<1>1. TypeOK'
  <2>1. 0 \in 0 .. MaxMinute  OBVIOUS
  <2>2. CASE ReturnTrigger  BY <2>1, <2>2 DEF TypeOK
  <2>3. CASE FailTrigger  BY <2>1, <2>3 DEF TypeOK
  <2> QED  BY <2>2, <2>3
<1>2. Shape'  BY DEF Shape
<1>3. UploadsCovered'  BY DEF UploadsCovered, Announced, Covered
<1> QED  BY <1>1, <1>2, <1>3

-----------------------------------------------------------------------------
LEMMA TakeTriggersStep ==
  ASSUME IInv, NEW n \in 1 .. Len(funnel), TakeTriggers(n)
  PROVE  IInv'
<1> USE ParsingAssumption DEF IInv, TakeTriggers, s3Vars, triggerVars
<1>1. n \in 0 .. MaxMinute /\ n <= Len(funnel) /\ n >= 1
  BY FunnelBounded DEF TypeOK
<1>2. TypeOK'
  <2>1. local' \in [File -> Version]
    <3>1. local \in [File -> Version]  BY DEF TypeOK
    <3>2. Empty \in [File -> Version]  BY DEF Empty, Absent, Version
    <3>3. local' = local \/ local' = Empty  OBVIOUS
    <3> HIDE DEF IInv, TakeTriggers
    <3> QED  BY <3>1, <3>2, <3>3
  <2>2. Present(bucket) \subseteq File  BY DEF Present
  <2> QED  BY <1>1, <2>1, <2>2 DEF TypeOK
<1>3. Shape'  BY <1>1 DEF Shape
<1>4. UploadsCovered'
  BY <1>1 DEF UploadsCovered, Covered, Present
<1> QED  BY <1>2, <1>3, <1>4

LEMMA DownloadStep ==
  ASSUME IInv, NEW f \in processor.todo, Download(f)
  PROVE  IInv'
<1> USE ParsingAssumption DEF IInv, Download, s3Vars, triggerVars
<1>1. TypeOK'  BY DEF TypeOK
<1>2. Shape'  BY DEF Shape, TypeOK
<1>3. UploadsCovered'  BY DEF UploadsCovered, Announced, Covered, TypeOK
<1> QED  BY <1>1, <1>2, <1>3

LEMMA StartParsingStep ==
  ASSUME IInv, StartParsing
  PROVE  IInv'
<1> USE ParsingAssumption DEF IInv, StartParsing, s3Vars, triggerVars
<1>1. TypeOK'  BY DEF TypeOK
<1>2. Shape'  BY DEF Shape, TypeOK
<1>3. UploadsCovered'  BY DEF UploadsCovered, Announced, Covered, TypeOK
<1> QED  BY <1>1, <1>2, <1>3

\* A file that is parsed although the disk has an old copy of it was changed after
\* the bucket was listed, so that another run is announced.
LEMMA ParseStep ==
  ASSUME IInv, NEW f \in processor.todo, Parse(f)
  PROVE  IInv'
<1> USE ParsingAssumption DEF IInv, Parse, s3Vars, triggerVars
<1>1. TypeOK'  BY DEF TypeOK
<1>2. Shape'  BY DEF Shape, TypeOK
<1>3. UploadsCovered'  BY DEF UploadsCovered, Announced, Covered, TypeOK
<1> QED  BY <1>1, <1>2, <1>3

LEMMA ReturnProcessorStep ==
  ASSUME IInv, ReturnProcessor
  PROVE  IInv'
<1> USE ParsingAssumption DEF IInv, ReturnProcessor, NoProcessor, s3Vars
<1>1. /\ funnel \in Seq(1 .. MaxMinute) /\ Len(funnel) \in Nat
      /\ processor.batch \in Nat /\ processor.batch <= Len(funnel)
      /\ Cardinality(seen) \in Nat /\ Len(funnel) <= Cardinality(seen)
  BY FunnelBounded, FS_CardinalityType DEF TypeOK, Shape
<1>2. /\ funnel' \in Seq(1 .. MaxMinute)
      /\ Len(funnel') = Len(funnel) - processor.batch
  <2>1. funnel' = SubSeq(funnel, processor.batch + 1, Len(funnel))  OBVIOUS
  <2> HIDE DEF IInv, ReturnProcessor
  <2>2. PICK m \in Nat : m = processor.batch /\ m <= Len(funnel)  BY <1>1
  <2>3. \A i \in m + 1 .. Len(funnel) : i \in 1 .. Len(funnel)  BY <1>1, <2>2
  <2>4. funnel' = SubSeq(funnel, m + 1, Len(funnel))  BY <2>1, <2>2
  <2>5. PICK f \in Seq(1 .. MaxMinute) : f = funnel  BY <1>1
  <2>6. SubSeq(f, m + 1, Len(f)) \in Seq(1 .. MaxMinute)  BY <2>2, <2>3, <2>5
  <2>7. Len(SubSeq(f, m + 1, Len(f))) = Len(f) - m  BY <1>1, <2>2, <2>5
  <2> QED  BY <2>2, <2>4, <2>5, <2>6, <2>7
<1>3. TypeOK'
  <2>1. 0 <= Len(funnel') /\ 0 \in 0 .. MaxMinute  BY <1>1, <1>2
  <2> QED  BY <1>2, <2>1 DEF TypeOK
<1>4. Shape'
  <2>1. Len(funnel') <= Cardinality(seen)  BY <1>1, <1>2
  <2> QED  BY <2>1 DEF Shape
<1>5. UploadsCovered'
  BY <1>1, <1>2 DEF UploadsCovered, Announced, Covered, TypeOK
<1> QED  BY <1>3, <1>4, <1>5

\* The messages of a failed run stay, and announce every file.
LEMMA FailProcessorStep ==
  ASSUME IInv, FailProcessor
  PROVE  IInv'
<1> USE ParsingAssumption DEF IInv, FailProcessor, NoProcessor, s3Vars, triggerVars
<1>1. TypeOK'  BY DEF TypeOK
<1>2. Shape'  BY DEF Shape
<1>3. UploadsCovered'
  <2>1. Len(funnel') > processor'.batch  BY DEF TypeOK, Shape
  <2> QED  BY <2>1 DEF UploadsCovered, Announced
<1> QED  BY <1>1, <1>2, <1>3

-----------------------------------------------------------------------------
LEMMA NextIInv == IInv /\ [Next]_vars => IInv'
<1> SUFFICES ASSUME IInv, [Next]_vars  PROVE IInv'  OBVIOUS
<1>1. CASE Tick  BY <1>1, TickStep
<1>2. ASSUME NEW f \in File, Upload(f) \/ Remove(f)  PROVE IInv'
  <2>1. changes + 1 \in Version \/ ~(changes < MaxChanges)
    BY ParsingAssumption DEF IInv, TypeOK, Version
  <2>2. Absent \in Version /\ Absent \in 0 .. changes + 1 /\ changes + 1 \in 0 .. changes + 1
    BY ParsingAssumption DEF IInv, TypeOK, Version, Absent
  <2> QED  BY <1>2, <2>1, <2>2, ChangeStep DEF Upload, Remove, Change
<1>3. CASE TriggerStep
  BY <1>3, TakeNotificationsStep, SendTriggerStep, EndTriggerStep DEF TriggerStep
<1>4. CASE FailTrigger  BY <1>4, EndTriggerStep
<1>5. CASE ProcessorStep
  BY <1>5, TakeTriggersStep, DownloadStep, StartParsingStep, ParseStep,
     ReturnProcessorStep DEF ProcessorStep
<1>6. CASE FailProcessor  BY <1>6, FailProcessorStep
<1>7. CASE UNCHANGED vars
  BY <1>7 DEF vars, IInv, TypeOK, Shape, UploadsCovered, Announced, Covered
<1> QED  BY <1>1, <1>2, <1>3, <1>4, <1>5, <1>6, <1>7 DEF Next

LEMMA Invariance == Spec => []IInv
<1> QED  BY InitIInv, NextIInv, PTL DEF Spec

\* Every variable keeps its type, for any number of files, changes, minutes and
\* failures; in particular the funnel still has every message the processor is
\* working on, however often it fails.
THEOREM TypeCorrect == Spec => []TypeOK
<1>1. IInv => TypeOK  BY DEF IInv
<1> QED  BY <1>1, Invariance, PTL

\* Once the queues are drained, a file whose last upload the database does not know
\* lost it to the deduplication of the FIFO, and to nothing else.
THEOREM OnlyDedup == Spec => []OnlyDedupLosesUploads
<1>1. IInv => OnlyDedupLosesUploads
  <2> SUFFICES ASSUME IInv, Settled, NEW f \in File,
                      bucket[f] # Absent, parsed[f] # bucket[f]
               PROVE  f \in dropped
    BY DEF OnlyDedupLosesUploads
  <2>1. ~Announced(f)
    BY DEF IInv, Settled, Announced, Shape
  <2> QED  BY <2>1 DEF IInv, UploadsCovered, Covered, Settled
<1> QED  BY <1>1, Invariance, PTL
=============================================================================
