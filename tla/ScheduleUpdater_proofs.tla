------------------------ MODULE ScheduleUpdater_proofs ------------------------
(***************************************************************************)
(* The types of ScheduleUpdater, and its main invariant: a cron rule that  *)
(* nothing is pending for agrees with its dag, unless two invocations      *)
(* raced or an event expired.                                              *)
(***************************************************************************)
EXTENDS ScheduleUpdater, FiniteSetTheorems, SequenceTheorems, TLAPS

\* An event that can be delivered has not used up its deliveries; an invocation
\* at work holds the messages of the events it has still to handle.
QueueShape == IsFiniteSet(queue) /\ \A e \in queue : e.receives < MaxReceives

BatchShape(u) ==
  /\ IsFiniteSet(updater[u].taken)
  /\ updater[u].pc = "idle" => updater[u].batch = <<>>
  /\ updater[u].pc \in {"put", "target"} => updater[u].batch # <<>>
  /\ \A i \in 1 .. Len(updater[u].batch) :
       \E t \in updater[u].taken : t.dag = updater[u].batch[i].dag

RacesSeen == \A d \in Dag \ raced : \A u, v \in Busy(d) : u = v

Shape == QueueShape /\ (\A u \in Updater : BatchShape(u)) /\ RacesSeen

\* An event about d that the invocation has not begun with.
Ahead(u, d) ==
  \E i \in 1 .. Len(updater[u].batch) :
    updater[u].batch[i].dag = d /\ (updater[u].pc = "read" \/ i > 1)

\* The invocation is about to write what the dag is now, or halfway through it.
Writes(u, d) ==
  /\ u \in Busy(d)
  /\ updater[u].pc = "put" => updater[u].read = RuleState(d)
  /\ updater[u].pc = "target" => rule[d].state = RuleState(d)

\* The rule is up to date, and what is about to be written is, too.
Current(d) ==
  /\ rule[d].state = "none" \/ rule[d] = [state |-> RuleState(d), target |-> TRUE]
  /\ \A u \in Busy(d) : updater[u].pc = "put" => updater[u].read = RuleState(d)

Fresh(d) ==
  \/ \E e \in queue : e.dag = d
  \/ \E u \in Updater : Ahead(u, d) \/ Writes(u, d)
  \/ Current(d)

IInv == TypeOK /\ Shape /\ \A d \in Dag \ (raced \cup expired) : Fresh(d)

-----------------------------------------------------------------------------
LEMMA TailOne ==
  ASSUME NEW S, NEW s \in Seq(S), s # <<>>
  PROVE  /\ Tail(s) \in Seq(S)
         /\ Len(Tail(s)) = Len(s) - 1
         /\ \A i \in 1 .. Len(Tail(s)) : Tail(s)[i] = s[i + 1]
<1> QED  OBVIOUS

LEMMA ReceiveOne ==
  ASSUME UpdaterAssumption, NEW e \in Event, e.receives < MaxReceives
  PROVE  Receive(e) \in Event /\ Receive(e).dag = e.dag
<1>1. e.receives + 1 \in 0 .. MaxReceives  BY DEF Event, UpdaterAssumption
<1> QED  BY <1>1 DEF Receive, Event

LEMMA ReceivedFinite ==
  ASSUME NEW B, IsFiniteSet(B)
  PROVE  IsFiniteSet({Receive(e) : e \in B})
<1> DEFINE T == {Receive(e) : e \in B}
           f == [e \in B |-> Receive(e)]
<1>1. f \in Surjection(B, T)  BY DEF Surjection
<1> HIDE DEF f, T
<1>2. IsFiniteSet(T)  BY <1>1, FS_Surjection
<1> QED  BY <1>2 DEF T

\* The event an invocation is busy with is one of its batch.
LEMMA HandlesAnEvent ==
  ASSUME TypeOK, NEW u \in Updater, updater[u].batch # <<>>
  PROVE  /\ Handling(u) \in Dag
         /\ updater[u].batch \in Seq(Event)
         /\ 1 \in 1 .. Len(updater[u].batch)
<1>1. updater[u].batch \in Seq(Event)  BY DEF TypeOK
<1>2. Len(updater[u].batch) \in Nat /\ Len(updater[u].batch) # 0
  BY <1>1
<1>3. updater[u].batch[1] \in Event  BY <1>1, <1>2
<1> QED  BY <1>1, <1>2, <1>3 DEF Handling, Event

LEMMA InitIInv == Init => IInv
<1> SUFFICES ASSUME Init  PROVE IInv  OBVIOUS
<1> USE UpdaterAssumption DEF Init
<1>1. <<>> \in Seq(Event) /\ Len(<<>>) = 0  OBVIOUS
<1>2. TypeOK  BY <1>1 DEF TypeOK, Idle, NoRule
<1>3. Shape
  <2>1. QueueShape  BY FS_EmptySet DEF QueueShape
  <2>2. \A u \in Updater : updater[u] = Idle  OBVIOUS
  <2>3. \A u \in Updater : BatchShape(u)
    <3>1. 1 .. Len(<<>>) = {}  OBVIOUS
    <3> QED  BY <2>2, <3>1, FS_EmptySet DEF BatchShape, Idle
  <2>4. RacesSeen  BY <2>2 DEF RacesSeen, Busy, Idle
  <2> QED  BY <2>1, <2>3, <2>4 DEF Shape
<1>4. ASSUME NEW d \in Dag  PROVE Fresh(d)
  BY DEF Fresh, Current, Busy, Idle, NoRule
<1> QED  BY <1>2, <1>3, <1>4 DEF IInv

-----------------------------------------------------------------------------
\* A change makes the rule of its dag out of date, and sends the event that will
\* bring it up to date.
LEMMA ChangeDagStep ==
  ASSUME IInv, NEW c \in Dag, ChangeDag(c)
  PROVE  IInv'
<1> USE UpdaterAssumption DEF IInv, ChangeDag
<1> DEFINE sent == [dag |-> c, id |-> changes + 1, receives |-> 0]
<1>1. sent \in Event /\ sent.receives < MaxReceives  BY DEF Event, TypeOK
<1>2. TypeOK'  BY <1>1 DEF TypeOK
<1>3. Shape'
  <2>1. IsFiniteSet(queue')  BY FS_AddElement DEF Shape, QueueShape
  <2>2. QueueShape'  BY <1>1, <2>1 DEF Shape, QueueShape
  <2>3. \A u \in Updater : BatchShape(u)'  BY DEF Shape, BatchShape
  <2>4. RacesSeen'  BY DEF Shape, RacesSeen, Busy, Handling
  <2> QED  BY <2>2, <2>3, <2>4 DEF Shape
<1>4. ASSUME NEW d \in Dag \ (raced \cup expired)'  PROVE Fresh(d)'
  <2>1. CASE d = c
    <3>1. sent \in queue' /\ sent.dag = d  BY <2>1
    <3> QED  BY <3>1 DEF Fresh
  <2>2. CASE d # c
    <3>1. RuleState(d)' = RuleState(d)  BY <2>2 DEF RuleState, TypeOK
    <3>2. Fresh(d)  OBVIOUS
    <3> QED  BY <3>1, <3>2 DEF Fresh, Ahead, Writes, Current, Busy, Handling
  <2> QED  BY <2>1, <2>2
<1> QED  BY <1>2, <1>3, <1>4

LEMMA TakeBatchStep ==
  ASSUME IInv, NEW u \in Updater, TakeBatch(u)
  PROVE  IInv'
<1> USE UpdaterAssumption DEF IInv
<1>0. PICK B \in (SUBSET queue) \ {{}} : \E b \in [1 .. Cardinality(B) -> B] :
        /\ {b[i] : i \in 1 .. Cardinality(B)} = B
        /\ updater' = [updater EXCEPT ![u] =
                         [pc |-> "read", batch |-> b,
                          taken |-> {Receive(e) : e \in B}, read |-> "none"]]
        /\ queue' = queue \ B
  BY DEF TakeBatch
<1>1. PICK b \in [1 .. Cardinality(B) -> B] :
        /\ {b[i] : i \in 1 .. Cardinality(B)} = B
        /\ updater' = [updater EXCEPT ![u] =
                         [pc |-> "read", batch |-> b,
                          taken |-> {Receive(e) : e \in B}, read |-> "none"]]
        /\ queue' = queue \ B
  BY <1>0
<1>2. /\ updater[u].pc = "idle"
      /\ UNCHANGED <<paused, changes, rule, raced, expired, failures>>
  BY DEF TakeBatch
<1>3. IsFiniteSet(B) /\ Cardinality(B) \in Nat
  BY FS_Subset, FS_CardinalityType DEF Shape, QueueShape
<1>4. b \in Seq(B) /\ Len(b) = Cardinality(B)  BY <1>3
<1> DEFINE taken == {Receive(e) : e \in B}
<1>5. \A e \in B : Receive(e) \in Event /\ Receive(e).dag = e.dag
  BY ReceiveOne DEF TypeOK, Shape, QueueShape
<1>6. IsFiniteSet(taken)  BY <1>3, ReceivedFinite
<1>7. TypeOK'
  <2>1. b \in Seq(Event)  BY <1>4 DEF TypeOK
  <2>2. taken \in SUBSET Event  BY <1>5
  <2> QED  BY <1>1, <1>2, <2>1, <2>2 DEF TypeOK
<1>8. \A v \in Updater : v # u => updater'[v] = updater[v]  BY <1>1 DEF TypeOK
<1>9. updater'[u] = [pc |-> "read", batch |-> b, taken |-> taken, read |-> "none"]
  BY <1>1 DEF TypeOK
<1>10. \A d \in Dag : Busy(d)' = Busy(d)
  BY <1>2, <1>8, <1>9 DEF Busy, Handling
<1>11. Shape'
  <2>1. QueueShape'  BY <1>1, FS_Subset DEF Shape, QueueShape
  <2>2. BatchShape(u)'
    <3>1. \A i \in 1 .. Len(b) : Receive(b[i]) \in taken /\ Receive(b[i]).dag = b[i].dag
      BY <1>4, <1>5
    <3> QED  BY <1>6, <1>9, <3>1 DEF BatchShape
  <2>3. \A v \in Updater : BatchShape(v)'
    BY <1>8, <2>2 DEF Shape, BatchShape
  <2>4. RacesSeen'  BY <1>2, <1>10 DEF Shape, RacesSeen
  <2> QED  BY <2>1, <2>3, <2>4 DEF Shape
<1>12. ASSUME NEW d \in Dag \ (raced \cup expired)'  PROVE Fresh(d)'
  <2>1. Fresh(d) /\ RuleState(d)' = RuleState(d)  BY <1>2 DEF RuleState
  <2>2. CASE \E e \in queue : e.dag = d
    <3>1. PICK e \in queue : e.dag = d  BY <2>2
    <3>2. CASE e \in B
      <4>1. PICK i \in 1 .. Len(b) : b[i] = e  BY <1>1, <1>4, <3>2
      <4>2. Ahead(u, d)'  BY <1>9, <3>1, <4>1 DEF Ahead
      <4> QED  BY <4>2 DEF Fresh
    <3>3. CASE e \notin B  BY <1>1, <3>1, <3>3 DEF Fresh
    <3> QED  BY <3>2, <3>3
  <2>3. CASE \E v \in Updater : Ahead(v, d) \/ Writes(v, d)
    <3>1. PICK v \in Updater : Ahead(v, d) \/ Writes(v, d)  BY <2>3
    <3>2. v # u  BY <1>2, <3>1 DEF Ahead, Writes, Busy, Shape, BatchShape
    <3> QED  BY <1>2, <1>8, <1>10, <2>1, <3>1, <3>2 DEF Fresh, Ahead, Writes
  <2>4. CASE Current(d)
    <3>1. \A v \in Busy(d) : v # u  BY <1>2 DEF Busy
    <3> QED  BY <1>2, <1>8, <1>10, <2>1, <2>4, <3>1 DEF Fresh, Current, Busy
  <2> QED  BY <2>1, <2>2, <2>3, <2>4 DEF Fresh
<1> QED  BY <1>7, <1>11, <1>12

-----------------------------------------------------------------------------
LEMMA ReadDagStep ==
  ASSUME IInv, NEW u \in Updater, ReadDag(u)
  PROVE  IInv'
<1> USE UpdaterAssumption DEF IInv, ReadDag
<1> DEFINE c == Handling(u)
<1>1. c \in Dag  BY HandlesAnEvent
<1>2. TypeOK'
  <2>1. RuleState(c) \in {"none", "ENABLED", "DISABLED"}  BY DEF RuleState
  <2>2. raced' \subseteq Dag  BY <1>1 DEF TypeOK
  <2> HIDE DEF c
  <2>3. updater' = [updater EXCEPT ![u].pc = "put", ![u].read = RuleState(c)]
    BY DEF c
  <2>4. UNCHANGED <<paused, changes, queue, rule, expired, failures>>  OBVIOUS
  <2> HIDE DEF ReadDag
  <2>5. [updater[u] EXCEPT !.pc = "put", !.read = RuleState(c)] \in
          [pc : {"idle", "read", "put", "target"}, batch : Seq(Event),
           taken : SUBSET Event, read : {"none", "ENABLED", "DISABLED"}]
    <3>1. /\ updater[u] \in [pc : {"idle", "read", "put", "target"}, batch : Seq(Event),
                         taken : SUBSET Event, read : {"none", "ENABLED", "DISABLED"}]
      BY DEF TypeOK
    <3>2. PICK x : x = RuleState(c) /\ x \in {"none", "ENABLED", "DISABLED"}  BY <2>1
    <3> HIDE DEF IInv
    <3>3. [updater[u] EXCEPT !.pc = "put", !.read = x] \in
          [pc : {"idle", "read", "put", "target"}, batch : Seq(Event),
           taken : SUBSET Event, read : {"none", "ENABLED", "DISABLED"}]
      BY <3>1, <3>2
    <3> QED  BY <3>2, <3>3
  <2>6. updater' = [updater EXCEPT ![u] =
                     [updater[u] EXCEPT !.pc = "put", !.read = RuleState(c)]]
    BY <2>3 DEF TypeOK
  <2> QED  BY <2>2, <2>4, <2>5, <2>6 DEF TypeOK
<1>3. \A v \in Updater : v # u => updater'[v] = updater[v]  BY DEF TypeOK
<1>4. updater'[u] = [updater[u] EXCEPT !.pc = "put", !.read = RuleState(c)]
  BY DEF TypeOK
<1>5. \A d \in Dag : Busy(d)' = IF d = c THEN Busy(d) \cup {u} ELSE Busy(d)
  BY <1>3, <1>4 DEF Busy, Handling, TypeOK
<1>6. Shape'
  <2>1. QueueShape'  BY DEF Shape, QueueShape
  <2>2. BatchShape(u)'  BY <1>4 DEF Shape, BatchShape, TypeOK
  <2>4. \A v \in Updater : BatchShape(v)'
    <3> SUFFICES ASSUME NEW v \in Updater, v # u  PROVE BatchShape(v)'  BY <2>2
    <3>1. updater'[v] = updater[v]  BY <1>3
    <3> HIDE DEF ReadDag
    <3> QED  BY <3>1 DEF Shape, BatchShape
  <2>3. RacesSeen'  BY <1>1, <1>5 DEF Shape, RacesSeen
  <2> QED  BY <2>1, <2>3, <2>4 DEF Shape
<1>7. ASSUME NEW d \in Dag \ (raced \cup expired)'  PROVE Fresh(d)'
  <2>1. Fresh(d) /\ RuleState(d)' = RuleState(d)  BY DEF RuleState
  <2>2. CASE d = c
    <3>1. Writes(u, d)'  BY <1>4, <1>5, <2>1, <2>2 DEF Writes, TypeOK
    <3> QED  BY <3>1 DEF Fresh
  <2>3. CASE d # c
    <3>1. Busy(d)' = Busy(d)  BY <1>5, <2>3
    <3>2. \A v \in Updater : Ahead(v, d) => Ahead(v, d)'
      BY <1>3, <1>4, <2>3 DEF Ahead, Handling, TypeOK
    <3>3. \A v \in Busy(d) : v # u  BY DEF Busy
    <3>4. \A v \in Updater : Writes(v, d) => Writes(v, d)'
      BY <1>3, <2>1, <3>1, <3>3 DEF Writes
    <3>5. Current(d) => Current(d)'
      BY <1>3, <2>1, <3>1, <3>3 DEF Current, Busy
    <3> QED  BY <2>1, <3>2, <3>4, <3>5 DEF Fresh
  <2> QED  BY <2>2, <2>3
<1> QED  BY <1>2, <1>6, <1>7

LEMMA PutRuleStep ==
  ASSUME IInv, NEW u \in Updater, PutRule(u)
  PROVE  IInv'
<1> USE UpdaterAssumption DEF IInv, PutRule
<1> DEFINE c == Handling(u)
<1>1. c \in Dag  BY HandlesAnEvent DEF Shape, BatchShape
<1>2. TypeOK'
  <2>1. /\ updater \in [Updater ->
             [pc : {"idle", "read", "put", "target"}, batch : Seq(Event),
              taken : SUBSET Event, read : {"none", "ENABLED", "DISABLED"}]]
        /\ rule \in [Dag -> [state : {"none", "ENABLED", "DISABLED"}, target : BOOLEAN]]
        /\ rule' = [rule EXCEPT ![c].state = updater[u].read]
        /\ updater' = [updater EXCEPT ![u].pc = "target"]
    BY DEF TypeOK
  <2>2. UNCHANGED <<paused, changes, queue, raced, expired, failures>>  OBVIOUS
  <2>3. TypeOK  OBVIOUS
  <2> HIDE DEF IInv, PutRule, c
  <2>4. updater' \in [Updater ->
             [pc : {"idle", "read", "put", "target"}, batch : Seq(Event),
              taken : SUBSET Event, read : {"none", "ENABLED", "DISABLED"}]]
    BY <2>1
  <2>5. rule' \in [Dag -> [state : {"none", "ENABLED", "DISABLED"}, target : BOOLEAN]]
    BY <1>1, <2>1
  <2> QED  BY <2>2, <2>3, <2>4, <2>5 DEF TypeOK
<1>3. \A v \in Updater : v # u => updater'[v] = updater[v]  BY DEF TypeOK
<1>4. updater'[u] = [updater[u] EXCEPT !.pc = "target"]  BY DEF TypeOK
<1>5. \A d \in Dag : Busy(d)' = Busy(d)
  BY <1>3, <1>4 DEF Busy, Handling, TypeOK
<1>6. Shape'
  <2>1. QueueShape'  BY DEF Shape, QueueShape
  <2>2. \A v \in Updater : BatchShape(v)'
    BY <1>3, <1>4 DEF Shape, BatchShape, TypeOK
  <2>3. RacesSeen'  BY <1>5 DEF Shape, RacesSeen
  <2> QED  BY <2>1, <2>2, <2>3 DEF Shape
<1>7. ASSUME NEW d \in Dag \ (raced \cup expired)'  PROVE Fresh(d)'
  <2>1. Fresh(d) /\ RuleState(d)' = RuleState(d)  BY DEF RuleState
  <2>2. \A v \in Updater : Ahead(v, d) => Ahead(v, d)'
    BY <1>3, <1>4 DEF Ahead, TypeOK
  <2>3. CASE d = c
    <3>1. u \in Busy(d) /\ \A v \in Busy(d) : v = u
      BY <1>1, <2>3 DEF Busy, Shape, RacesSeen
    <3>2. rule'[d] = [rule[d] EXCEPT !.state = updater[u].read]  BY <2>3 DEF TypeOK
    <3>3. CASE updater[u].read = RuleState(d)
      <4>1. Writes(u, d)'  BY <1>4, <1>5, <2>1, <3>1, <3>2, <3>3 DEF Writes, TypeOK
      <4> QED  BY <4>1 DEF Fresh
    <3>4. CASE updater[u].read # RuleState(d)
      <4>1. ~Current(d) /\ \A v \in Updater : ~Writes(v, d)
        BY <3>1, <3>4 DEF Current, Writes, Busy
      <4> QED  BY <2>1, <2>2, <4>1 DEF Fresh
    <3> QED  BY <3>3, <3>4
  <2>4. CASE d # c
    <3>1. rule'[d] = rule[d]  BY <2>4 DEF TypeOK
    <3>2. \A v \in Busy(d) : v # u  BY <2>4 DEF Busy
    <3>3. \A v \in Updater : Writes(v, d) => Writes(v, d)'
      BY <1>3, <1>5, <2>1, <3>1, <3>2 DEF Writes
    <3>4. Current(d) => Current(d)'
      BY <1>3, <1>5, <2>1, <3>1, <3>2 DEF Current, Busy
    <3> QED  BY <2>1, <2>2, <3>3, <3>4 DEF Fresh
  <2> QED  BY <2>3, <2>4
<1> QED  BY <1>2, <1>6, <1>7

\* With its target the rule is complete: it agrees with the dag, or an event that
\* will correct it is still to come.
LEMMA PutTargetsStep ==
  ASSUME IInv, NEW u \in Updater, PutTargets(u)
  PROVE  IInv'
<1> USE UpdaterAssumption DEF IInv, PutTargets
<1> DEFINE c == Handling(u)
           old == updater[u].batch
<1>1. c \in Dag /\ old \in Seq(Event) /\ old # <<>>
  BY HandlesAnEvent DEF Shape, BatchShape
<1>2. /\ Tail(old) \in Seq(Event)
      /\ Len(Tail(old)) = Len(old) - 1
      /\ \A i \in 1 .. Len(Tail(old)) : Tail(old)[i] = old[i + 1]
  <2> HIDE DEF old
  <2> QED  BY <1>1, TailOne
<1>4. \A v \in Updater : v # u => updater'[v] = updater[v]  BY DEF TypeOK
<1>5. updater'[u] = [updater[u] EXCEPT !.pc = "read", !.batch = Tail(old)]
  BY DEF TypeOK
<1>3. TypeOK'
  <2>1. rule' \in [Dag -> [state : {"none", "ENABLED", "DISABLED"}, target : BOOLEAN]]
    BY <1>1 DEF TypeOK
  <2>2. updater' = [updater EXCEPT ![u] =
                     [updater[u] EXCEPT !.pc = "read", !.batch = Tail(old)]]
    BY DEF TypeOK
  <2>3. UNCHANGED <<paused, changes, queue, raced, expired, failures>>  OBVIOUS
  <2> HIDE DEF PutTargets, old
  <2>4. [updater[u] EXCEPT !.pc = "read", !.batch = Tail(old)] \in
          [pc : {"idle", "read", "put", "target"}, batch : Seq(Event),
           taken : SUBSET Event, read : {"none", "ENABLED", "DISABLED"}]
    <3>1. updater[u] \in
          [pc : {"idle", "read", "put", "target"}, batch : Seq(Event),
           taken : SUBSET Event, read : {"none", "ENABLED", "DISABLED"}]
      BY DEF TypeOK
    <3> HIDE DEF IInv
    <3> QED  BY <1>2, <3>1
  <2> QED  BY <2>1, <2>2, <2>3, <2>4 DEF TypeOK
<1>6. \A d \in Dag : Busy(d)' = Busy(d) \ {u}
  BY <1>4, <1>5 DEF Busy, Handling, TypeOK
<1>7. Shape'
  <2>1. QueueShape'  BY DEF Shape, QueueShape
  <2>2. BatchShape(u)'
    <3>1. \A i \in 1 .. Len(Tail(old)) : i + 1 \in 1 .. Len(old)  BY <1>1, <1>2
    <3>2. \A i \in 1 .. Len(Tail(old)) : \E t \in updater[u].taken : t.dag = Tail(old)[i].dag
      BY <1>2, <3>1 DEF Shape, BatchShape
    <3> QED  BY <1>5, <3>2 DEF Shape, BatchShape, TypeOK
  <2>3. \A v \in Updater : BatchShape(v)'
    <3> SUFFICES ASSUME NEW v \in Updater, v # u  PROVE BatchShape(v)'  BY <2>2
    <3>1. updater'[v] = updater[v]  BY <1>4
    <3> HIDE DEF PutTargets
    <3> QED  BY <3>1 DEF Shape, BatchShape
  <2>4. RacesSeen'  BY <1>6 DEF Shape, RacesSeen
  <2> QED  BY <2>1, <2>3, <2>4 DEF Shape
<1>8. ASSUME NEW d \in Dag \ (raced \cup expired)'  PROVE Fresh(d)'
  <2>1. Fresh(d) /\ RuleState(d)' = RuleState(d)  BY DEF RuleState
  <2>2. ASSUME Ahead(u, d)  PROVE Ahead(u, d)'
    <3>1. PICK i \in 1 .. Len(old) : old[i].dag = d /\ i > 1  BY <2>2 DEF Ahead
    <3>2. i - 1 \in 1 .. Len(Tail(old)) /\ Tail(old)[i - 1] = old[i]
      BY <1>1, <1>2, <3>1
    <3> QED  BY <1>5, <3>1, <3>2 DEF Ahead, TypeOK
  <2>3. \A v \in Updater : Ahead(v, d) => Ahead(v, d)'
    BY <1>4, <2>2 DEF Ahead
  <2>4. CASE d = c
    <3>1. u \in Busy(d) /\ \A v \in Busy(d) : v = u
      BY <1>1, <2>4 DEF Busy, Shape, RacesSeen
    <3>2. rule'[d] = [rule[d] EXCEPT !.target = TRUE]  BY <2>4 DEF TypeOK
    <3>3. Busy(d)' = {}  BY <1>1, <1>6, <2>4, <3>1
    <3>4. Current(d) => Current(d)'
      <4>1. rule[d].state = "none" => rule'[d].state = "none"
        BY <1>1, <2>4, <3>2 DEF TypeOK
      <4>2. ASSUME rule[d] = [state |-> RuleState(d), target |-> TRUE]
            PROVE  rule'[d] = rule[d]
        <5>1. /\ rule[d] \in [state : {"none", "ENABLED", "DISABLED"}, target : BOOLEAN]
              /\ rule'[d] = [state |-> rule[d].state, target |-> TRUE]
          BY <1>1, <2>4, <3>2 DEF TypeOK
        <5>2. rule[d].state = RuleState(d)  BY <4>2
        <5> HIDE DEF PutTargets, IInv
        <5> QED  BY <4>2, <5>1, <5>2
      <4> QED  BY <2>1, <3>3, <4>1, <4>2 DEF Current
    <3>5. (\E v \in Updater : Writes(v, d)) => Current(d)'
      <4> SUFFICES ASSUME Writes(u, d)  PROVE Current(d)'  BY <3>1 DEF Writes
      <4>1. rule[d].state = RuleState(d)  BY DEF Writes
      <4>2. rule'[d] = [state |-> RuleState(d), target |-> TRUE]
        BY <1>1, <2>4, <3>2, <4>1 DEF TypeOK
      <4> QED  BY <2>1, <3>3, <4>2 DEF Current
    <3> QED  BY <2>1, <2>3, <3>4, <3>5 DEF Fresh
  <2>5. CASE d # c
    <3>1. rule'[d] = rule[d]  BY <2>5 DEF TypeOK
    <3>2. \A v \in Busy(d) : v # u  BY <2>5 DEF Busy
    <3>3. Busy(d)' = Busy(d)
      <4>1. Busy(d)' = Busy(d) \ {u}  BY <1>6
      <4> HIDE DEF IInv, PutTargets
      <4> QED  BY <3>2, <4>1
    <3>4. \A v \in Updater : Writes(v, d) => Writes(v, d)'
      BY <1>4, <2>1, <3>1, <3>2, <3>3 DEF Writes
    <3>5. Current(d) => Current(d)'
      BY <1>4, <2>1, <3>1, <3>2, <3>3 DEF Current, Busy
    <3> QED  BY <2>1, <2>3, <3>4, <3>5 DEF Fresh
  <2> QED  BY <2>4, <2>5
<1> QED  BY <1>3, <1>7, <1>8

-----------------------------------------------------------------------------
\* An invocation that ends leaves nothing to others that it had not promised.
LEMMA LeavesNothing ==
  ASSUME IInv, NEW u \in Updater, updater' = [updater EXCEPT ![u] = Idle],
         UNCHANGED <<paused, changes, rule, raced>>
  PROVE  /\ updater' \in [Updater ->
              [pc : {"idle", "read", "put", "target"}, batch : Seq(Event),
               taken : SUBSET Event, read : {"none", "ENABLED", "DISABLED"}]]
         /\ (\A v \in Updater : BatchShape(v)') /\ RacesSeen'
         /\ \A d \in Dag :
              /\ RuleState(d)' = RuleState(d)
              /\ \A v \in Updater \ {u} : /\ Ahead(v, d) => Ahead(v, d)'
                                          /\ Writes(v, d) => Writes(v, d)'
              /\ Current(d) => Current(d)'
<1> USE DEF IInv
<1>1. <<>> \in Seq(Event) /\ Len(<<>>) = 0 /\ IsFiniteSet({})  BY FS_EmptySet
<1>2. \A v \in Updater : v # u => updater'[v] = updater[v]  BY DEF TypeOK
<1>3. updater'[u] = Idle  BY DEF TypeOK
<1>4. updater' \in [Updater ->
              [pc : {"idle", "read", "put", "target"}, batch : Seq(Event),
               taken : SUBSET Event, read : {"none", "ENABLED", "DISABLED"}]]
  BY <1>1 DEF TypeOK, Idle
<1>5. \A d \in Dag : Busy(d)' = Busy(d) \ {u}
  BY <1>2, <1>3 DEF Busy, Handling, Idle
<1>6. \A v \in Updater : BatchShape(v)'
  BY <1>1, <1>2, <1>3 DEF Shape, BatchShape, Idle
<1>7. RacesSeen'  BY <1>5 DEF Shape, RacesSeen
<1>8. ASSUME NEW d \in Dag
      PROVE  /\ RuleState(d)' = RuleState(d)
             /\ \A v \in Updater \ {u} : /\ Ahead(v, d) => Ahead(v, d)'
                                         /\ Writes(v, d) => Writes(v, d)'
             /\ Current(d) => Current(d)'
  <2>1. RuleState(d)' = RuleState(d)  BY DEF RuleState
  <2>2. \A v \in Updater \ {u} : /\ Ahead(v, d) => Ahead(v, d)'
                                 /\ Writes(v, d) => Writes(v, d)'
    BY <1>2, <1>5, <2>1 DEF Ahead, Writes
  <2>3. Current(d) => Current(d)'
    BY <1>2, <1>5, <2>1 DEF Current, Busy
  <2> QED  BY <2>1, <2>2, <2>3
<1> QED  BY <1>4, <1>6, <1>7, <1>8

LEMMA ReturnStep ==
  ASSUME IInv, NEW u \in Updater, Return(u)
  PROVE  IInv'
<1> USE DEF Return
<1>1. TypeOK'  BY LeavesNothing DEF TypeOK, IInv
<1>2. Shape'  BY LeavesNothing DEF IInv, Shape, QueueShape
<1>3. ASSUME NEW d \in Dag \ (raced \cup expired)'  PROVE Fresh(d)'
  <2>1. Fresh(d)  BY DEF IInv
  <2>2. ~Ahead(u, d) /\ ~Writes(u, d)  BY DEF Ahead, Writes, Busy
  <2>3. /\ \A v \in Updater \ {u} : /\ Ahead(v, d) => Ahead(v, d)'
                                    /\ Writes(v, d) => Writes(v, d)'
        /\ Current(d) => Current(d)'
    BY LeavesNothing
  <2>4. CASE \E e \in queue : e.dag = d  BY <2>4 DEF Fresh
  <2>5. CASE \E v \in Updater : Ahead(v, d) \/ Writes(v, d)
    <3>1. \E v \in Updater \ {u} : Ahead(v, d) \/ Writes(v, d)  BY <2>2, <2>5
    <3>2. \E v \in Updater \ {u} : Ahead(v, d)' \/ Writes(v, d)'  BY <2>3, <3>1
    <3> QED  BY <3>2 DEF Fresh
  <2>6. CASE Current(d)  BY <2>3, <2>6 DEF Fresh
  <2> QED  BY <2>1, <2>4, <2>5, <2>6 DEF Fresh
<1> QED  BY <1>1, <1>2, <1>3 DEF IInv

\* A batch that fails is on the queue again, but for the events that expire.
LEMMA GiveBackStep ==
  ASSUME IInv, NEW u \in Updater, GiveBack(u), updater[u].pc # "idle",
         UNCHANGED <<paused, changes, rule, raced>>,
         failures' \in 0 .. MaxFailures
  PROVE  IInv'
<1> DEFINE back == Redelivered(updater[u].taken)
<1>1. /\ queue' = queue \cup back
      /\ expired' = expired \cup {e.dag : e \in updater[u].taken \ back}
      /\ updater' = [updater EXCEPT ![u] = Idle]
  BY DEF GiveBack
<1>2. /\ back \subseteq updater[u].taken /\ updater[u].taken \subseteq Event
      /\ \A e \in back : e.receives < MaxReceives
      /\ IsFiniteSet(back)
  <2>1. back \subseteq updater[u].taken /\ updater[u].taken \subseteq Event
        /\ \A e \in back : e.receives < MaxReceives
    BY DEF IInv, TypeOK, Redelivered
  <2>2. IsFiniteSet(updater[u].taken)  BY DEF IInv, Shape, BatchShape
  <2> HIDE DEF back
  <2> QED  BY <2>1, <2>2, FS_Subset
<1> HIDE DEF back
<1>3. TypeOK'
  <2>1. expired' \subseteq Dag /\ queue' \subseteq Event
    BY <1>1, <1>2 DEF IInv, TypeOK, Event
  <2> QED  BY <1>1, <2>1, LeavesNothing DEF TypeOK, IInv
<1>4. Shape'
  <2>1. IsFiniteSet(queue')  BY <1>1, <1>2, FS_Union DEF IInv, Shape, QueueShape
  <2>2. QueueShape'  BY <1>1, <1>2, <2>1 DEF IInv, Shape, QueueShape
  <2> QED  BY <1>1, <2>2, LeavesNothing DEF Shape
<1>5. ASSUME NEW d \in Dag \ (raced \cup expired)'  PROVE Fresh(d)'
  <2>1. Fresh(d)  BY <1>1 DEF IInv
  <2>2. ASSUME Ahead(u, d) \/ Writes(u, d)  PROVE \E e \in queue' : e.dag = d
    <3>1. PICK i \in 1 .. Len(updater[u].batch) : updater[u].batch[i].dag = d
      <4>1. CASE Ahead(u, d)  BY <4>1 DEF Ahead
      <4>2. CASE Writes(u, d)
        <5>1. updater[u].batch \in Seq(Event) /\ updater[u].batch # <<>>
          BY <4>2 DEF Writes, Busy, IInv, TypeOK, Shape, BatchShape
        <5>2. 1 \in 1 .. Len(updater[u].batch)  BY <5>1
        <5> QED  BY <4>2, <5>2 DEF Writes, Busy, Handling
      <4> QED  BY <2>2, <4>1, <4>2
    <3>2. PICK t \in updater[u].taken : t.dag = d
      BY <3>1 DEF IInv, Shape, BatchShape
    <3>3. t \in back  BY <1>1, <3>2
    <3> QED  BY <1>1, <3>2, <3>3
  <2>3. /\ \A v \in Updater \ {u} : /\ Ahead(v, d) => Ahead(v, d)'
                                    /\ Writes(v, d) => Writes(v, d)'
        /\ Current(d) => Current(d)'
    BY <1>1, LeavesNothing
  <2>4. CASE \E e \in queue : e.dag = d  BY <1>1, <2>4 DEF Fresh
  <2>5. CASE \E v \in Updater : Ahead(v, d) \/ Writes(v, d)
    <3>1. CASE Ahead(u, d) \/ Writes(u, d)  BY <2>2, <3>1 DEF Fresh
    <3>2. CASE \E v \in Updater \ {u} : Ahead(v, d) \/ Writes(v, d)
      <4>1. \E v \in Updater \ {u} : Ahead(v, d)' \/ Writes(v, d)'  BY <2>3, <3>2
      <4> QED  BY <4>1 DEF Fresh
    <3> QED  BY <2>5, <3>1, <3>2
  <2>6. CASE Current(d)  BY <2>3, <2>6 DEF Fresh
  <2> QED  BY <2>1, <2>4, <2>5, <2>6 DEF Fresh
<1> QED  BY <1>3, <1>4, <1>5 DEF IInv

-----------------------------------------------------------------------------
LEMMA NextIInv == IInv /\ [Next]_vars => IInv'
<1> SUFFICES ASSUME IInv, [Next]_vars  PROVE IInv'  OBVIOUS
<1>1. ASSUME NEW d \in Dag, ChangeDag(d)  PROVE IInv'  BY <1>1, ChangeDagStep
<1>2. ASSUME NEW u \in Updater, UpdaterStep(u)  PROVE IInv'
  <2>1. CASE RefuseSchedule(u)
    BY <2>1, GiveBackStep DEF RefuseSchedule, IInv, TypeOK
  <2> QED
    BY <1>2, <2>1, TakeBatchStep, ReadDagStep, PutRuleStep, PutTargetsStep, ReturnStep
    DEF UpdaterStep
<1>3. ASSUME NEW u \in Updater, Fail(u)  PROVE IInv'
  <2>1. failures' \in 0 .. MaxFailures
    BY <1>3, UpdaterAssumption DEF Fail, IInv, TypeOK
  <2> QED  BY <1>3, <2>1, GiveBackStep DEF Fail
<1>4. CASE UNCHANGED vars
  BY <1>4 DEF vars, IInv, TypeOK, Shape, QueueShape, BatchShape, RacesSeen, Fresh,
       Ahead, Writes, Current, Busy, Handling, RuleState
<1> QED  BY <1>1, <1>2, <1>3, <1>4 DEF Next

LEMMA Invariance == Spec => []IInv
<1> QED  BY InitIInv, NextIInv, PTL DEF Spec

\* Every variable keeps its type, for any number of dags, invocations and changes; an
\* event on the queue or in a batch was delivered at most MaxReceives times.
THEOREM TypeCorrect == Spec => []TypeOK
<1>1. IInv => TypeOK  BY DEF IInv
<1> QED  BY <1>1, Invariance, PTL

\* However many invocations overlap and fail, the rule of a dag with nothing pending
\* agrees with the dag, unless two of them handled this very dag at the same time or
\* an event about it expired.
THEOREM OnlyRaceOrExpiry == Spec => []StaleOnlyByRaceOrExpiry
<1>1. IInv => StaleOnlyByRaceOrExpiry
  <2> SUFFICES ASSUME IInv, NEW d \in Dag, ~Pending(d), d \notin raced \cup expired,
                      rule[d].state # "none"
               PROVE  rule[d] = [state |-> RuleState(d), target |-> TRUE]
    BY DEF StaleOnlyByRaceOrExpiry
  <2>1. \A u \in Updater : \A i \in 1 .. Len(updater[u].batch) :
          updater[u].batch[i].dag # d
    BY DEF Pending, IInv, Shape, BatchShape
  <2>2. \A u \in Updater : ~Ahead(u, d)  BY <2>1 DEF Ahead
  <2>3. \A u \in Updater : ~Writes(u, d)
    <3> SUFFICES ASSUME NEW u \in Updater, u \in Busy(d)  PROVE FALSE  BY DEF Writes
    <3>1. updater[u].batch \in Seq(Event) /\ updater[u].batch # <<>>
      BY DEF Busy, IInv, TypeOK, Shape, BatchShape
    <3>2. 1 \in 1 .. Len(updater[u].batch)  BY <3>1
    <3> QED  BY <2>1, <3>2 DEF Busy, Handling
  <2>4. Fresh(d)  BY DEF IInv
  <2> QED  BY <2>2, <2>3, <2>4 DEF Fresh, Pending, Current
<1> QED  BY <1>1, Invariance, PTL
=============================================================================
