------------------------ MODULE TaskExecution_proofs ------------------------
(***************************************************************************)
(* The invariants of TaskExecution for any number of task instances,       *)
(* invocations, queueings and failures: the name of an execution makes a   *)
(* queueing start once, and whatever is lost, a task instance that         *)
(* occupies a slot has somebody to release it or is known to be abandoned. *)
(***************************************************************************)
EXTENDS TaskExecution, FiniteSetTheorems, SequenceTheorems, TLAPS

SameQueueing(e, f) == e.ti = f.ti /\ e.dttm = f.dttm

Todo(v) == invocation[v].todo
Taken(v) == invocation[v].taken

\* The events that are somewhere; those to be handled are among the taken ones.
Pending == queue \cup UNION {Taken(v) : v \in Invocation}

-----------------------------------------------------------------------------
(* The inductive invariant.                                                *)

\* An event of the batch is handled, or still to be.
Queues ==
  /\ \A e \in queue : e.receives < MaxReceives
  /\ \A e \in Pending : e.dttm <= clock
  /\ \A v \in Invocation :
       /\ \A i \in 1 .. Len(Todo(v)) : \E e \in Taken(v) : SameQueueing(e, Todo(v)[i])
       /\ \A e \in Taken(v) :
            Same(e) \/ \E i \in 1 .. Len(Todo(v)) : SameQueueing(e, Todo(v)[i])

\* An execution has the name of a queueing of its task instance, and no more
\* attempts than that.
Named ==
  \A x \in DOMAIN executions :
    /\ \E d \in 1 .. clock : x = <<DigestOf[Ti(x)], d>>
    /\ executions[x].attempt <= AttemptsOf(Ti(x))

\* The queueings of ti that are known of.
NamesOf(ti) ==
  {<<DigestOf[ti], e.dttm>> : e \in {f \in Pending : f.ti = ti}}
    \cup {x \in DOMAIN executions : Ti(x) = ti}

ExecutionsOf(ti) == {x \in DOMAIN executions : Ti(x) = ti}

\* The attempts whose worker got as far as to look at the task instance.
Begun(ti) ==
  {p \in ExecutionsOf(ti) \X (1 .. AttemptsOf(ti)) :
     \/ p[2] < executions[p[1]].attempt
     \/ p[2] = executions[p[1]].attempt /\ ~At(p[1], "submitted")}

\* No queueing has two names, and no attempt two starts.
Counted ==
  /\ clock <= Cardinality(Queueings)
  /\ \A ti \in TI : Cardinality(NamesOf(ti)) <= queuings[ti]
  /\ \A ti \in TI : starts[ti] <= Cardinality(Begun(ti))

\* Somebody will start, or fail, a task instance that is queued ...
Awaited(ti) ==
  \/ \E e \in Pending : e.ti = ti /\ ~Same(e)
  \/ \E x \in DOMAIN executions : Ti(x) = ti /\ executions[x].pc \in {"submitted", "caught"}

\* ... and the execution that started one that is running has not left it.
Minded(ti) ==
  \E x \in DOMAIN executions :
    /\ x = owner[ti] /\ Ti(x) = ti
    /\ executions[x].pc \in {"submitted", "working", "caught"}

Owned(ti) ==
  \/ ti \in abandoned
  \/ /\ state[ti] = "queued" => Awaited(ti)
     /\ state[ti] = "running" => Minded(ti)

IInv == TypeOK /\ Queues /\ Named /\ Counted /\ \A ti \in TI : Owned(ti)

\* As long as nothing has failed, an event is delivered once and every name is new.
Distinct ==
  /\ \A e \in queue : e.receives = 0 /\ ~e.copy /\ ~Known(e)
  /\ \A v \in Invocation : \A i \in 1 .. Len(Todo(v)) :
       /\ ~Known(Todo(v)[i])
       /\ \A e \in queue : Name(e) # Name(Todo(v)[i])
       /\ \A w \in Invocation : \A j \in 1 .. Len(Todo(w)) :
            Name(Todo(v)[i]) = Name(Todo(w)[j]) => v = w /\ i = j

\* What is RUNNING is in the hands of the worker that started it.
Attended ==
  \A ti \in TI : state[ti] = "running" =>
    \E x \in DOMAIN executions : x = owner[ti] /\ Ti(x) = ti /\ At(x, "working")

Unhurt == failures = 0 => abandoned = {} /\ Distinct /\ Attended

-----------------------------------------------------------------------------
(* Facts about the data.                                                   *)

LEMMA TailOne ==
  ASSUME NEW S, NEW s \in Seq(S), s # <<>>
  PROVE  /\ Tail(s) \in Seq(S) /\ Head(s) = s[1] /\ Head(s) \in S
         /\ Len(s) \in Nat /\ Len(s) >= 1 /\ Len(Tail(s)) = Len(s) - 1
         /\ \A i \in 1 .. Len(Tail(s)) : i + 1 \in 1 .. Len(s) /\ Tail(s)[i] = s[i + 1]
         /\ \A i \in 1 .. Len(s) : i # 1 => /\ i - 1 \in 1 .. Len(Tail(s))
                                            /\ Tail(s)[i - 1] = s[i]
<1> QED  OBVIOUS

LEMMA EventFinite == IsFiniteSet(Event)
<1> DEFINE D == (TI \X (1 .. MaxQueueings)) \X ((0 .. MaxReceives) \X BOOLEAN)
           f == [p \in D |-> [ti |-> p[1][1], dttm |-> p[1][2],
                              receives |-> p[2][1], copy |-> p[2][2]]]
<1>1. IsFiniteSet(D)
  <2>1. IsFiniteSet(1 .. MaxQueueings) /\ IsFiniteSet(0 .. MaxReceives)
    BY ExecutionAssumption, FS_Interval
  <2>2. IsFiniteSet(BOOLEAN)
    <3>1. BOOLEAN = {TRUE} \cup {FALSE}  OBVIOUS
    <3>2. IsFiniteSet({TRUE}) /\ IsFiniteSet({FALSE})  BY FS_Singleton
    <3> QED  BY <3>1, <3>2, FS_Union
  <2> QED  BY <2>1, <2>2, ExecutionAssumption, FS_Product
<1>2. f \in Surjection(D, Event)
  <2>1. f \in [D -> Event]  BY DEF Event
  <2>2. \A e \in Event : \E p \in D : f[p] = e
    <3> SUFFICES ASSUME NEW e \in Event  PROVE \E p \in D : f[p] = e  OBVIOUS
    <3> DEFINE p == <<<<e.ti, e.dttm>>, <<e.receives, e.copy>>>>
    <3>1. p \in D  BY DEF Event
    <3>2. f[p] = [ti |-> e.ti, dttm |-> e.dttm, receives |-> e.receives, copy |-> e.copy]
      BY <3>1
    <3>3. f[p] = e
      <4> HIDE DEF f, p
      <4> QED  BY <3>2 DEF Event
    <3> QED  BY <3>1, <3>3
  <2> QED  BY <2>1, <2>2 DEF Surjection
<1> HIDE DEF D, f
<1> QED  BY <1>1, <1>2, FS_Surjection

LEMMA ReceiveOne ==
  ASSUME NEW e \in Event, e.receives < MaxReceives
  PROVE  /\ Receive(e) \in Event /\ Receive(e).ti = e.ti /\ Receive(e).dttm = e.dttm
         /\ Receive(e).receives = e.receives + 1
<1>1. e.receives + 1 \in 0 .. MaxReceives  BY ExecutionAssumption DEF Event
<1> QED  BY <1>1 DEF Receive, Event

\* Two events of one queueing have one name, and stand or fall together.
LEMMA SameQueueingSameName ==
  ASSUME NEW e, NEW f, SameQueueing(e, f)
  PROVE  Name(e) = Name(f) /\ (Same(e) <=> Same(f)) /\ (Known(e) <=> Known(f))
<1> QED  BY DEF SameQueueing, Name, Same, Known

LEMMA PendingEvents ==
  ASSUME TypeOK
  PROVE  Pending \subseteq Event
<1> QED  BY DEF TypeOK, Pending, Taken

LEMMA TodoEvents ==
  ASSUME TypeOK, NEW v \in Invocation
  PROVE  /\ Todo(v) \in Seq(Event) /\ Len(Todo(v)) \in Nat
         /\ \A i \in 1 .. Len(Todo(v)) : Todo(v)[i] \in Event
<1>1. Todo(v) \in Seq(Event)  BY DEF TypeOK, Todo
<1> QED  BY <1>1

LEMMA CountTo ==
  ASSUME NEW n \in Nat
  PROVE  IsFiniteSet(1 .. n) /\ Cardinality(1 .. n) = n
<1>1. IsFiniteSet(1 .. n) /\ Cardinality(1 .. n) = IF 1 > n THEN 0 ELSE n - 1 + 1
  BY FS_Interval
<1> QED  BY <1>1

LEMMA NamesFinite ==
  ASSUME TypeOK, Named, NEW ti \in TI
  PROVE  /\ IsFiniteSet(NamesOf(ti)) /\ Cardinality(NamesOf(ti)) \in Nat
         /\ AttemptsOf(ti) \in Nat
         /\ LET most == NamesOf(ti) \X (1 .. AttemptsOf(ti)) IN
              /\ IsFiniteSet(most)
              /\ Cardinality(most) = Cardinality(NamesOf(ti)) * AttemptsOf(ti)
              /\ Begun(ti) \in SUBSET most
         /\ IsFiniteSet(Begun(ti)) /\ Cardinality(Begun(ti)) \in Nat
<1> DEFINE N == {DigestOf[ti]} \X (1 .. MaxQueueings)
<1>1. IsFiniteSet(N)
  <2>1. IsFiniteSet(1 .. MaxQueueings)  BY ExecutionAssumption, FS_Interval
  <2>2. IsFiniteSet({DigestOf[ti]})  BY FS_Singleton
  <2> QED  BY <2>1, <2>2, FS_Product
<1>2. NamesOf(ti) \subseteq N
  <2>1. \A e \in Pending : e.dttm \in 1 .. MaxQueueings  BY PendingEvents DEF Event
  <2>2. \A x \in DOMAIN executions : Ti(x) = ti => x \in N
    <3>1. 1 .. clock \subseteq 1 .. MaxQueueings
      BY ExecutionAssumption DEF TypeOK
    <3> QED  BY <3>1 DEF Named
  <2> QED  BY <2>1, <2>2 DEF NamesOf
<1> HIDE DEF N
<1>3. IsFiniteSet(NamesOf(ti)) /\ Cardinality(NamesOf(ti)) \in Nat
  BY <1>1, <1>2, FS_Subset, FS_CardinalityType
<1>4. AttemptsOf(ti) \in Nat  BY ExecutionAssumption DEF AttemptsOf
<1> DEFINE I == 1 .. AttemptsOf(ti)
           most == NamesOf(ti) \X I
<1>5. Begun(ti) \in SUBSET most  BY DEF Begun, ExecutionsOf, NamesOf
<1>6. IsFiniteSet(I) /\ Cardinality(I) = AttemptsOf(ti)  BY <1>4, CountTo
<1>7. IsFiniteSet(most) /\ Cardinality(most) = Cardinality(NamesOf(ti)) * AttemptsOf(ti)
  <2> HIDE DEF I
  <2> QED  BY <1>3, <1>6, FS_Product
<1>8. IsFiniteSet(Begun(ti)) /\ Cardinality(Begun(ti)) \in Nat
  <2> HIDE DEF most
  <2> QED  BY <1>5, <1>7, FS_Subset, FS_CardinalityType
<1> QED  BY <1>3, <1>4, <1>5, <1>7, <1>8

\* A set that a step does not enlarge has not more elements after it.
LEMMA NoMore ==
  ASSUME NEW S, IsFiniteSet(S), NEW T \in SUBSET S
  PROVE  Cardinality(T) <= Cardinality(S)
<1> QED  BY FS_Subset

LEMMA OneMore ==
  ASSUME NEW S, IsFiniteSet(S), NEW x, x \notin S, NEW T, IsFiniteSet(T),
         S \cup {x} \subseteq T
  PROVE  Cardinality(S) + 1 <= Cardinality(T)
<1>1. Cardinality(S \cup {x}) = Cardinality(S) + 1  BY FS_AddElement
<1> QED  BY <1>1, NoMore, FS_CardinalityType

LEMMA AtMostOneMore ==
  ASSUME NEW S, IsFiniteSet(S), NEW x
  PROVE  IsFiniteSet(S \cup {x}) /\ Cardinality(S \cup {x}) <= Cardinality(S) + 1
<1>1. Cardinality(S) \in Nat  BY FS_CardinalityType
<1>2. CASE x \in S
  <2>1. S \cup {x} = S  BY <1>2
  <2>2. IsFiniteSet(S \cup {x}) /\ Cardinality(S \cup {x}) = Cardinality(S)
    BY <2>1
  <2> QED  BY <1>1, <2>2
<1>3. CASE x \notin S
  <2>1. IsFiniteSet(S \cup {x}) /\ Cardinality(S \cup {x}) = Cardinality(S) + 1
    BY <1>3, FS_AddElement
  <2> QED  BY <1>1, <2>1
<1> QED  BY <1>2, <1>3

LEMMA QueueingsFinite ==
  ASSUME NEW q \in [TI -> 0 .. MaxQueueings]
  PROVE  IsFiniteSet(UNION {{ti} \X (1 .. q[ti]) : ti \in TI})
<1> DEFINE N == TI \X (1 .. MaxQueueings)
           U == UNION {{ti} \X (1 .. q[ti]) : ti \in TI}
<1>1. IsFiniteSet(N)
  <2>1. IsFiniteSet(1 .. MaxQueueings)  BY ExecutionAssumption, FS_Interval
  <2> QED  BY <2>1, ExecutionAssumption, FS_Product
<1>2. U \subseteq N
  <2>1. \A ti \in TI : 1 .. q[ti] \subseteq 1 .. MaxQueueings
    BY ExecutionAssumption
  <2> QED  BY <2>1
<1> HIDE DEF N, U
<1>3. IsFiniteSet(U)  BY <1>1, <1>2, FS_Subset
<1> QED  BY <1>3 DEF U

-----------------------------------------------------------------------------
LEMMA InitIInv == Init => IInv /\ Unhurt
<1> SUFFICES ASSUME Init  PROVE IInv /\ Unhurt  OBVIOUS
<1> USE ExecutionAssumption DEF Init
<1>1. /\ <<>> \in Seq(Event) /\ Len(<<>>) = 0 /\ 1 .. 0 = {}
      /\ DOMAIN executions = {}
  OBVIOUS
<1>2. \A v \in Invocation : Todo(v) = <<>> /\ Taken(v) = {}
  BY DEF Todo, Taken, IdleInvocation
<1>3. Pending = {}  BY <1>2 DEF Pending
<1>4. TypeOK
  BY <1>1 DEF TypeOK, IdleInvocation, NoOne, TaskInstanceState
<1>5. Queues  BY <1>1, <1>2, <1>3 DEF Queues
<1>6. Named  BY <1>1 DEF Named
<1>7. Counted
  <2>1. Cardinality(Queueings) \in Nat
    <3>1. queuings \in [TI -> 0 .. MaxQueueings]  BY <1>4 DEF TypeOK
    <3> QED  BY <3>1, QueueingsFinite, FS_CardinalityType DEF Queueings
  <2>2. \A ti \in TI : NamesOf(ti) = {} /\ Begun(ti) = {}
    BY <1>1, <1>3 DEF NamesOf, Begun, ExecutionsOf
  <2>3. Cardinality({}) = 0  BY FS_EmptySet
  <2>4. clock <= Cardinality(Queueings)  BY <2>1
  <2>5. ASSUME NEW ti \in TI
        PROVE  /\ Cardinality(NamesOf(ti)) <= queuings[ti]
               /\ starts[ti] <= Cardinality(Begun(ti))
    <3>1. Cardinality(NamesOf(ti)) = 0 /\ Cardinality(Begun(ti)) = 0
      BY <2>2, <2>3
    <3>2. queuings[ti] = 0 /\ starts[ti] = 0  OBVIOUS
    <3> QED  BY <3>1, <3>2
  <2> HIDE DEF Init
  <2> QED  BY <2>4, <2>5 DEF Counted
<1>8. \A ti \in TI : Owned(ti)  BY DEF Owned
<1>9. Unhurt  BY <1>1, <1>2 DEF Unhurt, Distinct, Attended
<1> QED  BY <1>4, <1>5, <1>6, <1>7, <1>8, <1>9 DEF IInv

-----------------------------------------------------------------------------
(* Steps that only move events.                                            *)

\* Moving events keeps the counts, and every task instance is awaited as before
\* unless its event has expired.
LEMMA MoveEvents ==
  ASSUME IInv,
         UNCHANGED <<state, queuings, starts, owner, clock, executions>>,
         queue' \subseteq Event,
         invocation' \in [Invocation -> [todo : Seq(Event), taken : SUBSET Event]],
         abandoned' \subseteq TI, abandoned \subseteq abandoned',
         failures' \in 0 .. MaxFailures,
         \A e \in queue' : e.receives < MaxReceives,
         \A v \in Invocation :
           /\ \A i \in 1 .. Len(invocation'[v].todo) :
                \E e \in invocation'[v].taken : SameQueueing(e, invocation'[v].todo[i])
           /\ \A e \in invocation'[v].taken :
                \/ Same(e)
                \/ \E i \in 1 .. Len(invocation'[v].todo) :
                     SameQueueing(e, invocation'[v].todo[i]),
         \A e \in Pending' : \E f \in Pending : SameQueueing(e, f),
         \A f \in Pending :
           \/ \E e \in Pending' : SameQueueing(e, f)
           \/ Same(f) \/ f.ti \in abandoned'
  PROVE  IInv'
<1>1. TypeOK'  BY DEF IInv, TypeOK, Names
<1>2. Queues'
  <2>1. \A e \in Pending' : e.dttm <= clock
    BY DEF IInv, Queues, SameQueueing
  <2> QED  BY <2>1 DEF Queues, Todo, Taken, Same, Known, Name
<1>3. Named'  BY DEF IInv, Named, Ti
<1>4. Counted'
  <2>1. Queueings' = Queueings  BY DEF Queueings
  <2>2. \A ti \in TI : Begun(ti)' = Begun(ti)  BY DEF Begun, ExecutionsOf, Ti, At
  <2>3. ASSUME NEW ti \in TI  PROVE NamesOf(ti)' \in SUBSET NamesOf(ti)
    BY DEF NamesOf, SameQueueing, Ti
  <2>4. ASSUME NEW ti \in TI  PROVE Cardinality(NamesOf(ti)') <= queuings[ti]
    <3>1. IsFiniteSet(NamesOf(ti)) /\ Cardinality(NamesOf(ti)) \in Nat
      BY NamesFinite DEF IInv
    <3>2. IsFiniteSet(NamesOf(ti)') /\ Cardinality(NamesOf(ti)') <= Cardinality(NamesOf(ti))
      BY <2>3, <3>1, FS_Subset
    <3>3. Cardinality(NamesOf(ti)') \in Nat  BY <3>2, FS_CardinalityType
    <3>4. Cardinality(NamesOf(ti)) <= queuings[ti] /\ queuings[ti] \in Nat
      BY DEF IInv, Counted, TypeOK
    <3> QED  BY <3>1, <3>2, <3>3, <3>4
  <2> QED  BY <2>1, <2>2, <2>4 DEF IInv, Counted
<1>5. ASSUME NEW ti \in TI  PROVE Owned(ti)'
  <2>1. Owned(ti)  BY DEF IInv
  <2>2. ASSUME Awaited(ti), ti \notin abandoned'  PROVE Awaited(ti)'
    <3>1. CASE \E e \in Pending : e.ti = ti /\ ~Same(e)
      <4>1. PICK f \in Pending : f.ti = ti /\ ~Same(f)  BY <3>1
      <4>2. PICK e \in Pending' : SameQueueing(e, f)  BY <2>2, <4>1
      <4>3. e.ti = ti /\ ~Same(e)  BY <4>1, <4>2, SameQueueingSameName DEF SameQueueing
      <4>4. ~Same(e)'  BY <4>3 DEF Same, Known, Name
      <4> QED  BY <4>2, <4>3, <4>4 DEF Awaited
    <3>2. CASE \E x \in DOMAIN executions :
                 Ti(x) = ti /\ executions[x].pc \in {"submitted", "caught"}
      BY <3>2 DEF Awaited, Ti
    <3> QED  BY <2>2, <3>1, <3>2 DEF Awaited
  <2>3. Minded(ti) => Minded(ti)'  BY DEF Minded, Ti
  <2> QED  BY <2>1, <2>2, <2>3 DEF Owned
<1> QED  BY <1>1, <1>2, <1>3, <1>4, <1>5 DEF IInv

LEMMA DuplicateStep ==
  ASSUME IInv, Duplicate
  PROVE  IInv'
<1>1. PICK e \in queue : queue' = queue \cup {[e EXCEPT !.copy = TRUE]}
  BY DEF Duplicate
<1> DEFINE c == [e EXCEPT !.copy = TRUE]
<1>2. /\ UNCHANGED <<state, queuings, starts, owner, clock, executions>>
      /\ invocation' = invocation /\ abandoned' = abandoned
      /\ failures < MaxFailures /\ failures' = failures + 1
  BY DEF Duplicate, Failure, UnchangedTasks
<1>3. e \in Event  BY DEF IInv, TypeOK
<1>4. c \in Event /\ SameQueueing(c, e) /\ c.receives = e.receives
  BY <1>3 DEF Event, SameQueueing
<1>5. queue' = queue \cup {c}  BY <1>1
<1> HIDE DEF c
<1>6. Pending' = Pending \cup {c} /\ e \in Pending
  BY <1>2, <1>5 DEF Pending, Taken
<1>7. queue' \subseteq Event /\ \A f \in queue' : f.receives < MaxReceives
  BY <1>4, <1>5 DEF IInv, TypeOK, Queues
<1>8. failures' \in 0 .. MaxFailures
  BY <1>2, ExecutionAssumption DEF IInv, TypeOK
<1>9. \A f : SameQueueing(f, f)  BY DEF SameQueueing
<1>10. /\ \A f \in Pending' : \E g \in Pending : SameQueueing(f, g)
       /\ \A g \in Pending : \E f \in Pending' : SameQueueing(f, g)
  BY <1>4, <1>6, <1>9
<1>11. /\ invocation' \in [Invocation -> [todo : Seq(Event), taken : SUBSET Event]]
       /\ abandoned' \subseteq TI /\ abandoned \subseteq abandoned'
  BY <1>2 DEF IInv, TypeOK
<1>12. \A v \in Invocation :
         /\ \A i \in 1 .. Len(invocation'[v].todo) :
              \E f \in invocation'[v].taken : SameQueueing(f, invocation'[v].todo[i])
         /\ \A f \in invocation'[v].taken :
              \/ Same(f)
              \/ \E i \in 1 .. Len(invocation'[v].todo) :
                   SameQueueing(f, invocation'[v].todo[i])
  BY <1>2 DEF IInv, Queues, Todo, Taken
<1> QED  BY <1>2, <1>7, <1>8, <1>10, <1>11, <1>12, MoveEvents

\* The events of the batch are taken, and all of them are to be handled.
LEMMA TakeBatchStep ==
  ASSUME IInv, NEW v \in Invocation, TakeBatch(v)
  PROVE  IInv'
<1>1. PICK B \in (SUBSET queue) \ {{}} : \E todo \in [1 .. Cardinality(B) -> B] :
        /\ {todo[i] : i \in 1 .. Cardinality(B)} = B
        /\ invocation' = [invocation EXCEPT ![v] =
                            [todo |-> todo, taken |-> {Receive(e) : e \in B}]]
        /\ queue' = queue \ B
  BY DEF TakeBatch
<1>2. PICK todo \in [1 .. Cardinality(B) -> B] :
        /\ {todo[i] : i \in 1 .. Cardinality(B)} = B
        /\ invocation' = [invocation EXCEPT ![v] =
                            [todo |-> todo, taken |-> {Receive(e) : e \in B}]]
        /\ queue' = queue \ B
  BY <1>1
<1> DEFINE taken == {Receive(e) : e \in B}
<1>3. /\ UNCHANGED <<state, queuings, starts, owner, clock, executions>>
      /\ abandoned' = abandoned /\ failures' = failures
      /\ invocation[v].taken = {}
  BY DEF TakeBatch, UnchangedTasks, IdleInvocation
<1>4. B \subseteq Event /\ IsFiniteSet(B) /\ Cardinality(B) \in Nat
  <2>1. B \subseteq Event  BY DEF IInv, TypeOK
  <2> QED  BY <2>1, EventFinite, FS_Subset, FS_CardinalityType
<1>5. todo \in Seq(Event) /\ Len(todo) = Cardinality(B)  BY <1>4
<1>6. \A e \in B : Receive(e) \in Event /\ SameQueueing(Receive(e), e)
  <2>1. \A e \in B : e \in Event /\ e.receives < MaxReceives
    BY <1>4 DEF IInv, Queues
  <2> QED  BY <2>1, ReceiveOne DEF SameQueueing
<1>7. /\ invocation'[v] = [todo |-> todo, taken |-> taken]
      /\ \A w \in Invocation : w # v => invocation'[w] = invocation[w]
  BY <1>2 DEF IInv, TypeOK
<1>8. /\ queue' \subseteq Event /\ \A e \in queue' : e.receives < MaxReceives
      /\ abandoned' \subseteq TI /\ abandoned \subseteq abandoned'
      /\ failures' \in 0 .. MaxFailures
  BY <1>2, <1>3 DEF IInv, TypeOK, Queues
<1>9. invocation' \in [Invocation -> [todo : Seq(Event), taken : SUBSET Event]]
  <2>1. taken \in SUBSET Event  BY <1>6
  <2> HIDE DEF taken
  <2>2. invocation' = [invocation EXCEPT ![v] = [todo |-> todo, taken |-> taken]]
    BY <1>2 DEF taken
  <2> QED  BY <1>5, <2>1, <2>2 DEF IInv, TypeOK
<1>10. ASSUME NEW w \in Invocation
       PROVE  /\ \A i \in 1 .. Len(invocation'[w].todo) :
                   \E e \in invocation'[w].taken : SameQueueing(e, invocation'[w].todo[i])
              /\ \A e \in invocation'[w].taken :
                   \/ Same(e)
                   \/ \E i \in 1 .. Len(invocation'[w].todo) :
                        SameQueueing(e, invocation'[w].todo[i])
  <2>1. CASE w # v  BY <1>7, <2>1 DEF IInv, Queues, Todo, Taken
  <2>2. CASE w = v
    <3>1. \A i \in 1 .. Len(todo) : \E e \in taken : SameQueueing(e, todo[i])
      BY <1>5, <1>6
    <3>2. \A e \in taken : \E i \in 1 .. Len(todo) : SameQueueing(e, todo[i])
      <4> SUFFICES ASSUME NEW e \in B
                   PROVE  \E i \in 1 .. Len(todo) : SameQueueing(Receive(e), todo[i])
        OBVIOUS
      <4>1. PICK i \in 1 .. Cardinality(B) : todo[i] = e  BY <1>2
      <4> QED  BY <1>5, <1>6, <4>1
    <3> HIDE DEF taken
    <3>3. invocation'[w].todo = todo /\ invocation'[w].taken = taken
      BY <1>7, <2>2
    <3> QED  BY <3>1, <3>2, <3>3
  <2> QED  BY <2>1, <2>2
<1>11. /\ \A e \in Pending' : \E f \in Pending : SameQueueing(e, f)
       /\ \A f \in Pending : \E e \in Pending' : SameQueueing(e, f)
  <2>1. \A f : SameQueueing(f, f)  BY DEF SameQueueing
  <2>2. ASSUME NEW e \in Pending'  PROVE \E f \in Pending : SameQueueing(e, f)
    <3>1. e \in queue' \/ \E w \in Invocation : e \in invocation'[w].taken
      BY <2>2 DEF Pending, Taken
    <3>2. CASE e \in queue'  BY <1>2, <2>1, <3>2 DEF Pending
    <3>3. CASE e \in taken  BY <1>6, <3>3 DEF Pending
    <3>4. CASE \E w \in Invocation \ {v} : e \in invocation'[w].taken
      <4>1. e \in Pending  BY <1>7, <3>4 DEF Pending, Taken
      <4> QED  BY <2>1, <4>1
    <3> HIDE DEF taken
    <3> QED  BY <1>7, <3>1, <3>2, <3>3, <3>4
  <2>3. ASSUME NEW f \in Pending  PROVE \E e \in Pending' : SameQueueing(e, f)
    <3>1. CASE f \in B
      <4>1. Receive(f) \in taken  BY <3>1
      <4>2. Receive(f) \in Pending'
        <5> HIDE DEF taken
        <5> QED  BY <1>7, <4>1 DEF Pending, Taken
      <4> QED  BY <1>6, <3>1, <4>2
    <3>2. CASE f \in queue \ B
      <4>1. f \in Pending'  BY <1>2, <3>2 DEF Pending
      <4> QED  BY <2>1, <4>1
    <3>3. CASE \E w \in Invocation : f \in invocation[w].taken
      <4>1. PICK w \in Invocation : f \in invocation[w].taken  BY <3>3
      <4>2. w # v  BY <1>3, <4>1
      <4>3. f \in Pending'  BY <1>7, <4>1, <4>2 DEF Pending, Taken
      <4> QED  BY <2>1, <4>3
    <3> QED  BY <3>1, <3>2, <3>3 DEF Pending, Taken
  <2> QED  BY <2>2, <2>3
<1> QED  BY <1>3, <1>8, <1>9, <1>10, <1>11, MoveEvents

\* An invocation that is idle again: what the others hold, and what is left of its
\* batch if it is back on the queue.
LEMMA EndInvocation ==
  ASSUME IInv, NEW v \in Invocation,
         NEW back \in SUBSET Taken(v), \A e \in back : e.receives < MaxReceives,
         queue' = queue \cup back,
         invocation' = [invocation EXCEPT ![v] = IdleInvocation],
         UNCHANGED <<state, queuings, starts, owner, clock, executions>>,
         abandoned' \subseteq TI, abandoned \subseteq abandoned',
         failures' \in 0 .. MaxFailures,
         \A f \in Taken(v) \ back : Same(f) \/ f.ti \in abandoned'
  PROVE  IInv'
<1>1. /\ invocation'[v] = IdleInvocation
      /\ \A w \in Invocation : w # v => invocation'[w] = invocation[w]
  BY DEF IInv, TypeOK
<1>2. <<>> \in Seq(Event) /\ 1 .. Len(<<>>) = {}  OBVIOUS
<1>3. /\ queue' \subseteq Event /\ \A e \in queue' : e.receives < MaxReceives
  BY DEF IInv, TypeOK, Queues, Taken
<1>4. invocation' \in [Invocation -> [todo : Seq(Event), taken : SUBSET Event]]
  BY <1>2 DEF IInv, TypeOK, IdleInvocation
<1>5. ASSUME NEW w \in Invocation
      PROVE  /\ \A i \in 1 .. Len(invocation'[w].todo) :
                  \E e \in invocation'[w].taken : SameQueueing(e, invocation'[w].todo[i])
             /\ \A e \in invocation'[w].taken :
                  \/ Same(e)
                  \/ \E i \in 1 .. Len(invocation'[w].todo) :
                       SameQueueing(e, invocation'[w].todo[i])
  <2>1. CASE w # v  BY <1>1, <2>1 DEF IInv, Queues, Todo, Taken
  <2>2. CASE w = v  BY <1>1, <1>2, <2>2 DEF IdleInvocation
  <2> QED  BY <2>1, <2>2
<1>6. \A f : SameQueueing(f, f)  BY DEF SameQueueing
<1>7. Pending' \subseteq Pending
  <2>1. \A w \in Invocation : invocation'[w].taken \subseteq invocation[w].taken
    BY <1>1 DEF IdleInvocation
  <2> QED  BY <2>1 DEF Pending, Taken
<1>8. ASSUME NEW f \in Pending  PROVE f \in Pending' \/ Same(f) \/ f.ti \in abandoned'
  <2>1. CASE f \in queue  BY <2>1 DEF Pending
  <2>2. CASE f \in Taken(v)  BY <2>2 DEF Pending
  <2>3. CASE \E w \in Invocation \ {v} : f \in Taken(w)
    BY <1>1, <2>3 DEF Pending, Taken
  <2> QED  BY <2>1, <2>2, <2>3 DEF Pending
<1> QED  BY <1>3, <1>4, <1>5, <1>6, <1>7, <1>8, MoveEvents

LEMMA EndBatchStep ==
  ASSUME IInv, NEW v \in Invocation, EndBatch(v)
  PROVE  IInv'
<1>1. /\ queue' = queue \cup {} /\ abandoned' = abandoned /\ failures' = failures
      /\ invocation' = [invocation EXCEPT ![v] = IdleInvocation]
      /\ UNCHANGED <<state, queuings, starts, owner, clock, executions>>
      /\ Todo(v) = <<>>
  BY DEF EndBatch, UnchangedTasks, Todo
<1>2. \A f \in Taken(v) : Same(f)
  <2>1. 1 .. Len(<<>>) = {}  OBVIOUS
  <2> QED  BY <1>1, <2>1 DEF IInv, Queues
<1>3. abandoned' \subseteq TI /\ failures' \in 0 .. MaxFailures
  BY <1>1 DEF IInv, TypeOK
<1>4. {} \in SUBSET Taken(v)  OBVIOUS
<1> QED  BY <1>1, <1>2, <1>3, <1>4, EndInvocation

\* The events of a failed batch are back, or expire; one that expires before its
\* execution was started abandons its task instance.
LEMMA GiveBackStep ==
  ASSUME IInv, NEW v \in Invocation, GiveBack(v),
         UNCHANGED <<state, queuings, starts, owner, clock, executions>>,
         failures' \in 0 .. MaxFailures
  PROVE  IInv'
<1> DEFINE back == {e \in Taken(v) : ~Expired(e)}
<1>1. /\ queue' = queue \cup back
      /\ invocation' = [invocation EXCEPT ![v] = IdleInvocation]
      /\ abandoned' = abandoned \cup
           {ti \in TI : \E e \in Taken(v) : e.ti = ti /\ Expired(e) /\ ~Same(e)}
  BY DEF GiveBack, Taken
<1>2. /\ back \in SUBSET Taken(v) /\ \A e \in back : e.receives < MaxReceives
      /\ \A f \in Taken(v) \ back : Expired(f) /\ f.ti \in TI
  BY ExecutionAssumption DEF IInv, TypeOK, Taken, Expired, Event
<1>3. abandoned' \subseteq TI /\ abandoned \subseteq abandoned'
  BY <1>1 DEF IInv, TypeOK
<1>4. \A f \in Taken(v) \ back : Same(f) \/ f.ti \in abandoned'
  BY <1>1, <1>2
<1> HIDE DEF back
<1> QED  BY <1>1, <1>2, <1>3, <1>4, EndInvocation

LEMMA FailedBatchStep ==
  ASSUME IInv, NEW v \in Invocation, RefuseName(v) \/ FailBatch(v)
  PROVE  IInv'
<1>1. GiveBack(v) /\ UNCHANGED <<state, queuings, starts, owner, clock, executions>>
  BY DEF RefuseName, FailBatch, UnchangedTasks
<1>2. failures' \in 0 .. MaxFailures
  BY ExecutionAssumption DEF RefuseName, FailBatch, Failure, IInv, TypeOK
<1> QED  BY <1>1, <1>2, GiveBackStep

-----------------------------------------------------------------------------
\* The name of an execution that starts is that of a queueing known of already; an
\* execution that was started is never another's.
LEMMA StartExecutionStep ==
  ASSUME IInv, NEW v \in Invocation, StartExecution(v)
  PROVE  IInv'
<1> DEFINE e0 == Head(Todo(v))
<1>1. Todo(v) \in Seq(Event) /\ Todo(v) # <<>>
  BY DEF StartExecution, Todo, IInv, TypeOK
<1>2. /\ Tail(Todo(v)) \in Seq(Event) /\ e0 = Todo(v)[1] /\ e0 \in Event
      /\ Len(Todo(v)) \in Nat /\ Len(Todo(v)) >= 1
      /\ \A i \in 1 .. Len(Tail(Todo(v))) :
           i + 1 \in 1 .. Len(Todo(v)) /\ Tail(Todo(v))[i] = Todo(v)[i + 1]
      /\ \A i \in 1 .. Len(Todo(v)) : i # 1 =>
           i - 1 \in 1 .. Len(Tail(Todo(v))) /\ Tail(Todo(v))[i - 1] = Todo(v)[i]
  <2> HIDE DEF e0
  <2>1. e0 = Head(Todo(v))  BY DEF e0
  <2> QED  BY <1>1, <2>1, TailOne
<1>3. /\ UNCHANGED <<state, queuings, starts, owner, clock, queue, abandoned, failures>>
      /\ invocation' = [invocation EXCEPT ![v].todo = Tail(Todo(v))]
      /\ \/ /\ ~Known(e0)
            /\ executions' = [n \in DOMAIN executions \cup {Name(e0)} |->
                                IF n = Name(e0) THEN NewExecution(e0) ELSE executions[n]]
         \/ IsRunning(e0) /\ UNCHANGED executions
  BY DEF StartExecution, UnchangedTasks, Todo
<1> HIDE DEF e0
<1>4. /\ invocation'[v].todo = Tail(Todo(v)) /\ invocation'[v].taken = Taken(v)
      /\ \A w \in Invocation : w # v => invocation'[w] = invocation[w]
  BY <1>3 DEF IInv, TypeOK, Taken
<1>5. Pending' = Pending
  <2>1. \A w \in Invocation : invocation'[w].taken = invocation[w].taken
    BY <1>4 DEF Taken
  <2> QED  BY <1>3, <2>1 DEF Pending, Taken
<1>6. PICK f0 \in Taken(v) : SameQueueing(f0, e0)
  <2>1. 1 \in 1 .. Len(Todo(v))  BY <1>2
  <2> QED  BY <1>2, <2>1 DEF IInv, Queues
<1>7. /\ f0 \in Pending /\ f0.ti = e0.ti /\ f0.dttm = e0.dttm
      /\ e0.ti \in TI /\ e0.dttm \in 1 .. MaxQueueings /\ e0.dttm <= clock
  BY <1>2, <1>6 DEF Pending, SameQueueing, Event, IInv, Queues
\* what the step adds to the executions
<1>8. /\ DOMAIN executions' = DOMAIN executions \cup {Name(e0)}
      /\ \A x \in DOMAIN executions : executions'[x] = executions[x]
      /\ executions'[Name(e0)].ti = e0.ti
      /\ Name(e0) \notin DOMAIN executions => executions'[Name(e0)] = NewExecution(e0)
  <2>1. CASE ~Known(e0) /\ executions' = [n \in DOMAIN executions \cup {Name(e0)} |->
                          IF n = Name(e0) THEN NewExecution(e0) ELSE executions[n]]
    <3>1. Name(e0) \notin DOMAIN executions  BY <2>1 DEF Known
    <3>2. NewExecution(e0).ti = e0.ti  BY DEF NewExecution
    <3> QED  BY <2>1, <3>1, <3>2
  <2>2. CASE IsRunning(e0) /\ UNCHANGED executions
    BY <2>2 DEF IsRunning, Same, Known
  <2> QED  BY <1>3, <2>1, <2>2
<1>9. \A e : Same(e) => Same(e)'  BY <1>8 DEF Same, Known, Name
<1>10. \A e : SameQueueing(e, e0) => Same(e)'
  BY <1>8 DEF Same, Known, Name, SameQueueing
<1>11. TypeOK'
  <2>1. invocation' \in [Invocation -> [todo : Seq(Event), taken : SUBSET Event]]
    BY <1>2, <1>3 DEF IInv, TypeOK
  <2>2. NewExecution(e0) \in Execution
    BY <1>7, ExecutionAssumption DEF NewExecution, Execution
  <2>3. Name(e0) \in Names  BY <1>7 DEF Name, Names
  <2>4. DOMAIN executions' \subseteq Names /\ \A x \in DOMAIN executions' : executions'[x] \in Execution
    BY <1>8, <2>2, <2>3 DEF IInv, TypeOK
  <2> QED  BY <1>3, <2>1, <2>4 DEF IInv, TypeOK, Names, Execution
<1>12. Queues'
  <2>1. \A e \in queue' : e.receives < MaxReceives  BY <1>3 DEF IInv, Queues
  <2>2. \A e \in Pending' : e.dttm <= clock'  BY <1>3, <1>5 DEF IInv, Queues
  <2>3. ASSUME NEW w \in Invocation
        PROVE  /\ \A i \in 1 .. Len(invocation'[w].todo) :
                    \E e \in invocation'[w].taken : SameQueueing(e, invocation'[w].todo[i])
               /\ \A e \in invocation'[w].taken :
                    \/ Same(e)'
                    \/ \E i \in 1 .. Len(invocation'[w].todo) :
                         SameQueueing(e, invocation'[w].todo[i])
    <3>1. CASE w # v
      <4>1. invocation'[w] = invocation[w]  BY <1>4, <3>1
      <4> QED  BY <1>9, <4>1 DEF IInv, Queues, Todo, Taken
    <3>2. CASE w = v
      <4>1. \A i \in 1 .. Len(Tail(Todo(v))) :
              \E e \in Taken(v) : SameQueueing(e, Tail(Todo(v))[i])
        BY <1>2 DEF IInv, Queues
      <4>2. ASSUME NEW e \in Taken(v)
            PROVE  \/ Same(e)'
                   \/ \E i \in 1 .. Len(Tail(Todo(v))) : SameQueueing(e, Tail(Todo(v))[i])
        <5>1. CASE Same(e)  BY <1>9, <5>1
        <5>2. CASE \E i \in 1 .. Len(Todo(v)) : SameQueueing(e, Todo(v)[i])
          <6>1. PICK i \in 1 .. Len(Todo(v)) : SameQueueing(e, Todo(v)[i])  BY <5>2
          <6>2. CASE i = 1  BY <1>2, <1>10, <6>1, <6>2
          <6>3. CASE i # 1  BY <1>2, <6>1, <6>3
          <6> QED  BY <6>2, <6>3
        <5> QED  BY <5>1, <5>2 DEF IInv, Queues
      <4> QED  BY <1>4, <3>2, <4>1, <4>2
    <3> QED  BY <3>1, <3>2
  <2> QED  BY <2>1, <2>2, <2>3 DEF Queues, Todo, Taken
<1>13. Named'
  <2>1. \A x \in DOMAIN executions : \E d \in 1 .. clock' : x = <<DigestOf[executions'[x].ti], d>>
    BY <1>3, <1>8 DEF IInv, Named, Ti
  <2>4. ASSUME NEW x \in DOMAIN executions'
        PROVE  executions'[x].attempt <= AttemptsOf(executions'[x].ti)
    <3>1. CASE x \in DOMAIN executions  BY <1>8, <3>1 DEF IInv, Named, Ti
    <3>2. CASE x \notin DOMAIN executions
      <4>1. executions'[x] = NewExecution(e0)  BY <1>8, <3>2
      <4>2. executions'[x].attempt = 1 /\ 1 <= AttemptsOf(executions'[x].ti)
        BY <4>1, ExecutionAssumption DEF NewExecution, AttemptsOf
      <4> QED  BY <4>2
    <3> QED  BY <3>1, <3>2
  <2>2. Name(e0) = <<DigestOf[executions'[Name(e0)].ti], e0.dttm>> /\ e0.dttm \in 1 .. clock'
    BY <1>3, <1>7, <1>8 DEF Name, IInv, TypeOK
  <2>3. \A x \in DOMAIN executions' : \E d \in 1 .. clock' : x = <<DigestOf[executions'[x].ti], d>>
    BY <1>8, <2>1, <2>2
  <2> QED  BY <2>3, <2>4 DEF Named, Ti, AttemptsOf
<1>14. Counted'
  <2>1. Queueings' = Queueings  BY <1>3 DEF Queueings
  <2>2. ASSUME NEW ti \in TI  PROVE Begun(ti)' = Begun(ti)
    <3>1. Name(e0) \notin DOMAIN executions =>
            executions'[Name(e0)].pc = "submitted" /\ executions'[Name(e0)].attempt = 1
      BY <1>8 DEF NewExecution
    <3> QED  BY <1>8, <3>1 DEF Begun, ExecutionsOf, Ti, At
  <2>3. ASSUME NEW ti \in TI  PROVE NamesOf(ti)' \in SUBSET NamesOf(ti)
    <3>1. e0.ti = ti => Name(e0) \in NamesOf(ti)
      BY <1>7 DEF NamesOf, Name
    <3> QED  BY <1>5, <1>8, <3>1 DEF NamesOf, Ti
  <2>4. ASSUME NEW ti \in TI  PROVE Cardinality(NamesOf(ti)') <= queuings[ti]
    <3>1. IsFiniteSet(NamesOf(ti)) /\ Cardinality(NamesOf(ti)) \in Nat
      BY NamesFinite DEF IInv
    <3>2. IsFiniteSet(NamesOf(ti)') /\ Cardinality(NamesOf(ti)') <= Cardinality(NamesOf(ti))
      BY <2>3, <3>1, FS_Subset
    <3>3. Cardinality(NamesOf(ti)') \in Nat  BY <3>2, FS_CardinalityType
    <3>4. Cardinality(NamesOf(ti)) <= queuings[ti] /\ queuings[ti] \in Nat
      BY DEF IInv, Counted, TypeOK
    <3> QED  BY <3>1, <3>2, <3>3, <3>4
  <2> QED  BY <1>3, <2>1, <2>2, <2>4 DEF IInv, Counted
<1>15. ASSUME NEW ti \in TI  PROVE Owned(ti)'
  <2>1. Owned(ti)  BY DEF IInv
  <2>2. ASSUME Awaited(ti)  PROVE Awaited(ti)'
    <3>1. CASE \E x \in DOMAIN executions :
                 Ti(x) = ti /\ executions[x].pc \in {"submitted", "caught"}
      <4>1. PICK x \in DOMAIN executions :
              executions[x].ti = ti /\ executions[x].pc \in {"submitted", "caught"}
        BY <3>1 DEF Ti
      <4>2. x \in DOMAIN executions' /\ executions'[x] = executions[x]  BY <1>8
      <4> QED  BY <4>1, <4>2 DEF Awaited, Ti
    <3>2. CASE \E e \in Pending : e.ti = ti /\ ~Same(e)
      <4>1. PICK e \in Pending : e.ti = ti /\ ~Same(e)  BY <3>2
      <4>2. CASE Name(e) # Name(e0) \/ e.ti # e0.ti
        <5>1. ~Same(e)'
          BY <1>8, <4>1, <4>2 DEF Same, Known, Name
        <5> QED  BY <1>5, <4>1, <5>1 DEF Awaited
      <4>3. CASE Name(e) = Name(e0) /\ e.ti = e0.ti
        <5>1. CASE Name(e0) \in DOMAIN executions
          <6>1. executions[Name(e0)].ti = e0.ti  BY <1>8, <5>1
          <6> QED  BY <4>1, <4>3, <5>1, <6>1 DEF Same, Known
        <5>2. CASE Name(e0) \notin DOMAIN executions
          <6>1. executions'[Name(e0)].ti = ti /\ executions'[Name(e0)].pc = "submitted"
            BY <1>8, <4>1, <4>3, <5>2 DEF NewExecution
          <6> QED  BY <1>8, <6>1 DEF Awaited, Ti
        <5> QED  BY <5>1, <5>2
      <4> QED  BY <4>2, <4>3
    <3> QED  BY <2>2, <3>1, <3>2 DEF Awaited
  <2>3. Minded(ti) => Minded(ti)'  BY <1>3, <1>8 DEF Minded, Ti
  <2> QED  BY <1>3, <2>1, <2>2, <2>3 DEF Owned
<1> QED  BY <1>11, <1>12, <1>13, <1>14, <1>15 DEF IInv

-----------------------------------------------------------------------------
\* An UPDATE that queues task instances: a new name for each of them.
LEMMA QueueTisStep ==
  ASSUME IInv, QueueTis
  PROVE  IInv'
<1>1. PICK S \in (SUBSET {ti \in TI : state[ti] \in SCHEDULEABLE_STATES}) \ {{}} :
        /\ Cardinality(Queueings) + Cardinality(S) <= MaxQueueings
        /\ state' = [ti \in TI |-> IF ti \in S THEN "queued" ELSE state[ti]]
        /\ queuings' = [ti \in TI |-> IF ti \in S THEN queuings[ti] + 1 ELSE queuings[ti]]
        /\ queue' = queue \cup
                      [ti : S, dttm : {clock + 1}, receives : {0}, copy : {FALSE}]
  BY DEF QueueTis
<1>2. /\ clock' = clock + 1
      /\ UNCHANGED <<starts, owner, invocation, executions, abandoned, failures>>
  BY DEF QueueTis
<1> DEFINE sent == [ti : S, dttm : {clock + 1}, receives : {0}, copy : {FALSE}]
<1>3. /\ S \subseteq TI /\ clock \in Nat /\ MaxQueueings \in Nat
      /\ \A ti \in TI : queuings[ti] \in 0 .. MaxQueueings /\ queuings[ti] \in Nat
  BY ExecutionAssumption DEF IInv, TypeOK
<1>4. PICK t \in S : t \in TI  BY <1>1, <1>3
<1>5. /\ IsFiniteSet(S) /\ Cardinality(S) \in Nat /\ Cardinality(S) >= 1
      /\ IsFiniteSet(Queueings) /\ Cardinality(Queueings) \in Nat
  <2>1. IsFiniteSet(S)  BY <1>3, ExecutionAssumption, FS_Subset
  <2>2. Cardinality(S) \in Nat /\ Cardinality(S) # 0
    BY <1>4, <2>1, FS_CardinalityType, FS_EmptySet
  <2>3. IsFiniteSet(Queueings)
    BY QueueingsFinite DEF IInv, TypeOK, Queueings
  <2> QED  BY <2>1, <2>2, <2>3, FS_CardinalityType
<1>6. \A ti \in TI : queuings[ti] <= Cardinality(Queueings)
  <2> SUFFICES ASSUME NEW ti \in TI  PROVE queuings[ti] <= Cardinality(Queueings)
    OBVIOUS
  <2> DEFINE own == {ti} \X (1 .. queuings[ti])
  <2>1. own \in SUBSET Queueings  BY DEF Queueings
  <2>2. Cardinality(own) = queuings[ti]
    <3>1. IsFiniteSet(1 .. queuings[ti]) /\ Cardinality(1 .. queuings[ti]) = queuings[ti]
      BY <1>3, CountTo
    <3>2. IsFiniteSet({ti}) /\ Cardinality({ti}) = 1  BY FS_Singleton
    <3>3. Cardinality(own) = 1 * queuings[ti]  BY <3>1, <3>2, FS_Product
    <3> QED  BY <1>3, <3>3
  <2> HIDE DEF own
  <2> QED  BY <1>5, <2>1, <2>2, NoMore
<1>7. clock <= Cardinality(Queueings) /\ clock + 1 <= MaxQueueings
  BY <1>1, <1>3, <1>5 DEF IInv, Counted
<1>8. queuings' \in [TI -> 0 .. MaxQueueings]
  <2>1. \A ti \in TI : queuings[ti] + 1 <= MaxQueueings
    BY <1>1, <1>3, <1>5, <1>6
  <2> QED  BY <1>1, <1>3, <2>1
<1>9. /\ queue' = queue \cup sent
      /\ \A e \in sent : /\ e \in Event /\ e.ti \in S /\ e.dttm = clock + 1
                         /\ e.receives = 0 /\ e.copy = FALSE
      /\ \A ti \in S : [ti |-> ti, dttm |-> clock + 1, receives |-> 0, copy |-> FALSE] \in sent
  <2>1. clock + 1 \in 1 .. MaxQueueings /\ 0 \in 0 .. MaxReceives
    BY <1>3, <1>7, ExecutionAssumption
  <2>2. sent \subseteq Event  BY <1>3, <2>1 DEF Event
  <2> QED  BY <1>1, <2>2
<1>10. \A e \in sent : ~Known(e)
  <2>1. \A x \in DOMAIN executions : x[2] <= clock  BY <1>3 DEF IInv, Named
  <2> QED  BY <1>3, <1>9, <2>1 DEF Known, Name
<1> HIDE DEF sent
<1>11. Pending' = Pending \cup sent  BY <1>2, <1>9 DEF Pending, Taken
<1>12. TypeOK'
  <2>1. state' \in [TI -> TaskInstanceState]
    BY <1>1 DEF IInv, TypeOK, TaskInstanceState
  <2>2. clock' \in 0 .. MaxQueueings  BY <1>2, <1>3, <1>7
  <2>3. queue' \subseteq Event  BY <1>9 DEF IInv, TypeOK
  <2> QED  BY <1>2, <1>8, <2>1, <2>2, <2>3 DEF IInv, TypeOK, Names
<1>13. Queues'
  <2>1. \A e \in queue' : e.receives < MaxReceives
    BY <1>9, ExecutionAssumption DEF IInv, Queues
  <2>2. \A e \in Pending' : e.dttm <= clock'
    <3>1. \A e \in Pending : e.dttm \in Nat /\ e.dttm <= clock
      BY PendingEvents DEF IInv, Queues, Event
    <3> QED  BY <1>2, <1>3, <1>9, <1>11, <3>1
  <2> QED  BY <1>2, <2>1, <2>2 DEF IInv, Queues, Todo, Taken, Same, Known, Name
<1>14. Named'
  <2>1. 1 .. clock \subseteq 1 .. clock'  BY <1>2, <1>3
  <2> QED  BY <1>2, <2>1 DEF IInv, Named, Ti
<1>15. Counted'
  <2>1. clock' <= Cardinality(Queueings')
    <3> DEFINE new == <<t, queuings[t] + 1>>
    <3>1. IsFiniteSet(Queueings')  BY <1>8, QueueingsFinite DEF Queueings
    <3>2. new \notin Queueings  BY <1>3, <1>4 DEF Queueings
    <3>3. Queueings \cup {new} \subseteq Queueings'
      <4>1. \A ti \in TI : 1 .. queuings[ti] \subseteq 1 .. queuings'[ti]
        BY <1>1, <1>3
      <4>2. queuings[t] + 1 \in 1 .. queuings'[t]  BY <1>1, <1>3, <1>4
      <4> QED  BY <1>4, <4>1, <4>2 DEF Queueings
    <3> HIDE DEF new
    <3>4. Cardinality(Queueings) + 1 <= Cardinality(Queueings')
      BY <1>5, <3>1, <3>2, <3>3, OneMore
    <3>5. Cardinality(Queueings') \in Nat  BY <3>1, FS_CardinalityType
    <3> QED  BY <1>2, <1>3, <1>5, <1>7, <3>4, <3>5
  <2>2. ASSUME NEW ti \in TI  PROVE Cardinality(NamesOf(ti)') <= queuings'[ti]
    <3> DEFINE new == <<DigestOf[ti], clock + 1>>
    <3>1. IsFiniteSet(NamesOf(ti)) /\ Cardinality(NamesOf(ti)) \in Nat
          /\ Cardinality(NamesOf(ti)) <= queuings[ti]
      BY NamesFinite DEF IInv, Counted
    <3>2. CASE ti \notin S
      <4>1. NamesOf(ti)' = NamesOf(ti)
        BY <1>2, <1>9, <1>11, <3>2 DEF NamesOf, Ti
      <4>2. queuings'[ti] = queuings[ti]  BY <1>1, <3>2
      <4> QED  BY <3>1, <4>1, <4>2
    <3>3. CASE ti \in S
      <4>1. NamesOf(ti)' \in SUBSET (NamesOf(ti) \cup {new})
        BY <1>2, <1>9, <1>11 DEF NamesOf, Ti
      <4> HIDE DEF new
      <4>2. /\ IsFiniteSet(NamesOf(ti) \cup {new})
            /\ Cardinality(NamesOf(ti) \cup {new}) <= Cardinality(NamesOf(ti)) + 1
        BY <3>1, AtMostOneMore
      <4>3. /\ IsFiniteSet(NamesOf(ti)')
            /\ Cardinality(NamesOf(ti)') <= Cardinality(NamesOf(ti) \cup {new})
        BY <4>1, <4>2, FS_Subset
      <4>4. Cardinality(NamesOf(ti)') \in Nat /\ Cardinality(NamesOf(ti) \cup {new}) \in Nat
        BY <4>2, <4>3, FS_CardinalityType
      <4>5. queuings'[ti] = queuings[ti] + 1  BY <1>1, <3>3
      <4> QED  BY <1>3, <3>1, <4>2, <4>3, <4>4, <4>5
    <3> QED  BY <3>2, <3>3
  <2>3. \A ti \in TI : Begun(ti)' = Begun(ti)  BY <1>2 DEF Begun, ExecutionsOf, Ti, At
  <2> QED  BY <1>2, <2>1, <2>2, <2>3 DEF IInv, Counted
<1>16. ASSUME NEW ti \in TI  PROVE Owned(ti)'
  <2>1. CASE ti \in S
    <3>1. PICK e \in sent : e.ti = ti  BY <1>9, <2>1
    <3>2. e \in Pending' /\ ~Same(e)'
      BY <1>2, <1>10, <1>11, <3>1 DEF Same, Known, Name
    <3>3. Awaited(ti)'  BY <3>1, <3>2 DEF Awaited
    <3>4. state'[ti] = "queued"  BY <1>1, <2>1
    <3> QED  BY <3>3, <3>4 DEF Owned
  <2>2. CASE ti \notin S
    <3>1. Owned(ti) /\ state'[ti] = state[ti]  BY <1>1, <2>2 DEF IInv
    <3>2. Awaited(ti) => Awaited(ti)'
      BY <1>2, <1>11 DEF Awaited, Ti, Same, Known, Name
    <3>3. Minded(ti) => Minded(ti)'  BY <1>2 DEF Minded, Ti
    <3> QED  BY <1>2, <3>1, <3>2, <3>3 DEF Owned
  <2> QED  BY <2>1, <2>2
<1> QED  BY <1>12, <1>13, <1>14, <1>15, <1>16 DEF IInv

-----------------------------------------------------------------------------
\* What is skipped occupies no slot any more.
LEMMA TimeOutRunStep ==
  ASSUME IInv, TimeOutRun
  PROVE  IInv'
<1>1. PICK S \in SUBSET TI :
        state' = [ti \in TI |-> IF ti \in S THEN "skipped" ELSE state[ti]]
  BY DEF TimeOutRun
<1>2. UNCHANGED <<queuings, starts, owner, clock, queue, invocation, executions,
                  abandoned, failures>>
  BY DEF TimeOutRun, UnchangedQueue
<1>3. TypeOK'
  <2>1. state' \in [TI -> TaskInstanceState]
    BY <1>1 DEF IInv, TypeOK, TaskInstanceState
  <2> QED  BY <1>2, <2>1 DEF IInv, TypeOK, Names
<1>4. Pending' = Pending  BY <1>2 DEF Pending, Taken
<1>5. Queues'  BY <1>2, <1>4 DEF IInv, Queues, Todo, Taken, Same, Known, Name
<1>6. Named'  BY <1>2 DEF IInv, Named, Ti
<1>7. Counted'
  <2>1. Queueings' = Queueings  BY <1>2 DEF Queueings
  <2>2. \A ti \in TI : NamesOf(ti)' = NamesOf(ti)  BY <1>2, <1>4 DEF NamesOf, Ti
  <2>3. \A ti \in TI : Begun(ti)' = Begun(ti)  BY <1>2 DEF Begun, ExecutionsOf, Ti, At
  <2> QED  BY <1>2, <2>1, <2>2, <2>3 DEF IInv, Counted
<1>8. ASSUME NEW ti \in TI  PROVE Owned(ti)'
  <2>1. Owned(ti)  BY DEF IInv
  <2>2. Awaited(ti)' = Awaited(ti)
    BY <1>2, <1>4 DEF Awaited, Ti, Same, Known, Name
  <2>3. Minded(ti)' = Minded(ti)  BY <1>2 DEF Minded, Ti
  <2>4. state'[ti] = "skipped" \/ state'[ti] = state[ti]  BY <1>1
  <2> QED  BY <1>2, <2>1, <2>2, <2>3, <2>4 DEF Owned
<1> QED  BY <1>3, <1>5, <1>6, <1>7, <1>8 DEF IInv

-----------------------------------------------------------------------------
(* Steps of an execution.                                                  *)

LEMMA ExecutionFacts ==
  ASSUME IInv, NEW x \in DOMAIN executions
  PROVE  /\ executions[x] \in Execution /\ Ti(x) \in TI /\ x \in Names
         /\ state[Ti(x)] \in TaskInstanceState /\ starts[Ti(x)] \in Nat
<1> QED  BY DEF IInv, TypeOK, Execution, Ti

\* A stage of x in which it still does for its task instance what it did.
KeepsPart(x, pc) ==
  /\ (/\ state[Ti(x)] = "queued"
      /\ executions[x].pc \in {"submitted", "caught"}) => pc \in {"submitted", "caught"}
  /\ (/\ state[Ti(x)] = "running" /\ owner[Ti(x)] = x
      /\ executions[x].pc \in {"submitted", "working", "caught"}) =>
       pc \in {"submitted", "working", "caught"}

\* r is x after a step: what x has begun, r has begun too.
Continues(x, r) ==
  \/ executions[x].attempt < r.attempt
  \/ executions[x].attempt = r.attempt /\ (r.pc = "submitted" => At(x, "submitted"))

\* An execution changes its own stage, and what it has to do with a task instance
\* that occupies a slot: it takes it over, makes it leave its state, or keeps its
\* part in what awaits or minds it.
LEMMA ExecutionMoves ==
  ASSUME IInv, NEW x \in DOMAIN executions, NEW r \in Execution, r.ti = Ti(x),
         executions' = [executions EXCEPT ![x] = r],
         UNCHANGED <<queuings, clock, queue, invocation>>,
         state' \in [TI -> TaskInstanceState], starts' \in [TI -> Nat],
         owner' \in [TI -> Names \cup {NoOne}],
         abandoned \subseteq abandoned', abandoned' \subseteq TI,
         failures' \in 0 .. MaxFailures,
         \A t \in TI : t # Ti(x) => /\ state'[t] = state[t] /\ starts'[t] = starts[t]
                                    /\ owner'[t] = owner[t],
         r.attempt <= AttemptsOf(Ti(x)), Continues(x, r),
         \/ starts'[Ti(x)] = starts[Ti(x)]
         \/ /\ starts'[Ti(x)] = starts[Ti(x)] + 1
            /\ At(x, "submitted") /\ r.pc # "submitted"
            /\ r.attempt = executions[x].attempt,
         \/ state'[Ti(x)] \notin {"queued", "running"}
         \/ state'[Ti(x)] = "running" /\ owner'[Ti(x)] = x /\ r.pc = "working"
         \/ Ti(x) \in abandoned'
         \/ /\ state'[Ti(x)] = state[Ti(x)] /\ owner'[Ti(x)] = owner[Ti(x)]
            /\ KeepsPart(x, r.pc)
  PROVE  IInv'
<1>0. PICK c \in TI : c = Ti(x)  BY ExecutionFacts
<1>1. /\ c = executions[x].ti /\ executions'[x] = r /\ DOMAIN executions' = DOMAIN executions
      /\ \A y \in DOMAIN executions : y # x => executions'[y] = executions[y]
      /\ \A y \in DOMAIN executions : executions'[y].ti = executions[y].ti
  BY <1>0, ExecutionFacts DEF Ti
<1>2. TypeOK'  BY <1>1 DEF IInv, TypeOK, Names, Execution
<1>3. \A e : (Same(e)' <=> Same(e))
  BY <1>1 DEF Same, Known, Name
<1>4. Pending' = Pending  BY DEF Pending, Taken
<1>5. Queues'  BY <1>3, <1>4 DEF IInv, Queues, Todo, Taken
<1>6. Named'
  <2>1. \A y \in DOMAIN executions : executions'[y].attempt <= AttemptsOf(executions[y].ti)
    BY <1>1 DEF IInv, Named, Ti
  <2> QED  BY <1>1, <2>1 DEF IInv, Named, Ti, AttemptsOf
<1>7. Counted'
  <2>1. Queueings' = Queueings  BY DEF Queueings
  <2>2. \A ti \in TI : NamesOf(ti)' = NamesOf(ti)  BY <1>1, <1>4 DEF NamesOf, Ti
  <2>3. ASSUME NEW ti \in TI  PROVE starts'[ti] <= Cardinality(Begun(ti)')
    <3>1. /\ starts[ti] <= Cardinality(Begun(ti)) /\ starts[ti] \in Nat
          /\ IsFiniteSet(Begun(ti)) /\ Cardinality(Begun(ti)) \in Nat
      BY NamesFinite DEF IInv, Counted, TypeOK
    <3>2. ExecutionsOf(ti)' = ExecutionsOf(ti)  BY <1>1 DEF ExecutionsOf, Ti
    <3>3. Begun(ti) \subseteq Begun(ti)'
      <4> SUFFICES ASSUME NEW y \in ExecutionsOf(ti), NEW a \in 1 .. AttemptsOf(ti),
                          \/ a < executions[y].attempt
                          \/ a = executions[y].attempt /\ executions[y].pc # "submitted"
                   PROVE  \/ a < executions'[y].attempt
                          \/ /\ a = executions'[y].attempt
                             /\ executions'[y].pc # "submitted"
        BY <3>2 DEF Begun, AttemptsOf, At
      <4>1. y \in DOMAIN executions  BY DEF ExecutionsOf
      <4>2. CASE y # x  BY <1>1, <4>1, <4>2
      <4>3. CASE y = x
        <5>1. executions[x].attempt \in Int /\ r.attempt \in Int /\ a \in Int
          BY ExecutionFacts, ExecutionAssumption DEF Execution
        <5> QED  BY <1>1, <4>3, <5>1 DEF Continues, At
      <4> QED  BY <4>2, <4>3
    <3>4. IsFiniteSet(Begun(ti)') /\ Cardinality(Begun(ti)') \in Nat
      <4> DEFINE all == ExecutionsOf(ti) \X (1 .. AttemptsOf(ti))
      <4>1. Begun(ti)' \in SUBSET all  BY <3>2 DEF Begun, AttemptsOf
      <4>2. IsFiniteSet(all)
        <5>1. IsFiniteSet(ExecutionsOf(ti))
          <6>1. ExecutionsOf(ti) \subseteq NamesOf(ti)  BY DEF ExecutionsOf, NamesOf
          <6> QED  BY <6>1, NamesFinite, FS_Subset DEF IInv
        <5>2. IsFiniteSet(1 .. AttemptsOf(ti))  BY NamesFinite, CountTo DEF IInv
        <5> QED  BY <5>1, <5>2, FS_Product
      <4> HIDE DEF all
      <4> QED  BY <4>1, <4>2, FS_Subset, FS_CardinalityType
    <3>5. CASE starts'[ti] = starts[ti]
      <4>1. Cardinality(Begun(ti)) <= Cardinality(Begun(ti)')
        BY <3>3, <3>4, NoMore
      <4> QED  BY <3>1, <3>4, <3>5, <4>1
    <3>6. CASE /\ ti = c /\ starts'[c] = starts[c] + 1
               /\ At(x, "submitted") /\ r.pc # "submitted"
               /\ r.attempt = executions[x].attempt
      <4> DEFINE new == <<x, r.attempt>>
      <4>1. r.attempt \in 1 .. AttemptsOf(c) /\ x \in ExecutionsOf(c)
        BY <1>0, ExecutionAssumption DEF Execution, ExecutionsOf, AttemptsOf
      <4>2. new \in Begun(c)'
        BY <1>1, <3>2, <3>6, <4>1 DEF Begun, AttemptsOf, At
      <4>3. new \notin Begun(c)  BY <3>6 DEF Begun, At
      <4> HIDE DEF new
      <4>4. Begun(ti) \cup {new} \subseteq Begun(ti)' /\ new \notin Begun(ti)
        BY <3>3, <3>6, <4>2, <4>3
      <4>5. Cardinality(Begun(ti)) + 1 <= Cardinality(Begun(ti)')
        BY <3>1, <3>4, <4>4, OneMore
      <4> QED  BY <3>1, <3>4, <3>6, <4>5
    <3> QED  BY <3>5, <3>6, <1>0
  <2> QED  BY <2>1, <2>2, <2>3 DEF IInv, Counted
<1>8. ASSUME NEW ti \in TI  PROVE Owned(ti)'
  <2>1. Owned(ti)  BY DEF IInv
  <2>2. CASE ti # c
    <3>1. state'[ti] = state[ti] /\ owner'[ti] = owner[ti]  BY <2>2, <1>0
    <3>2. \A y \in DOMAIN executions : Ti(y) = ti => executions'[y] = executions[y]
      BY <1>1, <2>2, <1>0 DEF Ti
    <3>3. Awaited(ti) => Awaited(ti)'
      BY <1>1, <1>3, <1>4, <3>2 DEF Awaited, Ti
    <3>4. Minded(ti) => Minded(ti)'
      BY <1>1, <3>1, <3>2 DEF Minded, Ti
    <3> QED  BY <2>1, <3>1, <3>3, <3>4 DEF Owned
  <2>3. CASE ti = c
    <3>1. CASE state'[c] \notin {"queued", "running"} \/ c \in abandoned'
      BY <2>3, <3>1 DEF Owned
    <3>2. CASE state'[c] = "running" /\ owner'[c] = x /\ r.pc = "working"
      <4>1. Minded(ti)'  BY <1>1, <2>3, <3>2, <1>0 DEF Minded, Ti
      <4> QED  BY <2>3, <3>2, <4>1 DEF Owned
    <3>3. CASE /\ state'[c] = state[c] /\ owner'[c] = owner[c]
               /\ KeepsPart(x, r.pc)
      <4>1. ASSUME state[c] = "queued", Awaited(c)  PROVE Awaited(c)'
        <5>1. executions[x].pc \in {"submitted", "caught"} => r.pc \in {"submitted", "caught"}
          BY <3>3, <4>1, <1>0 DEF KeepsPart
        <5>2. CASE \E e \in Pending : e.ti = c /\ ~Same(e)
          BY <1>3, <1>4, <5>2 DEF Awaited
        <5>3. CASE \E y \in DOMAIN executions :
                     Ti(y) = c /\ executions[y].pc \in {"submitted", "caught"}
          BY <1>1, <5>1, <5>3 DEF Awaited, Ti
        <5> QED  BY <4>1, <5>2, <5>3 DEF Awaited
      <4>2. ASSUME state[c] = "running", Minded(c)  PROVE Minded(c)'
        <5>1. PICK y \in DOMAIN executions :
                /\ y = owner[c] /\ executions[y].ti = c
                /\ executions[y].pc \in {"submitted", "working", "caught"}
          BY <4>2 DEF Minded, Ti
        <5>2. executions'[y].pc \in {"submitted", "working", "caught"}
          <6>1. CASE y # x  BY <1>1, <5>1, <6>1
          <6>2. CASE y = x
            BY <1>1, <3>3, <4>2, <5>1, <6>2, <1>0 DEF KeepsPart
          <6> QED  BY <6>1, <6>2
        <5>3. executions'[y].ti = c /\ y = owner'[c] /\ y \in DOMAIN executions'
          BY <1>1, <3>3, <5>1
        <5> QED  BY <5>2, <5>3 DEF Minded, Ti
      <4> QED  BY <2>1, <2>3, <3>3, <4>1, <4>2 DEF Owned
    <3> QED  BY <3>1, <3>2, <3>3, <1>0
  <2> QED  BY <2>2, <2>3
<1> QED  BY <1>2, <1>5, <1>6, <1>7, <1>8 DEF IInv

LEMMA SameAttempt ==
  ASSUME IInv, NEW x \in DOMAIN executions, NEW r,
         r.attempt = executions[x].attempt, r.pc # "submitted"
  PROVE  r.attempt <= AttemptsOf(Ti(x)) /\ Continues(x, r)
<1> QED  BY DEF IInv, Named, Continues

\* What a step that only moves the execution on leaves alone.
LEMMA Moves ==
  ASSUME IInv, NEW x \in DOMAIN executions, NEW pc,
         pc \in {"submitted", "working", "reported", "caught", "closed"}, Goes(x, pc)
  PROVE  \E r \in Execution : /\ r.ti = Ti(x) /\ r.pc = pc
                              /\ r.attempt = executions[x].attempt
                              /\ executions' = [executions EXCEPT ![x] = r]
<1> DEFINE r == [executions[x] EXCEPT !.pc = pc]
<1>1. executions[x] \in Execution  BY ExecutionFacts
<1>2. r \in Execution /\ r.ti = Ti(x) /\ r.pc = pc /\ r.attempt = executions[x].attempt
  BY <1>1 DEF Execution, Ti
<1>3. executions' = [executions EXCEPT ![x] = r]  BY DEF Goes
<1> HIDE DEF r
<1> QED  BY <1>2, <1>3

\* A step of the execution that leaves its task instance as it is.
LEMMA StageMoves ==
  ASSUME IInv, NEW x \in DOMAIN executions, NEW r \in Execution, r.ti = Ti(x),
         executions' = [executions EXCEPT ![x] = r],
         UNCHANGED <<queue, invocation>>, UnchangedTasks,
         abandoned \subseteq abandoned', abandoned' \subseteq TI,
         failures' \in 0 .. MaxFailures,
         r.attempt <= AttemptsOf(Ti(x)), Continues(x, r),
         \/ state[Ti(x)] \notin {"queued", "running"} \/ Ti(x) \in abandoned'
         \/ KeepsPart(x, r.pc)
  PROVE  IInv'
<1>1. UNCHANGED <<state, queuings, starts, owner, clock, queue, invocation>>
  BY DEF UnchangedTasks
<1>2. /\ state' \in [TI -> TaskInstanceState] /\ starts' \in [TI -> Nat]
      /\ owner' \in [TI -> Names \cup {NoOne}]
  BY <1>1 DEF IInv, TypeOK
<1> QED  BY <1>1, <1>2, ExecutionMoves

\* A step that takes the task instance out of the states that occupy a slot.
LEMMA SetMoves ==
  ASSUME IInv, NEW x \in DOMAIN executions, NEW s, NEW pc,
         s \in TaskInstanceState, s \notin {"queued", "running"},
         pc \in {"reported", "closed"}, Sets(x, s), Goes(x, pc),
         UNCHANGED <<queuings, starts, owner, abandoned, failures>>, UnchangedQueue
  PROVE  IInv'
<1>1. PICK r \in Execution : /\ r.ti = Ti(x) /\ r.pc = pc
                             /\ r.attempt = executions[x].attempt
                             /\ executions' = [executions EXCEPT ![x] = r]
  BY Moves
<1>2. UNCHANGED <<queuings, clock, queue, invocation>>  BY DEF UnchangedQueue
<1>3. /\ state' \in [TI -> TaskInstanceState] /\ starts' \in [TI -> Nat]
      /\ owner' \in [TI -> Names \cup {NoOne}]
      /\ abandoned \subseteq abandoned' /\ abandoned' \subseteq TI
      /\ failures' \in 0 .. MaxFailures
  BY DEF IInv, TypeOK, Sets
<1>4. /\ state'[Ti(x)] = s /\ starts'[Ti(x)] = starts[Ti(x)]
      /\ \A t \in TI : t # Ti(x) => /\ state'[t] = state[t] /\ starts'[t] = starts[t]
                                    /\ owner'[t] = owner[t]
  BY ExecutionFacts DEF IInv, TypeOK, Sets
<1> QED  BY <1>1, <1>2, <1>3, <1>4, SameAttempt, ExecutionMoves

LEMMA WorkerStartsStep ==
  ASSUME IInv, NEW x \in DOMAIN executions, WorkerStarts(x)
  PROVE  IInv'
<1>1. PICK r \in Execution : /\ r.ti = Ti(x) /\ r.pc = "working"
                             /\ r.attempt = executions[x].attempt
                             /\ executions' = [executions EXCEPT ![x] = r]
  <2>1. Goes(x, "working")  BY DEF WorkerStarts
  <2> QED  BY <2>1, Moves
<1>2. UNCHANGED <<queuings, clock, queue, invocation, abandoned, failures>>
  BY DEF UnchangedQueue, WorkerStarts
<1>3. /\ state' \in [TI -> TaskInstanceState] /\ starts' \in [TI -> Nat]
      /\ owner' \in [TI -> Names \cup {NoOne}]
  BY ExecutionFacts DEF IInv, TypeOK, Sets, WorkerStarts, TaskInstanceState
<1>4. /\ abandoned \subseteq abandoned' /\ abandoned' \subseteq TI
      /\ failures' \in 0 .. MaxFailures
  BY <1>2 DEF IInv, TypeOK
<1>5. /\ state'[Ti(x)] = "running" /\ starts'[Ti(x)] = starts[Ti(x)] + 1
      /\ owner'[Ti(x)] = x /\ At(x, "submitted")
      /\ \A t \in TI : t # Ti(x) => /\ state'[t] = state[t] /\ starts'[t] = starts[t]
                                    /\ owner'[t] = owner[t]
  BY ExecutionFacts DEF IInv, TypeOK, Sets, WorkerStarts
<1> QED  BY <1>1, <1>2, <1>3, <1>4, <1>5, SameAttempt, ExecutionMoves

\* The steps of an execution that are no failures.
LEMMA ExecutionStepKeeps ==
  ASSUME IInv, NEW x \in DOMAIN executions, ExecutionStep(x)
  PROVE  IInv'
<1>1. CASE WorkerStarts(x)  BY <1>1, WorkerStartsStep
<1>2. CASE WorkerPutsBack(x)
  <2>1. "none" \in TaskInstanceState  BY DEF TaskInstanceState
  <2> QED  BY <1>2, <2>1, SetMoves DEF WorkerPutsBack
<1>3. CASE WorkerReports(x)
  <2>1. PICK end \in {"success", "failed", "up_for_retry"} : Sets(x, end)
    BY <1>3 DEF WorkerReports
  <2>2. end \in TaskInstanceState /\ end \notin {"queued", "running"}
    BY DEF TaskInstanceState
  <2> QED  BY <1>3, <2>1, <2>2, SetMoves DEF WorkerReports
<1>4. CASE Catch(x)
  <2>1. "failed" \in TaskInstanceState  BY DEF TaskInstanceState
  <2> QED  BY <1>4, <2>1, SetMoves DEF Catch
<1>5. CASE WorkerDeclines(x) \/ WorkerStops(x) \/ WorkerReturns(x)
  <2>1. Goes(x, "closed") /\ UNCHANGED <<queue, invocation, failures>> /\ UnchangedTasks
    BY <1>5 DEF WorkerDeclines, WorkerStops, WorkerReturns
  <2>2. PICK r \in Execution : /\ r.ti = Ti(x) /\ r.pc = "closed"
                               /\ r.attempt = executions[x].attempt
                               /\ executions' = [executions EXCEPT ![x] = r]
    BY <2>1, Moves
  <2>3. /\ abandoned \subseteq abandoned' /\ abandoned' \subseteq TI
        /\ failures' \in 0 .. MaxFailures
    BY <1>5, ExecutionFacts
       DEF WorkerDeclines, WorkerStops, WorkerReturns, IInv, TypeOK
  <2>4. \/ state[Ti(x)] \notin {"queued", "running"} \/ Ti(x) \in abandoned'
        \/ KeepsPart(x, r.pc)
    <3>1. CASE WorkerDeclines(x)
      <4>1. state[Ti(x)] # "queued"  BY <3>1 DEF WorkerDeclines, Runnable, RUNNABLE_STATES
      <4> QED  BY <3>1, <4>1 DEF WorkerDeclines, KeepsPart
    <3>2. CASE WorkerStops(x)  BY <3>2 DEF WorkerStops, KeepsPart, At
    <3>3. CASE WorkerReturns(x)  BY <3>3 DEF WorkerReturns, KeepsPart, At
    <3> QED  BY <1>5, <3>1, <3>2, <3>3
  <2>5. r.attempt <= AttemptsOf(Ti(x)) /\ Continues(x, r)  BY <2>2, SameAttempt
  <2> QED  BY <2>1, <2>2, <2>3, <2>4, <2>5, StageMoves
<1> QED  BY <1>1, <1>2, <1>3, <1>4, <1>5 DEF ExecutionStep

LEMMA OneFailure ==
  ASSUME IInv, Failure
  PROVE  failures' \in 0 .. MaxFailures /\ failures' # 0
<1> QED  BY ExecutionAssumption DEF IInv, TypeOK, Failure

LEMMA ExecutionFailureKeeps ==
  ASSUME IInv, NEW x \in DOMAIN executions, ExecutionFailure(x)
  PROVE  IInv'
<1>1. failures' \in 0 .. MaxFailures
  BY OneFailure DEF ExecutionFailure, WorkerDies, CatchWithoutDag, CatcherFails
<1>2. UNCHANGED <<queue, invocation>> /\ UnchangedTasks
  BY DEF ExecutionFailure, WorkerDies, CatchWithoutDag, CatcherFails
<1>3. executions[x] \in Execution /\ abandoned \subseteq TI /\ Ti(x) \in TI
  BY ExecutionFacts DEF IInv, TypeOK
<1>4. CASE Caught(x) /\ abandoned' = abandoned
  <2>1. PICK r \in Execution : /\ r.ti = Ti(x) /\ r.pc = "caught"
                               /\ r.attempt = executions[x].attempt
                               /\ executions' = [executions EXCEPT ![x] = r]
    BY <1>4, Moves DEF Caught
  <2>2. KeepsPart(x, r.pc)  BY <2>1 DEF KeepsPart
  <2>3. r.attempt <= AttemptsOf(Ti(x)) /\ Continues(x, r)  BY <2>1, SameAttempt
  <2> QED  BY <1>1, <1>2, <1>3, <1>4, <2>1, <2>2, <2>3, StageMoves
<1>5. CASE /\ executions[x].attempt < AttemptsOf(Ti(x))
           /\ executions' = [executions EXCEPT ![x].pc = "submitted", ![x].attempt = @ + 1]
           /\ abandoned' = abandoned
  <2> DEFINE r == [executions[x] EXCEPT !.pc = "submitted", !.attempt = @ + 1]
  <2>1. /\ executions[x].attempt \in Nat /\ executions[x].attempt + 1 \in 1 .. BatchAttempts
        /\ executions[x].attempt + 1 <= AttemptsOf(Ti(x))
    BY <1>3, <1>5, ExecutionAssumption DEF Execution, AttemptsOf
  <2>2. /\ r \in Execution /\ r.ti = Ti(x) /\ r.pc = "submitted"
        /\ r.attempt = executions[x].attempt + 1
    BY <1>3, <2>1 DEF Execution, Ti
  <2>3. executions' = [executions EXCEPT ![x] = r]  BY <1>5
  <2> HIDE DEF r
  <2>4. KeepsPart(x, r.pc)  BY <2>2 DEF KeepsPart
  <2>5. r.attempt <= AttemptsOf(Ti(x)) /\ Continues(x, r)  BY <2>1, <2>2 DEF Continues
  <2> QED  BY <1>1, <1>2, <1>3, <1>5, <2>2, <2>3, <2>4, <2>5, StageMoves
<1>6. CASE Goes(x, "closed") /\ Leaves(x)
  <2>1. PICK r \in Execution : /\ r.ti = Ti(x) /\ r.pc = "closed"
                               /\ r.attempt = executions[x].attempt
                               /\ executions' = [executions EXCEPT ![x] = r]
    BY <1>6, Moves
  <2>2. /\ abandoned \subseteq abandoned' /\ abandoned' \subseteq TI
        /\ state[Ti(x)] \notin {"queued", "running"} \/ Ti(x) \in abandoned'
    BY <1>3, <1>6 DEF Leaves, EXECUTION_STATES
  <2>3. r.attempt <= AttemptsOf(Ti(x)) /\ Continues(x, r)  BY <2>1, SameAttempt
  <2> QED  BY <1>1, <1>2, <2>1, <2>2, <2>3, StageMoves
<1>7. CASE /\ executions[x].retries < Retries(x) /\ At(x, "caught")
           /\ executions' = [executions EXCEPT ![x].retries = @ + 1]
           /\ abandoned' = abandoned
  <2> DEFINE r == [executions[x] EXCEPT !.retries = @ + 1]
  <2>1. executions[x].retries + 1 \in 0 .. CatcherRetries
    BY <1>3, <1>7, ExecutionAssumption DEF Execution, Retries
  <2>2. /\ r \in Execution /\ r.ti = Ti(x) /\ r.pc = executions[x].pc
        /\ r.attempt = executions[x].attempt
    BY <1>3, <2>1 DEF Execution, Ti
  <2>3. executions' = [executions EXCEPT ![x] = r]  BY <1>7
  <2> HIDE DEF r
  <2>4. KeepsPart(x, r.pc) /\ r.pc # "submitted"
    BY <1>7, <2>2 DEF KeepsPart, At
  <2>5. r.attempt <= AttemptsOf(Ti(x)) /\ Continues(x, r)
    BY <2>2, <2>4, SameAttempt
  <2> QED  BY <1>1, <1>2, <1>3, <1>7, <2>2, <2>3, <2>4, <2>5, StageMoves
<1> QED
  BY <1>4, <1>5, <1>6, <1>7
     DEF ExecutionFailure, WorkerDies, CatchWithoutDag, CatcherFails

-----------------------------------------------------------------------------
LEMMA NextIInv == IInv /\ [Next]_vars => IInv'
<1> SUFFICES ASSUME IInv, [Next]_vars  PROVE IInv'  OBVIOUS
<1>1. CASE UNCHANGED vars
  <2> USE <1>1 DEF vars
  <2>1. TypeOK'  BY DEF IInv, TypeOK, Names
  <2>2. Pending' = Pending  BY DEF Pending, Taken
  <2>3. Queues'  BY <2>2 DEF IInv, Queues, Todo, Taken, Same, Known, Name
  <2>4. Named'  BY DEF IInv, Named, Ti
  <2>5. Counted'
    <3>1. Queueings' = Queueings  BY DEF Queueings
    <3>2. \A ti \in TI : NamesOf(ti)' = NamesOf(ti)  BY <2>2 DEF NamesOf, Ti
    <3>3. \A ti \in TI : Begun(ti)' = Begun(ti)  BY DEF Begun, ExecutionsOf, Ti, At
    <3> QED  BY <3>1, <3>2, <3>3 DEF IInv, Counted
  <2>6. ASSUME NEW ti \in TI  PROVE Owned(ti)'
    <3>1. Awaited(ti)' = Awaited(ti)
      BY <2>2 DEF Awaited, Ti, Same, Known, Name
    <3>2. Minded(ti)' = Minded(ti)  BY DEF Minded, Ti
    <3> QED  BY <3>1, <3>2 DEF IInv, Owned
  <2> QED  BY <2>1, <2>3, <2>4, <2>5, <2>6 DEF IInv
<1>2. CASE QueueTis \/ TimeOutRun  BY <1>2, QueueTisStep, TimeOutRunStep
<1>3. CASE Duplicate  BY <1>3, DuplicateStep
<1>4. ASSUME NEW v \in Invocation, ExecutorStep(v) \/ FailBatch(v)  PROVE IInv'
  BY <1>4, TakeBatchStep, StartExecutionStep, EndBatchStep, FailedBatchStep
     DEF ExecutorStep
<1>5. ASSUME NEW x \in DOMAIN executions, ExecutionStep(x) \/ ExecutionFailure(x)
      PROVE  IInv'
  BY <1>5, ExecutionStepKeeps, ExecutionFailureKeeps
<1> QED  BY <1>1, <1>2, <1>3, <1>4, <1>5 DEF Next

LEMMA Invariance == Spec => []IInv
<1> QED  BY InitIInv, NextIInv, PTL DEF Spec

\* Every variable keeps its type, and every execution has the name of a queueing.
THEOREM TypeCorrect == Spec => []TypeOK
<1>1. IInv => TypeOK  BY DEF IInv
<1> QED  BY <1>1, Invariance, PTL

LEMMA Multiply ==
  ASSUME NEW i \in Nat, NEW j \in Nat, NEW k \in Nat, i <= j
  PROVE  i * k <= j * k
<1> QED  OBVIOUS

\* A worker starts a task instance at most as often as it was queued, or as often as
\* that allows the attempts of a Batch job.
OneStartPerAttempt == \A ti \in TI : starts[ti] <= queuings[ti] * AttemptsOf(ti)

LEMMA StartsCounted == IInv => OneStartPerAttempt
<1> SUFFICES ASSUME IInv, NEW ti \in TI
             PROVE  starts[ti] <= queuings[ti] * AttemptsOf(ti)
  BY DEF OneStartPerAttempt
<1> DEFINE most == NamesOf(ti) \X (1 .. AttemptsOf(ti))
           names == Cardinality(NamesOf(ti))
<1>1. /\ names \in Nat /\ AttemptsOf(ti) \in Nat
      /\ IsFiniteSet(most) /\ Cardinality(most) = names * AttemptsOf(ti)
      /\ Begun(ti) \in SUBSET most /\ Cardinality(Begun(ti)) \in Nat
  BY NamesFinite DEF IInv
<1> HIDE DEF most
<1>2. Cardinality(Begun(ti)) <= Cardinality(most)  BY <1>1, NoMore
<1>3. /\ starts[ti] <= Cardinality(Begun(ti)) /\ starts[ti] \in Nat
      /\ names <= queuings[ti] /\ queuings[ti] \in Nat
  BY DEF IInv, Counted, TypeOK
<1> HIDE DEF names
<1>4. names * AttemptsOf(ti) <= queuings[ti] * AttemptsOf(ti)
  BY <1>1, <1>3, Multiply
<1>5. names * AttemptsOf(ti) \in Nat /\ queuings[ti] * AttemptsOf(ti) \in Nat
  BY <1>1, <1>3
<1> QED  BY <1>1, <1>2, <1>3, <1>4, <1>5

\* However often the event of a queueing is delivered, a task instance is started at
\* most as often as it was queued, once for each attempt of a Batch job.
THEOREM OneStart == Spec => []OneStartPerAttempt
<1> QED  BY StartsCounted, Invariance, PTL

\* A task instance that occupies a slot has an event or an execution that will
\* release it, or is one of those known to be abandoned.
THEOREM SlotOwned == Spec => []SlotHasOwner
<1>1. ASSUME IInv, NEW ti \in TI, state[ti] \in EXECUTION_STATES, ti \notin abandoned
      PROVE  Backed(ti)
  <2>1. Awaited(ti) \/ Minded(ti)
    BY <1>1 DEF IInv, Owned, EXECUTION_STATES
  <2>2. CASE \E e \in Pending : e.ti = ti
    BY <2>2 DEF Pending, Taken, Backed
  <2>3. CASE \E x \in DOMAIN executions :
               Ti(x) = ti /\ executions[x].pc \in {"submitted", "working", "caught"}
    BY <2>3 DEF Backed, At
  <2> QED  BY <2>1, <2>2, <2>3 DEF Awaited, Minded
<1>2. IInv => SlotHasOwner  BY <1>1 DEF SlotHasOwner
<1> QED  BY <1>2, Invariance, PTL

-----------------------------------------------------------------------------
(* One worker at a time.                                                   *)

\* A task instance in one of these states is neither queued nor started.
Closed == {"failed", "skipped"}

\* A worker at work owns its task instance, or it is closed by others behind its
\* back; and no two workers are at work on one.
Exclusive ==
  /\ \A x \in DOMAIN executions : At(x, "working") =>
       \/ state[Ti(x)] = "running" /\ owner[Ti(x)] = x
       \/ state[Ti(x)] \in Closed
  /\ \A x, y \in DOMAIN executions :
       At(x, "working") /\ At(y, "working") /\ Ti(x) = Ti(y) => x = y

\* Where a worker may start, or the scheduler queue, no worker is at work.
LEMMA StartableIsIdle ==
  ASSUME Exclusive, NEW ti, state[ti] \in RUNNABLE_STATES
  PROVE  Working(ti) = {}
<1>1. SCHEDULEABLE_STATES \subseteq RUNNABLE_STATES
      /\ "running" \notin RUNNABLE_STATES /\ Closed \cap RUNNABLE_STATES = {}
  BY DEF RUNNABLE_STATES, SCHEDULEABLE_STATES, Closed
<1> QED  BY <1>1 DEF Exclusive, Working

\* Nothing but events is moved, or an execution is new.
LEMMA EventsExclusive ==
  ASSUME IInv, Exclusive, UNCHANGED <<state, owner>>,
         DOMAIN executions \subseteq DOMAIN executions',
         \A x \in DOMAIN executions : executions'[x] = executions[x],
         \A x \in DOMAIN executions' \ DOMAIN executions : executions'[x].pc = "submitted"
  PROVE  Exclusive' /\ \A ti : Working(ti)' = Working(ti)
<1>1. \A x \in DOMAIN executions' : executions'[x].pc = "working" =>
        x \in DOMAIN executions /\ executions'[x] = executions[x]
  OBVIOUS
<1> QED  BY <1>1 DEF Exclusive, Working, Ti, At

\* An execution moves on: it starts where nobody works, or it is at work no more and
\* what it does to the task instance another worker could bear.
LEMMA MoveExclusive ==
  ASSUME IInv, Exclusive, NEW x \in DOMAIN executions, NEW r, r.ti = Ti(x),
         executions' = [executions EXCEPT ![x] = r],
         \A ti \in TI : ti # Ti(x) => state'[ti] = state[ti] /\ owner'[ti] = owner[ti],
         \/ /\ r.pc = "working" /\ Working(Ti(x)) = {}
            /\ state'[Ti(x)] = "running" /\ owner'[Ti(x)] = x
         \/ /\ r.pc # "working"
            /\ \/ state'[Ti(x)] = state[Ti(x)] /\ owner'[Ti(x)] = owner[Ti(x)]
               \/ state'[Ti(x)] \in Closed
               \/ Working(Ti(x)) \subseteq {x}
  PROVE  Exclusive'
<1>0. PICK c \in TI : c = Ti(x)  BY ExecutionFacts
<1>1. /\ executions'[x] = r /\ DOMAIN executions' = DOMAIN executions
      /\ \A y \in DOMAIN executions : y # x => executions'[y] = executions[y]
      /\ \A y \in DOMAIN executions : executions'[y].ti = Ti(y) /\ Ti(y) \in TI
      /\ Ti(x) = c /\ r.ti = c
  BY <1>0, ExecutionFacts DEF Ti
<1>2. ASSUME NEW y \in DOMAIN executions, executions'[y].pc = "working"
      PROVE  \/ state'[Ti(y)] = "running" /\ owner'[Ti(y)] = y
             \/ state'[Ti(y)] \in Closed
  <2>1. CASE y = x  BY <1>0, <1>1, <1>2, <2>1
  <2>2. CASE y # x
    <3>1. At(y, "working")  BY <1>1, <1>2, <2>2 DEF At
    <3>2. y \in Working(Ti(y))  BY <3>1 DEF Working
    <3>3. \/ state[Ti(y)] = "running" /\ owner[Ti(y)] = y
          \/ state[Ti(y)] \in Closed
      BY <3>1 DEF Exclusive
    <3>4. CASE Ti(y) # c  BY <1>0, <1>1, <3>3, <3>4
    <3>5. CASE Ti(y) = c
      <4>1. Working(c) # {} /\ ~(Working(c) \subseteq {x})  BY <2>2, <3>2, <3>5
      <4> QED  BY <1>0, <3>3, <3>5, <4>1
    <3> QED  BY <3>4, <3>5
  <2> QED  BY <2>1, <2>2
<1>3. ASSUME NEW y \in DOMAIN executions, NEW z \in DOMAIN executions,
             executions'[y].pc = "working", executions'[z].pc = "working", Ti(y) = Ti(z)
      PROVE  y = z
  <2>1. CASE y # x /\ z # x  BY <1>1, <1>3, <2>1 DEF Exclusive, At
  <2>2. CASE y = x /\ z # x
    <3>1. z \in Working(c)  BY <1>1, <1>3, <2>2 DEF Working, At
    <3> QED  BY <1>0, <1>1, <1>3, <2>2, <3>1
  <2>3. CASE y # x /\ z = x
    <3>1. y \in Working(c)  BY <1>1, <1>3, <2>3 DEF Working, At
    <3> QED  BY <1>0, <1>1, <1>3, <2>3, <3>1
  <2> QED  BY <2>1, <2>2, <2>3
<1>4. \A y \in DOMAIN executions' :
        (At(y, "working")' <=> executions'[y].pc = "working") /\ Ti(y)' = Ti(y)
  BY <1>1 DEF At, Ti
<1> QED  BY <1>1, <1>2, <1>3, <1>4 DEF Exclusive

\* What an execution does, as an event of the task instance's runs: its worker
\* starts, or is at work no more, or nothing.
LEMMA ExecutionExclusive ==
  ASSUME IInv, Exclusive, NEW x \in DOMAIN executions, NEW c \in TI, c = Ti(x),
         ExecutionStep(x) \/ ExecutionFailure(x)
  PROVE  /\ Exclusive'
         /\ \A ti \in TI : ti # c => Working(ti)' = Working(ti)
         /\ \/ /\ Working(c) = {} /\ Working(c)' = {x}
               /\ starts' = [starts EXCEPT ![c] = @ + 1]
            \/ Working(c)' = {} /\ starts' = starts
            \/ Working(c)' = Working(c) /\ starts' = starts
         /\ queuings' = queuings
<1>0. c = Ti(x)  OBVIOUS
<1>1. executions[x] \in Execution /\ x \in Names  BY ExecutionFacts
<1>2. At(x, "working") => Working(Ti(x)) \subseteq {x}  BY DEF Exclusive, Working
<1>3. CASE WorkerStarts(x)
  <2>1. PICK r \in Execution : /\ r.ti = Ti(x) /\ r.pc = "working"
                               /\ executions' = [executions EXCEPT ![x] = r]
    <3>1. Goes(x, "working")  BY <1>3 DEF WorkerStarts
    <3> QED  BY <3>1, Moves
  <2>2. /\ state' = [state EXCEPT ![Ti(x)] = "running"]
        /\ owner' = [owner EXCEPT ![Ti(x)] = x] /\ queuings' = queuings
        /\ starts' = [starts EXCEPT ![Ti(x)] = @ + 1]
        /\ state[Ti(x)] \in RUNNABLE_STATES
    BY <1>3 DEF WorkerStarts, Runnable, Sets
  <2>3. Working(Ti(x)) = {}  BY <2>2, StartableIsIdle
  <2>4. /\ state'[c] = "running" /\ owner'[c] = x
        /\ \A ti \in TI : ti # c => state'[ti] = state[ti] /\ owner'[ti] = owner[ti]
    BY <1>0, <2>2 DEF IInv, TypeOK
  <2>5. Exclusive'  BY <1>0, <2>1, <2>3, <2>4, MoveExclusive
  <2>6. \A ti : Working(ti)' = IF ti = c THEN {x} ELSE Working(ti)
    <3>1. /\ executions'[x] = r /\ DOMAIN executions' = DOMAIN executions
          /\ \A y \in DOMAIN executions : y # x => executions'[y] = executions[y]
      BY <2>1
    <3> QED  BY <1>0, <2>1, <2>3, <3>1 DEF Working, Ti, At
  <2> QED  BY <1>0, <2>2, <2>3, <2>5, <2>6
<1>4. CASE ~WorkerStarts(x)
  <2>1. \E r : /\ r.ti = Ti(x) /\ r.pc # "working"
               /\ executions' = [executions EXCEPT ![x] = r]
    <3>1. ASSUME NEW pc, pc # "working",
                 pc \in {"submitted", "working", "reported", "caught", "closed"}, Goes(x, pc)
          PROVE  \E r : /\ r.ti = Ti(x) /\ r.pc # "working"
                        /\ executions' = [executions EXCEPT ![x] = r]
      BY <3>1, Moves
    <3>2. CASE \/ WorkerPutsBack(x) \/ WorkerDeclines(x) \/ WorkerReports(x)
               \/ WorkerStops(x) \/ WorkerReturns(x) \/ Catch(x)
               \/ CatchWithoutDag(x)
      <4>1. Goes(x, "closed") \/ Goes(x, "reported")
        BY <3>2 DEF WorkerPutsBack, WorkerDeclines, WorkerReports, WorkerStops,
                    WorkerReturns, Catch, CatchWithoutDag
      <4> QED  BY <3>1, <4>1
    <3>3. CASE WorkerDies(x)
      <4>1. CASE Goes(x, "caught")  BY <3>1, <4>1
      <4>2. CASE executions' =
                   [executions EXCEPT ![x].pc = "submitted", ![x].attempt = @ + 1]
        <5> DEFINE r == [executions[x] EXCEPT !.pc = "submitted", !.attempt = @ + 1]
        <5>1. r.ti = Ti(x) /\ r.pc # "working"  BY <1>1 DEF Execution, Ti
        <5>2. executions' = [executions EXCEPT ![x] = r]  BY <4>2
        <5> QED  BY <5>1, <5>2
      <4> QED  BY <3>3, <4>1, <4>2 DEF WorkerDies, Caught
    <3>4. CASE CatcherFails(x)
      <4>1. CASE Goes(x, "closed")  BY <3>1, <4>1
      <4>2. CASE /\ executions[x].pc = "caught"
                 /\ executions' = [executions EXCEPT ![x].retries = @ + 1]
        <5> DEFINE r == [executions[x] EXCEPT !.retries = @ + 1]
        <5>1. r.ti = Ti(x) /\ r.pc # "working"  BY <1>1, <4>2 DEF Execution, Ti
        <5>2. executions' = [executions EXCEPT ![x] = r]  BY <4>2
        <5> QED  BY <5>1, <5>2
      <4> QED  BY <3>4, <4>1, <4>2 DEF CatcherFails, At
    <3> QED  BY <1>4, <3>2, <3>3, <3>4 DEF ExecutionStep, ExecutionFailure
  <2>2. PICK r : /\ r.ti = Ti(x) /\ r.pc # "working"
                 /\ executions' = [executions EXCEPT ![x] = r]
    BY <2>1
  <2>3. /\ owner' = owner /\ queuings' = queuings /\ starts' = starts
        /\ \/ state' = state
           \/ Sets(x, "failed")
           \/ (\E s : Sets(x, s)) /\ Working(Ti(x)) \subseteq {x}
    <3>1. CASE WorkerPutsBack(x)
      BY <3>1, StartableIsIdle DEF WorkerPutsBack, Runnable
    <3>2. CASE WorkerReports(x)  BY <1>2, <3>2 DEF WorkerReports
    <3>3. CASE Catch(x)  BY <3>3 DEF Catch
    <3>4. CASE \/ WorkerDeclines(x) \/ WorkerStops(x) \/ WorkerReturns(x)
               \/ ExecutionFailure(x)
      BY <3>4 DEF WorkerDeclines, WorkerStops, WorkerReturns, ExecutionFailure, WorkerDies,
                  CatchWithoutDag, CatcherFails, UnchangedTasks
    <3> QED  BY <1>4, <3>1, <3>2, <3>3, <3>4 DEF ExecutionStep
  <2>4. /\ \A ti \in TI : ti # c => state'[ti] = state[ti] /\ owner'[ti] = owner[ti]
        /\ owner'[c] = owner[c]
        /\ \/ state'[c] = state[c] \/ state'[c] \in Closed
           \/ Working(c) \subseteq {x}
    BY <1>0, <2>3 DEF Sets, IInv, TypeOK, Closed
  <2>5. Exclusive'  BY <1>0, <2>2, <2>4, MoveExclusive
  <2>6. \A ti : Working(ti)' = Working(ti) \ {x}
    <3>1. /\ executions'[x] = r /\ DOMAIN executions' = DOMAIN executions
          /\ \A y \in DOMAIN executions : y # x => executions'[y] = executions[y]
      BY <2>2
    <3> QED  BY <2>2, <3>1 DEF Working, Ti, At
  <2>7. \A ti : ti # c => x \notin Working(ti)  BY <1>0 DEF Working
  <2>8. Working(c)' = {} \/ Working(c)' = Working(c)
    <3>1. CASE x \in Working(c)
      <4>1. Working(c) \subseteq {x}  BY <1>0, <1>2, <3>1 DEF Working
      <4> QED  BY <2>6, <4>1
    <3>2. CASE x \notin Working(c)  BY <2>6, <3>2
    <3> QED  BY <3>1, <3>2
  <2> QED  BY <1>0, <2>3, <2>5, <2>6, <2>7, <2>8
<1> QED  BY <1>3, <1>4

\* Steps of the scheduler, the queue and the executors: the scheduler queues or
\* skips, and nobody's worker comes or goes.
LEMMA OtherExclusive ==
  ASSUME IInv, Exclusive,
         \/ QueueTis \/ TimeOutRun \/ Duplicate
         \/ \E v \in Invocation : ExecutorStep(v) \/ FailBatch(v)
  PROVE  /\ Exclusive' /\ \A ti : Working(ti)' = Working(ti)
         /\ starts' = starts
         /\ \/ queuings' = queuings
            \/ \E S \in SUBSET {ti \in TI : Working(ti) = {}} :
                 queuings' = [ti \in TI |-> IF ti \in S THEN queuings[ti] + 1
                                            ELSE queuings[ti]]
<1>1. CASE QueueTis
  <2>1. PICK S \in SUBSET {ti \in TI : state[ti] \in SCHEDULEABLE_STATES} :
          /\ state' = [ti \in TI |-> IF ti \in S THEN "queued" ELSE state[ti]]
          /\ queuings' = [ti \in TI |-> IF ti \in S THEN queuings[ti] + 1
                                        ELSE queuings[ti]]
    BY <1>1 DEF QueueTis
  <2>2. UNCHANGED <<starts, owner, executions>>  BY <1>1 DEF QueueTis
  <2>3. \A ti \in S : ti \in TI /\ Working(ti) = {}
    <3>1. SCHEDULEABLE_STATES \subseteq RUNNABLE_STATES  BY DEF RUNNABLE_STATES
    <3> QED  BY <2>1, <3>1, StartableIsIdle
  <2>4. \A x \in DOMAIN executions : At(x, "working") =>
          state'[Ti(x)] = state[Ti(x)] /\ owner'[Ti(x)] = owner[Ti(x)]
    <3>1. \A x \in DOMAIN executions : At(x, "working") => Ti(x) \notin S
      BY <2>3 DEF Working
    <3>2. \A x \in DOMAIN executions : Ti(x) \in TI  BY ExecutionFacts
    <3> QED  BY <2>1, <2>2, <3>1, <3>2
  <2>5. Exclusive'  BY <2>2, <2>4 DEF Exclusive, Ti, At
  <2> QED  BY <2>1, <2>2, <2>3, <2>5 DEF Working, Ti, At
<1>2. CASE TimeOutRun
  <2>1. /\ UNCHANGED <<queuings, starts, owner, executions>>
        /\ \A ti \in TI : state'[ti] = state[ti] \/ state'[ti] = "skipped"
    BY <1>2 DEF TimeOutRun
  <2>2. \A x \in DOMAIN executions : Ti(x) \in TI  BY ExecutionFacts
  <2>3. Exclusive'  BY <2>1, <2>2 DEF Exclusive, Ti, At, Closed
  <2> QED  BY <2>1, <2>3 DEF Working, Ti, At
<1>3. CASE Duplicate \/ \E v \in Invocation : ExecutorStep(v) \/ FailBatch(v)
  <2>1. UnchangedTasks
    BY <1>3 DEF Duplicate, ExecutorStep, TakeBatch, StartExecution, EndBatch, RefuseName,
                FailBatch
  <2>2. /\ DOMAIN executions \subseteq DOMAIN executions'
        /\ \A x \in DOMAIN executions : executions'[x] = executions[x]
        /\ \A x \in DOMAIN executions' \ DOMAIN executions :
             executions'[x].pc = "submitted"
    <3>1. CASE UNCHANGED executions  BY <3>1
    <3>2. CASE \E v \in Invocation : StartExecution(v)
      BY <3>2 DEF StartExecution, Known, NewExecution
    <3> QED
      BY <1>3, <3>1, <3>2
         DEF Duplicate, ExecutorStep, TakeBatch, EndBatch, RefuseName, FailBatch
  <2> QED  BY <2>1, <2>2, EventsExclusive DEF UnchangedTasks
<1> QED  BY <1>1, <1>2, <1>3

LEMMA NextExclusive ==
  ASSUME IInv, Exclusive, [Next]_vars
  PROVE  Exclusive'
<1>1. CASE UNCHANGED vars  BY <1>1 DEF vars, Exclusive, Ti, At
<1>2. ASSUME NEW x \in DOMAIN executions, ExecutionStep(x) \/ ExecutionFailure(x)
      PROVE  Exclusive'
  <2>1. Ti(x) \in TI  BY ExecutionFacts
  <2> QED  BY <1>2, <2>1, ExecutionExclusive
<1> QED  BY <1>1, <1>2, OtherExclusive DEF Next

\* The executors, the state machines and the workers implement TaskRuns: whatever is
\* delivered twice, dies, is tried again, failed by a catcher or skipped by the
\* scheduler, no two workers are at work on one task instance, none starts beyond the
\* queueings, and none is queued under a worker.
THEOREM OneRunAtATime == Spec => RunsOneAtATime
<1> DEFINE work == [ti \in TI |-> Working(ti)]
<1>1. Init => Exclusive /\ Runs!Init
  <2> SUFFICES ASSUME Init  PROVE Exclusive /\ Runs!Init  OBVIOUS
  <2>1. DOMAIN executions = {}  BY DEF Init
  <2>2. \A ti : Working(ti) = {}  BY <2>1 DEF Working
  <2> QED  BY <2>1, <2>2 DEF Init, Exclusive, Runs!Init
<1>2. IInv /\ Exclusive /\ OneStartPerAttempt' /\ [Next]_vars => [Runs!Next]_(Runs!vars)
  <2> SUFFICES ASSUME IInv, Exclusive, OneStartPerAttempt', [Next]_vars
               PROVE  [Runs!Next]_(Runs!vars)
    OBVIOUS
  <2>1. ASSUME queuings' = queuings, starts' = starts,
               \A ti \in TI : Working(ti)' = Working(ti)
        PROVE  [Runs!Next]_(Runs!vars)
    BY <2>1 DEF Runs!vars
  <2>2. CASE UNCHANGED vars  BY <2>1, <2>2 DEF vars, Working, Ti, At
  <2>3. CASE \/ QueueTis \/ TimeOutRun \/ Duplicate
             \/ \E v \in Invocation : ExecutorStep(v) \/ FailBatch(v)
    <3>1. /\ \A ti : Working(ti)' = Working(ti) /\ starts' = starts
          /\ \/ queuings' = queuings
             \/ \E S \in SUBSET {ti \in TI : Working(ti) = {}} :
                  queuings' = [ti \in TI |-> IF ti \in S THEN queuings[ti] + 1
                                             ELSE queuings[ti]]
      BY <2>3, OtherExclusive
    <3>2. CASE queuings' = queuings  BY <2>1, <3>1, <3>2
    <3>3. CASE \E S \in SUBSET {ti \in TI : Working(ti) = {}} :
                 queuings' = [ti \in TI |-> IF ti \in S THEN queuings[ti] + 1
                                            ELSE queuings[ti]]
      <4>1. Runs!Queue  BY <3>1, <3>3 DEF Runs!Queue, Runs!Idle
      <4> QED  BY <4>1 DEF Runs!Next
    <3> QED  BY <3>1, <3>2, <3>3
  <2>4. ASSUME NEW x \in DOMAIN executions, ExecutionStep(x) \/ ExecutionFailure(x)
        PROVE  [Runs!Next]_(Runs!vars)
    <3>0. PICK c \in TI : c = Ti(x)  BY ExecutionFacts
    <3>1. /\ \A ti \in TI : ti # c => Working(ti)' = Working(ti)
          /\ \/ /\ Working(c) = {} /\ Working(c)' = {x}
                /\ starts' = [starts EXCEPT ![c] = @ + 1]
             \/ Working(c)' = {} /\ starts' = starts
             \/ Working(c)' = Working(c) /\ starts' = starts
          /\ queuings' = queuings /\ x \in Names
      BY <2>4, <3>0, ExecutionExclusive, ExecutionFacts
    <3>2. CASE /\ Working(c) = {} /\ Working(c)' = {x}
               /\ starts' = [starts EXCEPT ![c] = @ + 1]
      <4>1. [ti \in TI |-> Working(ti)'] = [work EXCEPT ![c] = {x}]
        BY <3>1, <3>2
      <4>2. starts[c] < queuings[c] * AttemptsOf(c)
        <5>1. starts'[c] <= queuings[c] * AttemptsOf(c)
          BY <3>1 DEF OneStartPerAttempt, AttemptsOf
        <5>2. starts'[c] = starts[c] + 1 /\ starts[c] \in Nat
          BY <3>2 DEF IInv, TypeOK
        <5>3. queuings[c] * AttemptsOf(c) \in Nat
          <6>1. queuings[c] \in Nat  BY DEF IInv, TypeOK
          <6>2. AttemptsOf(c) \in Nat  BY ExecutionAssumption DEF AttemptsOf
          <6> QED  BY <6>1, <6>2
        <5> QED  BY <5>1, <5>2, <5>3
      <4>3. Runs!Start(c, x)
        BY <3>1, <3>2, <4>1, <4>2 DEF Runs!Start, Runs!Idle
      <4> QED  BY <3>1, <4>3 DEF Runs!Next
    <3>3. CASE Working(c)' = {} /\ starts' = starts
      <4>1. [ti \in TI |-> Working(ti)'] = [work EXCEPT ![c] = {}]
        BY <3>1, <3>3
      <4>2. Runs!End(c)  BY <3>1, <3>3, <4>1 DEF Runs!End
      <4> QED  BY <4>2 DEF Runs!Next
    <3>4. CASE Working(c)' = Working(c) /\ starts' = starts
      <4>1. \A ti \in TI : Working(ti)' = Working(ti)  BY <3>1, <3>4
      <4> QED  BY <2>1, <3>1, <3>4, <4>1
    <3> QED  BY <3>1, <3>2, <3>3, <3>4
  <2> QED  BY <2>2, <2>3, <2>4 DEF Next
<1>3. IInv /\ Exclusive /\ [Next]_vars => Exclusive'  BY NextExclusive
<1> QED
  BY <1>1, <1>2, <1>3, StartsCounted, Invariance, PTL
     DEF Spec, RunsOneAtATime, Runs!Spec

-----------------------------------------------------------------------------
(* Without a failure.                                                      *)

\* Names distinguish task instances.
Injective == \A t, u \in TI : DigestOf[t] = DigestOf[u] => t = u

\* Events of a failure-free queue with one name are one event.
LEMMA OneEventPerName ==
  ASSUME Injective, NEW e \in Event, NEW f \in Event, Name(e) = Name(f),
         e.receives = f.receives, e.copy = f.copy
  PROVE  e = f
<1>1. e.ti = f.ti /\ e.dttm = f.dttm  BY DEF Name, Injective, Event
<1> QED  BY <1>1 DEF Event

LEMMA TodoOnTime ==
  ASSUME IInv, NEW v \in Invocation, NEW i \in 1 .. Len(Todo(v))
  PROVE  Todo(v)[i] \in Event /\ Todo(v)[i].dttm <= clock
<1>1. PICK e \in Taken(v) : SameQueueing(e, Todo(v)[i])  BY DEF IInv, Queues
<1>2. e.dttm <= clock  BY DEF IInv, Queues, Pending
<1>3. Todo(v)[i] \in Event  BY TodoEvents DEF IInv
<1> QED  BY <1>1, <1>2, <1>3 DEF SameQueueing

LEMMA QueueTisDistinct ==
  ASSUME IInv, Distinct, Injective, QueueTis
  PROVE  Distinct'
<1>1. /\ clock' = clock + 1 /\ invocation' = invocation /\ executions' = executions
      /\ \A e \in queue' : e \in queue \/ /\ e.dttm = clock + 1 /\ e.receives = 0
                                          /\ ~e.copy
  BY DEF QueueTis
<1>2. clock \in Nat  BY DEF IInv, TypeOK
<1>3. \A x \in DOMAIN executions : x[2] <= clock  BY <1>2 DEF IInv, Named
<1>4. ASSUME NEW e, e.dttm = clock + 1, Known(e)  PROVE FALSE
  BY <1>2, <1>3, <1>4 DEF Known, Name
<1>5. ASSUME NEW e, e.dttm = clock + 1,
             NEW v \in Invocation, NEW i \in 1 .. Len(Todo(v)),
             Name(e) = Name(Todo(v)[i])
      PROVE  FALSE
  <2>1. Todo(v)[i].dttm <= clock  BY TodoOnTime
  <2>2. Todo(v)[i].dttm = e.dttm  BY <1>5 DEF Name
  <2> QED  BY <1>2, <1>5, <2>1, <2>2
<1>6. \A e \in queue' : e.receives = 0 /\ ~e.copy /\ ~Known(e)
  BY <1>1, <1>4 DEF Distinct
<1>7. \A v \in Invocation : \A i \in 1 .. Len(Todo(v)) :
        \A e \in queue' : Name(e) # Name(Todo(v)[i])
  BY <1>1, <1>5 DEF Distinct
<1> QED  BY <1>1, <1>6, <1>7 DEF Distinct, Todo, Known, Name

LEMMA TakeBatchDistinct ==
  ASSUME IInv, Distinct, Injective, NEW v \in Invocation, TakeBatch(v)
  PROVE  Distinct'
<1>1. PICK B \in (SUBSET queue) \ {{}} : \E todo \in [1 .. Cardinality(B) -> B] :
        /\ {todo[i] : i \in 1 .. Cardinality(B)} = B
        /\ invocation' = [invocation EXCEPT ![v] =
                            [todo |-> todo, taken |-> {Receive(e) : e \in B}]]
        /\ queue' = queue \ B
  BY DEF TakeBatch
<1>2. PICK todo \in [1 .. Cardinality(B) -> B] :
        /\ {todo[i] : i \in 1 .. Cardinality(B)} = B
        /\ invocation' = [invocation EXCEPT ![v] =
                            [todo |-> todo, taken |-> {Receive(e) : e \in B}]]
        /\ queue' = queue \ B
  BY <1>1
<1>3. B \subseteq Event /\ IsFiniteSet(B) /\ Cardinality(B) \in Nat
  <2>1. B \subseteq Event  BY DEF IInv, TypeOK
  <2> QED  BY <2>1, EventFinite, FS_Subset, FS_CardinalityType
<1>4. \A i, j \in 1 .. Cardinality(B) : todo[i] = todo[j] => i = j
  <2>1. todo \in Surjection(1 .. Cardinality(B), B)  BY <1>2 DEF Surjection
  <2>2. IsFiniteSet(1 .. Cardinality(B)) /\ Cardinality(1 .. Cardinality(B)) = Cardinality(B)
    BY <1>3, CountTo
  <2>3. todo \in Injection(1 .. Cardinality(B), B)
    BY <1>3, <2>1, <2>2, FS_SurjSameCardinalityImpliesInj
  <2> QED  BY <2>3 DEF Injection, IsInjective
<1>5. \A e, f \in queue : Name(e) = Name(f) => e = f
  <2>1. \A e \in queue : e \in Event /\ e.receives = 0 /\ e.copy = FALSE
    BY DEF Distinct, IInv, TypeOK, Event
  <2> QED  BY <2>1, OneEventPerName
<1>6. /\ Len(todo) = Cardinality(B)
      /\ invocation'[v].todo = todo
      /\ \A w \in Invocation : w # v => invocation'[w].todo = invocation[w].todo
      /\ executions' = executions
  BY <1>2, <1>3 DEF IInv, TypeOK, TakeBatch
<1>7. \A i \in 1 .. Len(todo) : todo[i] \in B /\ todo[i] \in queue
  BY <1>6
<1>8. \A w \in Invocation \ {v} : \A i \in 1 .. Len(invocation[w].todo) :
        /\ ~Known(invocation[w].todo[i])
        /\ \A e \in queue : Name(e) # Name(invocation[w].todo[i])
        /\ \A u \in Invocation \ {v} : \A j \in 1 .. Len(invocation[u].todo) :
             Name(invocation[w].todo[i]) = Name(invocation[u].todo[j]) => w = u /\ i = j
  BY DEF Distinct, Todo
<1>9. \A e \in queue' : e \in queue /\ e \notin B /\ e.receives = 0 /\ ~e.copy /\ ~Known(e)
  BY <1>2 DEF Distinct
<1>10. ASSUME NEW w \in Invocation, NEW i \in 1 .. Len(invocation'[w].todo)
       PROVE  /\ ~Known(invocation'[w].todo[i])
              /\ \A e \in queue' : Name(e) # Name(invocation'[w].todo[i])
              /\ \A u \in Invocation : \A j \in 1 .. Len(invocation'[u].todo) :
                   Name(invocation'[w].todo[i]) = Name(invocation'[u].todo[j])
                     => w = u /\ i = j
  <2>1. CASE w = v
    <3>1. i \in 1 .. Len(todo) /\ invocation'[w].todo[i] = todo[i]
      BY <1>6, <2>1
    <3>2. todo[i] \in B /\ todo[i] \in queue  BY <1>7, <3>1
    <3>3. ~Known(todo[i])  BY <3>2 DEF Distinct
    <3>4. \A e \in queue' : Name(e) # Name(todo[i])  BY <1>5, <1>9, <3>2
    <3>5. ASSUME NEW u \in Invocation, NEW j \in 1 .. Len(invocation'[u].todo),
                 Name(todo[i]) = Name(invocation'[u].todo[j])
          PROVE  w = u /\ i = j
      <4>1. CASE u = v
        <5>1. j \in 1 .. Len(todo) /\ invocation'[u].todo[j] = todo[j]
          BY <1>6, <4>1
        <5>2. todo[i] = todo[j]  BY <1>5, <1>7, <3>2, <3>5, <5>1
        <5>3. i = j  BY <1>4, <1>6, <3>1, <5>1, <5>2
        <5> QED  BY <2>1, <4>1, <5>3
      <4>2. CASE u # v
        <5>1. invocation'[u].todo = invocation[u].todo  BY <1>6, <4>2
        <5> QED  BY <1>8, <3>2, <3>5, <4>2, <5>1
      <4> QED  BY <4>1, <4>2
    <3> QED  BY <3>1, <3>3, <3>4, <3>5
  <2>2. CASE w # v
    <3>1. invocation'[w].todo = invocation[w].todo  BY <1>6, <2>2
    <3>2. \A e \in queue' : Name(e) # Name(invocation[w].todo[i])
      BY <1>8, <1>9, <2>2, <3>1
    <3>3. ASSUME NEW u \in Invocation, NEW j \in 1 .. Len(invocation'[u].todo),
                 Name(invocation[w].todo[i]) = Name(invocation'[u].todo[j])
          PROVE  w = u /\ i = j
      <4>1. CASE u = v
        <5>1. j \in 1 .. Len(todo) /\ invocation'[u].todo[j] = todo[j]
          BY <1>6, <4>1
        <5>2. todo[j] \in queue  BY <1>7, <5>1
        <5> QED  BY <1>8, <2>2, <3>1, <3>3, <5>1, <5>2
      <4>2. CASE u # v
        <5>1. invocation'[u].todo = invocation[u].todo  BY <1>6, <4>2
        <5> QED  BY <1>8, <2>2, <3>1, <3>3, <4>2, <5>1
      <4> QED  BY <4>1, <4>2
    <3> QED  BY <1>8, <2>2, <3>1, <3>2, <3>3
  <2> QED  BY <2>1, <2>2
<1>11. executions' = executions /\ \A e : Name(e)' = Name(e) /\ (Known(e)' <=> Known(e))
  BY <1>6 DEF Name, Known
<1>12. ASSUME NEW w \in Invocation, NEW i \in 1 .. Len(Todo(w)')
       PROVE  /\ ~Known(Todo(w)[i])'
              /\ \A e \in queue' : Name(e) # Name(Todo(w)[i])'
              /\ \A u \in Invocation : \A j \in 1 .. Len(Todo(u)') :
                   Name(Todo(w)[i])' = Name(Todo(u)[j])' => w = u /\ i = j
  BY <1>10, <1>11 DEF Todo
<1> QED  BY <1>9, <1>11, <1>12 DEF Distinct

LEMMA StartExecutionDistinct ==
  ASSUME IInv, Distinct, NEW v \in Invocation, StartExecution(v)
  PROVE  Distinct'
<1> DEFINE e0 == Head(Todo(v))
<1>1. Todo(v) \in Seq(Event) /\ Todo(v) # <<>>
  BY DEF StartExecution, Todo, IInv, TypeOK
<1>2. /\ e0 = Todo(v)[1] /\ Len(Todo(v)) \in Nat /\ Len(Todo(v)) >= 1
      /\ \A i \in 1 .. Len(Tail(Todo(v))) :
           i + 1 \in 1 .. Len(Todo(v)) /\ Tail(Todo(v))[i] = Todo(v)[i + 1]
  <2> HIDE DEF e0
  <2>1. e0 = Head(Todo(v))  BY DEF e0
  <2> QED  BY <1>1, <2>1, TailOne
<1>3. 1 \in 1 .. Len(Todo(v))  BY <1>2
<1>4. /\ queue' = queue /\ ~Known(e0)
      /\ invocation' = [invocation EXCEPT ![v].todo = Tail(Todo(v))]
      /\ DOMAIN executions' = DOMAIN executions \cup {Name(e0)}
  <2>1. ~Known(e0)  BY <1>2, <1>3 DEF Distinct
  <2> QED  BY <2>1 DEF StartExecution, Todo, IsRunning, Same
<1> HIDE DEF e0
<1>5. ASSUME NEW w \in Invocation, NEW i \in 1 .. Len(invocation'[w].todo)
      PROVE  \E k \in 1 .. Len(Todo(w)) :
               /\ invocation'[w].todo[i] = Todo(w)[k]
               /\ k = IF w = v THEN i + 1 ELSE i
               /\ ~(w = v /\ k = 1)
  <2>1. CASE w = v
    <3>1. invocation'[w].todo = Tail(Todo(v))  BY <1>4, <2>1 DEF IInv, TypeOK
    <3> QED  BY <1>2, <2>1, <3>1
  <2>2. CASE w # v
    <3>1. invocation'[w].todo = Todo(w)  BY <1>4, <2>2 DEF IInv, TypeOK, Todo
    <3> QED  BY <2>2, <3>1
  <2> QED  BY <2>1, <2>2
<1>6. \A e : Name(e) # Name(e0) /\ ~Known(e) => ~Known(e)'
  BY <1>4 DEF Known, Name
<1>7. \A e \in queue : Name(e) # Name(e0)  BY <1>2, <1>3 DEF Distinct
<1>8. ASSUME NEW w \in Invocation, NEW i \in 1 .. Len(invocation'[w].todo)
      PROVE  /\ ~(Name(invocation'[w].todo[i]) \in DOMAIN executions')
             /\ \A e \in queue' : Name(e) # Name(invocation'[w].todo[i])
             /\ \A u \in Invocation : \A j \in 1 .. Len(invocation'[u].todo) :
                  Name(invocation'[w].todo[i]) = Name(invocation'[u].todo[j])
                    => w = u /\ i = j
  <2>1. PICK k \in 1 .. Len(Todo(w)) :
          /\ invocation'[w].todo[i] = Todo(w)[k]
          /\ k = IF w = v THEN i + 1 ELSE i
          /\ ~(w = v /\ k = 1)
    BY <1>5
  <2>2. /\ ~Known(Todo(w)[k]) /\ Name(Todo(w)[k]) # Name(e0)
        /\ \A e \in queue : Name(e) # Name(Todo(w)[k])
    BY <1>2, <1>3, <2>1 DEF Distinct
  <2>3. ASSUME NEW u \in Invocation, NEW j \in 1 .. Len(invocation'[u].todo),
               Name(invocation'[w].todo[i]) = Name(invocation'[u].todo[j])
        PROVE  w = u /\ i = j
    <3>1. PICK l \in 1 .. Len(Todo(u)) :
            /\ invocation'[u].todo[j] = Todo(u)[l]
            /\ l = IF u = v THEN j + 1 ELSE j
            /\ ~(u = v /\ l = 1)
      BY <1>5
    <3>2. Name(Todo(w)[k]) = Name(Todo(u)[l])  BY <2>1, <2>3, <3>1
    <3>3. w = u /\ k = l  BY <3>2 DEF Distinct
    <3>4. i \in Int /\ j \in Int  OBVIOUS
    <3> QED  BY <2>1, <3>1, <3>3, <3>4
  <2> QED  BY <1>4, <2>1, <2>2, <2>3 DEF Known
<1>9. \A e \in queue' : e.receives = 0 /\ ~e.copy /\ ~Known(e)'
  BY <1>4, <1>6, <1>7 DEF Distinct
<1>10. ASSUME NEW w \in Invocation, NEW i \in 1 .. Len(Todo(w)')
       PROVE  /\ ~Known(Todo(w)[i])'
              /\ \A e \in queue' : Name(e) # Name(Todo(w)[i])'
              /\ \A u \in Invocation : \A j \in 1 .. Len(Todo(u)') :
                   Name(Todo(w)[i])' = Name(Todo(u)[j])' => w = u /\ i = j
  BY <1>8 DEF Todo, Known, Name
<1>11. \A e \in queue' : Name(e)' = Name(e)  BY DEF Name
<1> QED  BY <1>9, <1>10, <1>11 DEF Distinct

LEMMA EndBatchDistinct ==
  ASSUME IInv, Distinct, NEW v \in Invocation, EndBatch(v)
  PROVE  Distinct'
<1>1. /\ queue' = queue /\ executions' = executions
      /\ invocation' = [invocation EXCEPT ![v] = IdleInvocation]
      /\ Todo(v) = <<>>
  BY DEF EndBatch, Todo
<1>2. \A w \in Invocation : invocation'[w].todo = Todo(w)
  BY <1>1 DEF IInv, TypeOK, Todo, IdleInvocation
<1> QED  BY <1>1, <1>2 DEF Distinct, Todo, Known, Name

LEMMA ExecutionAttended ==
  ASSUME IInv, Attended, abandoned = {}, NEW x \in DOMAIN executions, ExecutionStep(x)
  PROVE  Attended' /\ abandoned' = {} /\ queue' = queue /\ invocation' = invocation
         /\ DOMAIN executions' = DOMAIN executions
<1>0. PICK c \in TI : c = Ti(x)  BY ExecutionFacts
<1>1. /\ queue' = queue /\ invocation' = invocation
      /\ \E pc : pc # "submitted" /\ Goes(x, pc)
  BY DEF ExecutionStep, WorkerStarts, WorkerPutsBack, WorkerDeclines, WorkerReports,
         WorkerStops, WorkerReturns, Catch, UnchangedQueue
<1>2. PICK pc : Goes(x, pc)  BY <1>1
<1>3. /\ DOMAIN executions' = DOMAIN executions
      /\ executions'[x].pc = pc
      /\ \A y \in DOMAIN executions : executions'[y].ti = executions[y].ti
      /\ \A y \in DOMAIN executions : y # x => executions'[y] = executions[y]
  BY <1>2, ExecutionFacts DEF Goes, Execution
<1>4. \A ti \in TI : ti # c => state'[ti] = state[ti] /\ owner'[ti] = owner[ti]
  BY <1>0, ExecutionFacts
     DEF ExecutionStep, WorkerStarts, WorkerPutsBack, WorkerDeclines, WorkerReports,
         WorkerStops, WorkerReturns, Catch, UnchangedTasks, Sets, IInv, TypeOK
<1>5. abandoned' = {}
  <2>1. CASE WorkerDeclines(x)
    <3>1. ~(state[c] = "running" /\ owner[c] = x)
      BY <2>1 DEF Attended, WorkerDeclines, At
    <3> QED  BY <1>0, <2>1, <3>1 DEF WorkerDeclines
  <2> QED
    BY <2>1 DEF ExecutionStep, WorkerStarts, WorkerPutsBack, WorkerReports,
                WorkerStops, WorkerReturns, Catch
<1>6. ASSUME NEW ti \in TI, state'[ti] = "running"
      PROVE  \E y \in DOMAIN executions' :
               /\ y = owner'[ti] /\ executions'[y].ti = ti
               /\ executions'[y].pc = "working"
  <2>1. CASE ti # c
    <3>1. PICK y \in DOMAIN executions :
            y = owner[ti] /\ executions[y].ti = ti /\ executions[y].pc = "working"
      BY <1>4, <1>6, <2>1 DEF Attended, Ti, At
    <3>2. y # x  BY <1>0, <2>1, <3>1 DEF Ti
    <3> QED  BY <1>3, <1>4, <2>1, <3>1, <3>2
  <2>2. CASE ti = c /\ WorkerStarts(x)
    <3>1. owner'[c] = x /\ executions'[x].pc = "working" /\ executions[x].ti = c
      BY <1>0, <2>2, ExecutionFacts
         DEF WorkerStarts, Goes, IInv, TypeOK, Execution, Ti
    <3> QED  BY <1>3, <2>2, <3>1
  <2>3. CASE ti = c /\ (WorkerPutsBack(x) \/ WorkerReports(x) \/ Catch(x))
    <3>1. \E s : s # "running" /\ Sets(x, s)
      BY <2>3 DEF WorkerPutsBack, WorkerReports, Catch
    <3>2. state'[c] # "running"
      BY <1>0, <3>1 DEF Sets, IInv, TypeOK
    <3> QED  BY <1>6, <2>3, <3>2
  <2>4. CASE ti = c /\ (WorkerDeclines(x) \/ WorkerStops(x) \/ WorkerReturns(x))
    <3>1. state'[c] = state[c] /\ owner'[c] = owner[c]
      BY <2>4 DEF WorkerDeclines, WorkerStops, WorkerReturns, UnchangedTasks
    <3>2. PICK y \in DOMAIN executions :
            y = owner[c] /\ executions[y].ti = c /\ executions[y].pc = "working"
      BY <1>6, <2>4, <3>1 DEF Attended, Ti, At
    <3>3. y # x
      BY <1>0, <1>6, <2>4, <3>1, <3>2
         DEF WorkerDeclines, WorkerStops, WorkerReturns, At
    <3> QED  BY <1>3, <2>4, <3>1, <3>2, <3>3
  <2> QED  BY <2>1, <2>2, <2>3, <2>4 DEF ExecutionStep
<1> QED  BY <1>1, <1>3, <1>5, <1>6 DEF Attended, Ti, At

LEMMA NextUnhurt ==
  ASSUME Injective, IInv, Unhurt, [Next]_vars
  PROVE  Unhurt'
<1> SUFFICES ASSUME failures' = 0
             PROVE  abandoned' = {} /\ Distinct' /\ Attended'
  BY DEF Unhurt
<1>1. ~Failure  BY OneFailure
<1>2. CASE UNCHANGED vars
  BY <1>2 DEF vars, Unhurt, Distinct, Attended, Todo, Known, Name, Ti, At
<1>3. CASE Next
  <2>1. failures = 0
    <3>1. Failure \/ failures' = failures
      BY <1>3, Zenon
      DEF Next, QueueTis, TimeOutRun, Duplicate, ExecutorStep, TakeBatch, StartExecution,
                  EndBatch, RefuseName, FailBatch, ExecutionStep, WorkerStarts,
                  WorkerPutsBack, WorkerDeclines, WorkerReports, WorkerStops,
                  WorkerReturns, Catch, ExecutionFailure, WorkerDies, CatchWithoutDag,
                  CatcherFails
    <3> QED  BY <1>1, <3>1, Zenon
  <2>2. abandoned = {} /\ Distinct /\ Attended  BY <2>1 DEF Unhurt
  <2>3. CASE QueueTis
    <3>1. Distinct'  BY <2>2, <2>3, QueueTisDistinct
    <3>2. Attended'
      BY <2>2, <2>3 DEF QueueTis, Attended, Ti, At
    <3> QED  BY <2>2, <2>3, <3>1, <3>2 DEF QueueTis
  <2>6. CASE TimeOutRun
    <3>1. /\ UNCHANGED <<owner, queue, invocation, executions, abandoned>>
          /\ \A ti \in TI : state'[ti] = "running" => state[ti] = "running"
      BY <2>6 DEF TimeOutRun, UnchangedQueue
    <3> QED  BY <2>2, <3>1 DEF Distinct, Attended, Todo, Known, Name, Ti, At
  <2>4. ASSUME NEW v \in Invocation, ExecutorStep(v)
        PROVE  abandoned' = {} /\ Distinct' /\ Attended'
    <3>1. CASE TakeBatch(v)
      <4>1. Distinct'  BY <2>2, <3>1, TakeBatchDistinct
      <4> QED  BY <2>2, <3>1, <4>1 DEF TakeBatch, UnchangedTasks, Attended, Ti, At
    <3>2. CASE StartExecution(v)
      <4>1. Distinct'  BY <2>2, <3>2, StartExecutionDistinct
      <4>2. /\ UNCHANGED <<state, owner, abandoned>>
            /\ DOMAIN executions \subseteq DOMAIN executions'
            /\ \A x \in DOMAIN executions : executions'[x] = executions[x]
        BY <3>2 DEF StartExecution, UnchangedTasks, Known
      <4> QED  BY <2>2, <4>1, <4>2 DEF Attended, Ti, At
    <3>3. CASE EndBatch(v)
      <4>1. Distinct'  BY <2>2, <3>3, EndBatchDistinct
      <4> QED  BY <2>2, <3>3, <4>1 DEF EndBatch, UnchangedTasks, Attended, Ti, At
    <3>4. CASE RefuseName(v)
      <4>1. Todo(v) \in Seq(Event) /\ Todo(v) # <<>> /\ Known(Head(Todo(v)))
        BY <3>4 DEF RefuseName, Todo, IInv, TypeOK
      <4>2. 1 \in 1 .. Len(Todo(v)) /\ Head(Todo(v)) = Todo(v)[1]
        BY <4>1, TailOne
      <4> QED  BY <2>2, <4>1, <4>2 DEF Distinct
    <3> QED  BY <2>4, <3>1, <3>2, <3>3, <3>4 DEF ExecutorStep
  <2>5. ASSUME NEW x \in DOMAIN executions, ExecutionStep(x)
        PROVE  abandoned' = {} /\ Distinct' /\ Attended'
    <3>1. /\ Attended' /\ abandoned' = {} /\ queue' = queue /\ invocation' = invocation
          /\ DOMAIN executions' = DOMAIN executions
      BY <2>2, <2>5, ExecutionAttended
    <3>2. Distinct'  BY <2>2, <3>1 DEF Distinct, Todo, Known, Name
    <3> QED  BY <3>1, <3>2
  <2> QED
    BY <1>1, <1>3, <2>3, <2>4, <2>5, <2>6
       DEF Next, Duplicate, FailBatch, ExecutionFailure, WorkerDies, CatchWithoutDag,
           CatcherFails
<1> QED  BY <1>2, <1>3

\* If names distinguish task instances and nothing has failed, the events, the
\* executors and the executions have lost no task instance.
THEOREM AbandonedIfFailed == ASSUME Injective PROVE Spec => []AbandonedByFailureOnly
<1>1. IInv /\ Unhurt /\ [Next]_vars => (IInv /\ Unhurt)'
  BY NextIInv, NextUnhurt
<1>2. Unhurt => AbandonedByFailureOnly  BY DEF Unhurt, AbandonedByFailureOnly
<1> QED  BY <1>1, <1>2, InitIInv, PTL DEF Spec
=============================================================================
