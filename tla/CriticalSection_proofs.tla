------------------------ MODULE CriticalSection_proofs ------------------------
(***************************************************************************)
(* The critical section implements the atomic allocator SlotLimits, for    *)
(* any number of schedulers, dags, tasks, task instances and pools.        *)
(***************************************************************************)
EXTENDS CriticalSection, FiniteSetTheorems, FunctionTheorems, TLAPS

-----------------------------------------------------------------------------
(* Counting: the slots a set of task instances occupies in a pool, and how  *)
(* many of them are active in a dag or of a task.                          *)

\* A union of finite sets indexed by a finite set is finite.
LEMMA FiniteFamily ==
  ASSUME NEW I, IsFiniteSet(I), NEW f, f = [x \in I |-> f[x]],
         \A x \in I : IsFiniteSet(f[x])
  PROVE  IsFiniteSet(UNION {f[x] : x \in I})
<1> DEFINE R == {f[x] : x \in I}
<1>1. f \in Surjection(I, R)
  <2>1. f \in [I -> R]  OBVIOUS
  <2>2. \A t \in R : \E x \in I : f[x] = t  OBVIOUS
  <2> QED  BY <2>1, <2>2 DEF Surjection
<1>2. IsFiniteSet(R)
  <2> HIDE DEF R
  <2> QED  BY <1>1, FS_Surjection
<1>3. \A T \in R : IsFiniteSet(T)  OBVIOUS
<1> QED
  <2> HIDE DEF R
  <2>1. IsFiniteSet(UNION R)  BY <1>2, <1>3, FS_UNION
  <2> QED  BY <2>1 DEF R

\* A task instance occupies as many slots as its task asks for.
LEMMA SlotsOfCount ==
  ASSUME NEW ti \in TI
  PROVE  /\ IsFiniteSet(SlotsOf(ti))
         /\ Cardinality(SlotsOf(ti)) = Slots[TaskOf[ti]]
<1> DEFINE n == Slots[TaskOf[ti]]
<1>1. n \in Nat /\ n >= 1  BY MetadataAssumption
<1>2. IsFiniteSet({ti}) /\ Cardinality({ti}) = 1  BY FS_Singleton
<1>3. IsFiniteSet(1 .. n) /\ Cardinality(1 .. n) = n
  <2> HIDE DEF n
  <2> QED  BY <1>1, FS_Interval
<1>4. /\ IsFiniteSet({ti} \X (1 .. n))
      /\ Cardinality({ti} \X (1 .. n)) = Cardinality({ti}) * Cardinality(1 .. n)
  <2> HIDE DEF n
  <2> QED  BY <1>2, <1>3, FS_Product
<1>5. Cardinality({ti} \X (1 .. n)) = n
  <2> HIDE DEF n
  <2> QED  BY <1>1, <1>2, <1>3, <1>4
<1> QED  BY <1>4, <1>5 DEF SlotsOf

\* The slots occupied by any set of task instances are finitely many.
LEMMA OccupiedFinite ==
  ASSUME NEW S \in SUBSET TI, NEW p
  PROVE  IsFiniteSet(Occupied(S, p)) /\ UsedSlots(S, p) \in Nat
<1> DEFINE I == InPool(S, p)
           f == [ti \in I |-> SlotsOf(ti)]
<1>1. I \subseteq TI  BY DEF InPool
<1>2. IsFiniteSet(I)  BY <1>1, FS_Subset, FiniteAssumption
<1>3. \A ti \in I : f[ti] = SlotsOf(ti)  OBVIOUS
<1>4. \A ti \in I : IsFiniteSet(f[ti])  BY <1>1, <1>3, SlotsOfCount
<1>5. f = [ti \in I |-> f[ti]]  OBVIOUS
<1>6. IsFiniteSet(UNION {f[ti] : ti \in I})
  <2> HIDE DEF f, I
  <2> QED  BY <1>2, <1>4, <1>5, FiniteFamily
<1>7. UNION {f[ti] : ti \in I} = Occupied(S, p)  BY <1>3 DEF Occupied
<1>8. IsFiniteSet(Occupied(S, p))
  <2> HIDE DEF f, I
  <2> QED  BY <1>6, <1>7
<1> QED  BY <1>8, FS_CardinalityType DEF UsedSlots

\* Fewer task instances occupy no more slots.
LEMMA UsedMonotone ==
  ASSUME NEW T \in SUBSET TI, NEW S \in SUBSET T, NEW p
  PROVE  UsedSlots(S, p) <= UsedSlots(T, p)
<1>1. Occupied(S, p) \subseteq Occupied(T, p)  BY DEF Occupied, InPool
<1>2. IsFiniteSet(Occupied(T, p))  BY OccupiedFinite
<1> QED  BY <1>1, <1>2, FS_Subset DEF UsedSlots

\* One more task instance takes its own slots of its own pool, and no other.
LEMMA UsedAdd ==
  ASSUME NEW S \in SUBSET TI, NEW ti \in TI, NEW p
  PROVE  /\ UsedSlots(S \cup {ti}, p) <= UsedSlots(S, p) + Slots[TaskOf[ti]]
         /\ PoolName(ti) # p => UsedSlots(S \cup {ti}, p) = UsedSlots(S, p)
<1>1. CASE PoolName(ti) # p
  <2>1. InPool(S \cup {ti}, p) = InPool(S, p)  BY <1>1 DEF InPool
  <2>2. UsedSlots(S \cup {ti}, p) = UsedSlots(S, p)  BY <2>1 DEF UsedSlots, Occupied
  <2>3. UsedSlots(S, p) \in Nat /\ Slots[TaskOf[ti]] \in Nat
    BY OccupiedFinite, MetadataAssumption
  <2> QED  BY <2>2, <2>3
<1>2. CASE PoolName(ti) = p
  <2>1. Occupied(S \cup {ti}, p) = Occupied(S, p) \cup SlotsOf(ti)
    BY <1>2 DEF Occupied, InPool
  <2>2. IsFiniteSet(Occupied(S, p))  BY OccupiedFinite
  <2>3. IsFiniteSet(SlotsOf(ti)) /\ Cardinality(SlotsOf(ti)) = Slots[TaskOf[ti]]
    BY SlotsOfCount
  <2>4. Cardinality(Occupied(S, p) \cup SlotsOf(ti))
          = Cardinality(Occupied(S, p)) + Cardinality(SlotsOf(ti))
            - Cardinality(Occupied(S, p) \cap SlotsOf(ti))
    BY <2>2, <2>3, FS_Union
  <2>5. Cardinality(Occupied(S, p) \cap SlotsOf(ti)) \in Nat
    BY <2>2, FS_Intersection, FS_CardinalityType
  <2>6. UsedSlots(S, p) \in Nat /\ Slots[TaskOf[ti]] \in Nat
    BY OccupiedFinite, MetadataAssumption
  <2>7. UsedSlots(S \cup {ti}, p)
          = UsedSlots(S, p) + Slots[TaskOf[ti]]
            - Cardinality(Occupied(S, p) \cap SlotsOf(ti))
    BY <2>1, <2>3, <2>4 DEF UsedSlots
  <2>8. UsedSlots(S \cup {ti}, p) <= UsedSlots(S, p) + Slots[TaskOf[ti]]
    BY <2>5, <2>6, <2>7
  <2> QED  BY <1>2, <2>8
<1> QED  BY <1>1, <1>2

-----------------------------------------------------------------------------
(* The same three facts for the counts of a dag and of a task.             *)

LEMMA ActiveFinite ==
  ASSUME NEW S \in SUBSET TI, NEW d, NEW t
  PROVE  /\ IsFiniteSet(InDag(S, d)) /\ ActiveInDag(S, d) \in Nat
         /\ IsFiniteSet(InTask(S, t)) /\ ActiveInTask(S, t) \in Nat
<1>1. InDag(S, d) \subseteq TI /\ InTask(S, t) \subseteq TI  BY DEF InDag, InTask
<1>2. IsFiniteSet(InDag(S, d)) /\ IsFiniteSet(InTask(S, t))
  BY <1>1, FS_Subset, FiniteAssumption
<1> QED  BY <1>2, FS_CardinalityType DEF ActiveInDag, ActiveInTask

LEMMA ActiveMonotone ==
  ASSUME NEW T \in SUBSET TI, NEW S \in SUBSET T, NEW d, NEW t
  PROVE  /\ ActiveInDag(S, d) <= ActiveInDag(T, d)
         /\ ActiveInTask(S, t) <= ActiveInTask(T, t)
<1>1. InDag(S, d) \subseteq InDag(T, d) /\ InTask(S, t) \subseteq InTask(T, t)
  BY DEF InDag, InTask
<1>2. IsFiniteSet(InDag(T, d)) /\ IsFiniteSet(InTask(T, t))  BY ActiveFinite
<1> QED  BY <1>1, <1>2, FS_Subset DEF ActiveInDag, ActiveInTask

LEMMA ActiveAdd ==
  ASSUME NEW S \in SUBSET TI, NEW ti \in TI, NEW d, NEW t
  PROVE  /\ ActiveInDag(S \cup {ti}, d) <= ActiveInDag(S, d) + 1
         /\ DagName(ti) # d => ActiveInDag(S \cup {ti}, d) = ActiveInDag(S, d)
         /\ ActiveInTask(S \cup {ti}, t) <= ActiveInTask(S, t) + 1
         /\ TaskOf[ti] # t => ActiveInTask(S \cup {ti}, t) = ActiveInTask(S, t)
<1>1. IsFiniteSet(InDag(S, d)) /\ ActiveInDag(S, d) \in Nat
  BY ActiveFinite
<1>2. IsFiniteSet(InTask(S, t)) /\ ActiveInTask(S, t) \in Nat
  BY ActiveFinite
<1>3. /\ ActiveInDag(S \cup {ti}, d) <= ActiveInDag(S, d) + 1
      /\ DagName(ti) # d => ActiveInDag(S \cup {ti}, d) = ActiveInDag(S, d)
  <2>1. CASE DagName(ti) = d
    <3>1. InDag(S \cup {ti}, d) = InDag(S, d) \cup {ti}  BY <2>1 DEF InDag
    <3>2. Cardinality(InDag(S, d) \cup {ti})
            = IF ti \in InDag(S, d) THEN Cardinality(InDag(S, d))
              ELSE Cardinality(InDag(S, d)) + 1
      BY <1>1, FS_AddElement
    <3>3. ActiveInDag(S \cup {ti}, d) <= ActiveInDag(S, d) + 1
      BY <1>1, <3>1, <3>2 DEF ActiveInDag
    <3> QED  BY <2>1, <3>3
  <2>2. CASE DagName(ti) # d
    <3>1. InDag(S \cup {ti}, d) = InDag(S, d)  BY <2>2 DEF InDag
    <3> QED  BY <1>1, <3>1 DEF ActiveInDag
  <2> QED  BY <2>1, <2>2
<1>4. /\ ActiveInTask(S \cup {ti}, t) <= ActiveInTask(S, t) + 1
      /\ TaskOf[ti] # t => ActiveInTask(S \cup {ti}, t) = ActiveInTask(S, t)
  <2>1. CASE TaskOf[ti] = t
    <3>1. InTask(S \cup {ti}, t) = InTask(S, t) \cup {ti}  BY <2>1 DEF InTask
    <3>2. Cardinality(InTask(S, t) \cup {ti})
            = IF ti \in InTask(S, t) THEN Cardinality(InTask(S, t))
              ELSE Cardinality(InTask(S, t)) + 1
      BY <1>2, FS_AddElement
    <3>3. ActiveInTask(S \cup {ti}, t) <= ActiveInTask(S, t) + 1
      BY <1>2, <3>1, <3>2 DEF ActiveInTask
    <3> QED  BY <2>1, <3>3
  <2>2. CASE TaskOf[ti] # t
    <3>1. InTask(S \cup {ti}, t) = InTask(S, t)  BY <2>2 DEF InTask
    <3> QED  BY <1>2, <3>1 DEF ActiveInTask
  <2> QED  BY <2>1, <2>2
<1> QED  BY <1>3, <1>4

-----------------------------------------------------------------------------
(* Type correctness.                                                       *)

\* The free slots of a read of the pools are a natural number.
LEMMA FreeSlotsType ==
  ASSUME NEW open \in [Pool -> Int]
  PROVE  FreeSlots(open) \in Nat
<1> DEFINE f == [p \in Pool |-> {p} \X (1 .. open[p])]
<1>1. \A p \in Pool : IsFiniteSet({p} \X (1 .. open[p]))
  <2> SUFFICES ASSUME NEW p \in Pool PROVE IsFiniteSet({p} \X (1 .. open[p]))
    OBVIOUS
  <2>1. IsFiniteSet(1 .. open[p])  BY FS_Interval
  <2>2. IsFiniteSet({p})  BY FS_Singleton
  <2> QED  BY <2>1, <2>2, FS_Product
<1>2. \A p \in Pool : f[p] = {p} \X (1 .. open[p])  OBVIOUS
<1>3. f = [p \in Pool |-> f[p]]  OBVIOUS
<1>4. IsFiniteSet(UNION {f[p] : p \in Pool})
  <2>1. \A p \in Pool : IsFiniteSet(f[p])  BY <1>1, <1>2
  <2> HIDE DEF f
  <2> QED  BY <1>3, <2>1, FiniteAssumption, FiniteFamily
<1>5. UNION {f[p] : p \in Pool} = UNION {{p} \X (1 .. open[p]) : p \in Pool}
  BY <1>2
<1>6. IsFiniteSet(UNION {{p} \X (1 .. open[p]) : p \in Pool})
  <2> HIDE DEF f
  <2> QED  BY <1>4, <1>5
<1> QED  BY <1>6, FS_CardinalityType DEF FreeSlots

LEMMA IdleType == Idle \in Section
BY DEF Idle, Section

LEMMA InExecutionType == InExecution \subseteq TI
BY DEF InExecution

LEMMA NamesType ==
  ASSUME NEW ti \in TI
  PROVE  /\ TaskOf[ti] \in Task /\ RunOf[ti] \in Run
         /\ PoolName(ti) \in Pool /\ DagName(ti) \in Dag
         /\ Slots[TaskOf[ti]] \in Nat /\ MaxActiveTasks[DagName(ti)] \in Nat
BY MetadataAssumption DEF PoolName, DagName

\* Replacing one scheduler's section by a section keeps the type of cs.
LEMMA SectionUpdate ==
  ASSUME TypeOK, NEW s \in Scheduler, NEW r \in Section, Becomes(s, r)
  PROVE  /\ cs' \in [Scheduler -> Section]
         /\ cs'[s] = r
         /\ \A q \in Scheduler \ {s} : cs'[q] = cs[q]
BY DEF TypeOK, Becomes

LEMMA InitType == Init => TypeOK
<1> SUFFICES ASSUME Init PROVE TypeOK
  OBVIOUS
<1>1. cs \in [Scheduler -> Section]  BY IdleType DEF Init
<1>2. total \in [Pool -> Nat]  BY SchedulerAssumption DEF Init
<1> QED  BY <1>1, <1>2 DEF Init, TypeOK, TaskInstanceState, DagRunState

\* The sections the steps of a section lead to are sections.
LEMMA PoolsReadType ==
  ASSUME TypeOK, NEW s \in Scheduler
  PROVE  /\ OpenSlots \in [Pool -> Int]
         /\ PoolsRead(s) \in Section
<1>1. OpenSlots \in [Pool -> Int]
  BY InExecutionType, OccupiedFinite DEF TypeOK, OpenSlots
<1>2. FreeSlots(OpenSlots) \in Nat  BY <1>1, FreeSlotsType
<1>3. {p \in exists : OpenSlots[p] <= 0} \subseteq Pool  BY DEF TypeOK
<1>0. cs[s] \in Section  BY DEF TypeOK
<1>4. PoolsRead(s) \in Section
  <2> DEFINE starved == {p \in exists : OpenSlots[p] <= 0}
             pc == IF FreeSlots(OpenSlots) = 0 THEN "update" ELSE "pools"
             limit == IF FreeSlots(OpenSlots) < MaxTis
                      THEN FreeSlots(OpenSlots) ELSE MaxTis
  <2>1. limit \in Nat  BY <1>2, SchedulerAssumption
  <2>2. PoolsRead(s) = [cs[s] EXCEPT !.pc = pc, !.open = OpenSlots,
                                     !.limit = limit, !.starved = starved]
    BY DEF PoolsRead
  <2>3. pc \in {"pools", "update"} /\ starved \subseteq Pool  BY <1>3
  <2> DEFINE open == OpenSlots
  <2>4. open \in [Pool -> Int]  BY <1>1
  <2> HIDE DEF starved, pc, limit, open
  <2>5. [cs[s] EXCEPT !.pc = pc, !.open = open, !.limit = limit, !.starved = starved]
          \in Section
    BY <1>0, <2>1, <2>3, <2>4 DEF Section
  <2> QED  BY <2>2, <2>5 DEF open
<1> QED  BY <1>1, <1>4

LEMMA MapsReadType ==
  ASSUME TypeOK, NEW s \in Scheduler
  PROVE  MapsRead(s) \in Section
<1>1. /\ [d \in Dag |-> ActiveInDag(InExecution, d)] \in [Dag -> Nat]
      /\ [t \in Task |-> ActiveInTask(InExecution, t)] \in [Task -> Nat]
  BY InExecutionType, ActiveFinite
<1>2. cs[s] \in Section  BY DEF TypeOK
<1> QED  BY <1>1, <1>2 DEF MapsRead, Section

LEMMA CandidatesType ==
  ASSUME NEW s \in Scheduler
  PROVE  /\ Candidates(s) \subseteq Scheduled
         /\ Scheduled \subseteq TI
BY DEF Candidates, Scheduled

LEMMA SelectedType ==
  ASSUME TypeOK, NEW s \in Scheduler, NEW B \in SUBSET Candidates(s)
  PROVE  Selected(s, B) \in Section
<1>1. Candidates(s) \subseteq TI  BY CandidatesType
<1> DEFINE pc == IF B = {} THEN "update" ELSE "examine"
           full == Cardinality(B) = cs[s].limit
           seen == Candidates(s)
           rows == cs[s].rows \cup B
<1>2. full \in BOOLEAN /\ pc \in {"update", "examine"} /\ seen \subseteq TI
  BY <1>1
<1>3. cs[s] \in Section  BY DEF TypeOK
<1>4. Selected(s, B) = [cs[s] EXCEPT !.pc = pc, !.visible = seen,
                                     !.batch = B, !.full = full,
                                     !.rows = rows, !.grew = FALSE]
  BY DEF Selected
<1>5. B \subseteq TI /\ rows \subseteq TI  BY <1>1, <1>3 DEF Section
<1> HIDE DEF pc, full, seen, rows
<1>6. [cs[s] EXCEPT !.pc = pc, !.visible = seen, !.batch = B]
        \in Section
  BY <1>2, <1>3, <1>5 DEF Section
<1>7. PICK q \in Section :
        q = [cs[s] EXCEPT !.pc = pc, !.visible = seen, !.batch = B]
  BY <1>6
<1>8. [q EXCEPT !.full = full, !.rows = rows, !.grew = FALSE] \in Section
  BY <1>2, <1>5 DEF Section
<1>9. Selected(s, B) = [q EXCEPT !.full = full, !.rows = rows, !.grew = FALSE]
  BY <1>3, <1>4, <1>7 DEF Section
<1> QED  BY <1>8, <1>9

LEMMA ExaminedType ==
  ASSUME TypeOK, NEW s \in Scheduler, NEW ti \in TI
  PROVE  /\ Refused(s, ti) \in Section
         /\ Failed(s, ti) \in Section
         /\ Accepted(s, ti) \in Section
<1>0. cs[s] \in Section  BY DEF TypeOK
<1>1. Refused(s, ti) \in Section
  <2>1. Obstacle(s, ti) \in Pool \cup Dag \cup Task  BY NamesType DEF Obstacle
  <2> QED  BY <1>0, <2>1 DEF Refused, Section
<1>2. Failed(s, ti) \in Section
  <2>1. InDag(Scheduled, DagName(ti)) \subseteq TI  BY DEF InDag, Scheduled
  <2> QED  BY <1>0, <2>1 DEF Failed, Section
<1>3. Accepted(s, ti) \in Section
  <2> DEFINE open == [cs[s].open EXCEPT ![PoolName(ti)] = @ - Slots[TaskOf[ti]]]
             active == [cs[s].active EXCEPT ![DagName(ti)] = @ + 1]
             concurrency == [cs[s].concurrency EXCEPT ![TaskOf[ti]] = @ + 1]
  <2>1. open \in [Pool -> Int]  BY <1>0, NamesType DEF Section
  <2>2. active \in [Dag -> Nat]  BY <1>0, NamesType DEF Section
  <2>3. concurrency \in [Task -> Nat]  BY <1>0, NamesType DEF Section
  <2>4. Accepted(s, ti) = [cs[s] EXCEPT !.batch = @ \ {ti}, !.chosen = @ \cup {ti},
                             !.open = open, !.active = active,
                             !.concurrency = concurrency]
    BY <1>0 DEF Accepted, Section
  <2> HIDE DEF open, active, concurrency
  <2>5. [cs[s] EXCEPT !.batch = @ \ {ti}, !.chosen = @ \cup {ti}, !.open = open,
                      !.active = active, !.concurrency = concurrency] \in Section
    BY <1>0, <2>1, <2>2, <2>3 DEF Section
  <2> QED  BY <2>4, <2>5
<1> QED  BY <1>1, <1>2, <1>3

LEMMA SectionStepType ==
  ASSUME TypeOK, NEW s \in Scheduler, SectionStep(s)
  PROVE  TypeOK'
<1>0. UnchangedMetadata /\ lock' \in Scheduler \cup {NoScheduler}
        /\ cs' \in [Scheduler -> Section] => TypeOK'
  BY DEF TypeOK, UnchangedMetadata
<1>1. CASE ReadPools(s)
  BY <1>0, <1>1, PoolsReadType, SectionUpdate DEF ReadPools
<1>2. CASE ReadConcurrencyMaps(s)
  BY <1>0, <1>2, MapsReadType, SectionUpdate DEF ReadConcurrencyMaps, TypeOK
<1>3. CASE SelectBatch(s)
  <2>1. PICK B \in SUBSET Candidates(s) : Becomes(s, Selected(s, B))
    BY <1>3 DEF SelectBatch, NotStarved
  <2> QED  BY <1>0, <1>3, <2>1, SelectedType, SectionUpdate DEF SelectBatch, TypeOK
<1>4. CASE Examine(s)
  <2>1. PICK ti \in cs[s].batch : Refuse(s, ti) \/ FailMissing(s, ti) \/ Accept(s, ti)
    BY <1>4 DEF Examine
  <2>2. ti \in TI  BY DEF TypeOK, Section
  <2>3. UNCHANGED lock /\ UnchangedMetadata  BY <1>4 DEF Examine
  <2>4. PICK r \in Section : Becomes(s, r)
    BY <2>1, <2>2, ExaminedType DEF Refuse, FailMissing, Accept
  <2> QED  BY <1>0, <2>3, <2>4, SectionUpdate DEF TypeOK
<1>5. CASE EndPass(s)
  <2> DEFINE pc == IF IsDone(s) \/ ~cs[s].grew THEN "update" ELSE "select"
  <2>0. cs[s] \in Section /\ pc \in {"update", "select"}  BY DEF TypeOK
  <2>1. [cs[s] EXCEPT !.pc = pc] \in Section
    <3> HIDE DEF pc
    <3> QED  BY <2>0 DEF Section
  <2> QED  BY <1>0, <1>5, <2>1, SectionUpdate DEF EndPass, TypeOK
<1>6. CASE Commit(s)
  <2>1. cs' \in [Scheduler -> Section]  BY <1>6, IdleType, SectionUpdate DEF Commit
  <2>2. state' \in [TI -> TaskInstanceState]
    BY <1>6 DEF Commit, TypeOK, TaskInstanceState
  <2> QED  BY <1>6, <2>1, <2>2 DEF Commit, TypeOK
<1>7. CASE Rollback(s)
  BY <1>0, <1>7, IdleType, SectionUpdate DEF Rollback
<1> QED
  BY <1>1, <1>2, <1>3, <1>4, <1>5, <1>6, <1>7 DEF SectionStep

\* The rest of the system keeps the types.
LEMMA SystemStepType ==
  ASSUME TypeOK,
         \/ \E ti \in TI : TaskStep(ti)
         \/ \E r \in Run : TimeOutRun(r)
         \/ \E p \in Pool : CreatePool(p) \/ ResizePool(p) \/ DeletePool(p)
         \/ \E d \in Unstable : TogglePause(d) \/ ToggleSerialized(d)
  PROVE  TypeOK'
<1>1. ASSUME NEW ti \in TI, TaskStep(ti) PROVE TypeOK'
  <2>1. PICK to \in TaskInstanceState, from \in SUBSET TaskInstanceState :
            SetState(ti, from, to)
    BY <1>1 DEF TaskStep, ScheduleTi, StartTi, RescheduleTi, EndTi, ErrorTi,
                TaskInstanceState, SCHEDULEABLE_STATES
  <2> QED  BY <2>1 DEF SetState, TypeOK
<1>2. ASSUME NEW r \in Run, TimeOutRun(r) PROVE TypeOK'
  BY <1>2 DEF TimeOutRun, TypeOK, TaskInstanceState, DagRunState
<1>3. ASSUME NEW p \in Pool, CreatePool(p) \/ ResizePool(p) PROVE TypeOK'
  BY <1>3, SchedulerAssumption DEF CreatePool, ResizePool, TypeOK
<1>4. ASSUME NEW p \in Pool, DeletePool(p) PROVE TypeOK'
  BY <1>4 DEF DeletePool, TypeOK
<1>5. ASSUME NEW d \in Unstable, TogglePause(d) \/ ToggleSerialized(d) PROVE TypeOK'
  BY <1>5, SchedulerAssumption DEF TogglePause, ToggleSerialized, TypeOK
<1> QED  BY <1>1, <1>2, <1>3, <1>4, <1>5

\* Every variable keeps its type, whatever the schedulers, workers and users do.
THEOREM TypeCorrect == Spec => []TypeOK
<1>1. TypeOK /\ [Next]_vars => TypeOK'
  <2> SUFFICES ASSUME TypeOK, [Next]_vars PROVE TypeOK'
    OBVIOUS
  <2>1. CASE UNCHANGED vars  BY <2>1 DEF vars, TypeOK
  <2>2. CASE Next  BY <2>2, SectionStepType, SystemStepType DEF Next
  <2> QED  BY <2>1, <2>2
<1> QED  BY <1>1, InitType, PTL DEF Spec

-----------------------------------------------------------------------------
(* The inductive invariant: what a section knows is pessimistic.  Its      *)
(* parts are stated of a section r, the section of some scheduler.         *)

\* Only the holder of the lock has an open section.
LockSafe(s) ==
  /\ cs[s].pc = "idle" => cs[s] = Idle /\ lock # s
  /\ cs[s].pc # "idle" => lock = s

\* What a section examines, has chosen or will fail is locked and SCHEDULED;
\* and it selects again only as long as it has chosen nothing.
RowsSafe(r) ==
  /\ r.rows \subseteq Scheduled
  /\ r.batch \subseteq r.rows
  /\ r.chosen \subseteq r.rows
  /\ r.failing \subseteq r.rows
  /\ r.batch \cap r.chosen = {}
  /\ r.pc \in {"idle", "pools", "select"} => r.chosen = {}

\* What will execute after the COMMIT.
Granted(r) == InExecution \cup r.chosen

\* The pools have at least as many open slots as the section believes.
PoolsSafe(r) ==
  r.pc # "idle" =>
    /\ \A p \in Pool : UsedSlots(Granted(r), p) + r.open[p] <= total[p]
    /\ \A ti \in r.chosen : r.open[PoolName(ti)] >= 0

\* The dags and tasks have at most as many active task instances as it believes.
MapsKnown(r) == r.pc \in {"select", "examine"} \/ r.chosen # {}

DagsSafe(r) ==
  MapsKnown(r) =>
    /\ \A d \in Dag : ActiveInDag(Granted(r), d) <= r.active[d]
    /\ \A ti \in r.chosen :
         r.active[DagName(ti)] <= MaxActiveTasks[DagName(ti)]

TasksSafe(r) ==
  MapsKnown(r) =>
    /\ \A t \in Task : ActiveInTask(Granted(r), t) <= r.concurrency[t]
    /\ \A ti \in r.chosen :
         TaskLimit[TaskOf[ti]] # NoLimit =>
           r.concurrency[TaskOf[ti]] <= TaskLimit[TaskOf[ti]]

SectionSafe(r) == RowsSafe(r) /\ PoolsSafe(r) /\ DagsSafe(r) /\ TasksSafe(r)

Safe(s) == LockSafe(s) /\ SectionSafe(cs[s])

AllSafe == \A s \in Scheduler : Safe(s)

IInv == TypeOK /\ AllSafe

\* A closed section is safe.
LEMMA IdleSafe ==
  ASSUME NEW s \in Scheduler, cs[s] = Idle, lock # s
  PROVE  Safe(s)
<1>1. /\ cs[s].pc = "idle" /\ cs[s].rows = {} /\ cs[s].batch = {}
      /\ cs[s].chosen = {} /\ cs[s].failing = {}
  BY DEF Idle
<1> QED
  BY <1>1 DEF Safe, LockSafe, SectionSafe, RowsSafe, PoolsSafe, DagsSafe,
              TasksSafe, MapsKnown

LEMMA IdleSafeNext ==
  ASSUME NEW s \in Scheduler, cs'[s] = Idle, lock' # s
  PROVE  Safe(s)'
<1>1. /\ cs'[s].pc = "idle" /\ cs'[s].rows = {} /\ cs'[s].batch = {}
      /\ cs'[s].chosen = {} /\ cs'[s].failing = {}
  BY DEF Idle
<1> QED
  BY <1>1 DEF Safe, LockSafe, SectionSafe, RowsSafe, PoolsSafe, DagsSafe,
              TasksSafe, MapsKnown

\* A section stays safe while others only release slots, or add some, and leave
\* its rows alone.
LEMMA StableSafe ==
  ASSUME NEW s \in Scheduler, TypeOK, Safe(s),
         cs'[s] = cs[s], lock' = s <=> lock = s,
         total' \in [Pool -> Nat], \A p \in Pool : total[p] <= total'[p],
         InExecution' \subseteq InExecution,
         cs[s].rows \subseteq Scheduled'
  PROVE  Safe(s)'
<1>1. cs[s].chosen \subseteq TI /\ InExecution \subseteq TI
  BY InExecutionType DEF TypeOK, Section
<1>2. Granted(cs[s])' \subseteq Granted(cs[s]) /\ Granted(cs[s]) \in SUBSET TI
  BY <1>1 DEF Granted
<1>3. LockSafe(s)'  BY DEF Safe, LockSafe
<1>4. RowsSafe(cs[s])'  BY DEF Safe, SectionSafe, RowsSafe
<1>5. MapsKnown(cs[s])' <=> MapsKnown(cs[s])  BY DEF MapsKnown
<1>6. cs[s] \in Section /\ total \in [Pool -> Nat]  BY DEF TypeOK
<1>7. PoolsSafe(cs[s])'
  <2>1. SUFFICES ASSUME cs[s].pc # "idle", NEW p \in Pool
                 PROVE  UsedSlots(Granted(cs[s])', p) + cs[s].open[p] <= total'[p]
    BY DEF Safe, SectionSafe, PoolsSafe
  <2>2. UsedSlots(Granted(cs[s]), p) + cs[s].open[p] <= total[p]
    BY <2>1 DEF Safe, SectionSafe, PoolsSafe
  <2>3. UsedSlots(Granted(cs[s])', p) <= UsedSlots(Granted(cs[s]), p)
    BY <1>2, UsedMonotone
  <2>4. /\ UsedSlots(Granted(cs[s])', p) \in Nat /\ UsedSlots(Granted(cs[s]), p) \in Nat
        /\ cs[s].open[p] \in Int /\ total[p] \in Nat /\ total'[p] \in Nat
        /\ total[p] <= total'[p]
    BY <1>2, <1>6, OccupiedFinite DEF Section
  <2> QED  BY <2>2, <2>3, <2>4
<1>8. DagsSafe(cs[s])'
  <2>1. SUFFICES ASSUME MapsKnown(cs[s]), NEW d \in Dag
                 PROVE  ActiveInDag(Granted(cs[s])', d) <= cs[s].active[d]
    BY <1>5 DEF Safe, SectionSafe, DagsSafe
  <2>2. ActiveInDag(Granted(cs[s]), d) <= cs[s].active[d]
    BY <2>1 DEF Safe, SectionSafe, DagsSafe
  <2>3. ActiveInDag(Granted(cs[s])', d) <= ActiveInDag(Granted(cs[s]), d)
    BY <1>2, ActiveMonotone
  <2>4. /\ ActiveInDag(Granted(cs[s])', d) \in Nat /\ ActiveInDag(Granted(cs[s]), d) \in Nat
        /\ cs[s].active[d] \in Nat
    BY <1>2, <1>6, ActiveFinite DEF Section
  <2> QED  BY <2>2, <2>3, <2>4
<1>9. TasksSafe(cs[s])'
  <2>1. SUFFICES ASSUME MapsKnown(cs[s]), NEW t \in Task
                 PROVE  ActiveInTask(Granted(cs[s])', t) <= cs[s].concurrency[t]
    BY <1>5 DEF Safe, SectionSafe, TasksSafe
  <2>2. ActiveInTask(Granted(cs[s]), t) <= cs[s].concurrency[t]
    BY <2>1 DEF Safe, SectionSafe, TasksSafe
  <2>3. ActiveInTask(Granted(cs[s])', t) <= ActiveInTask(Granted(cs[s]), t)
    BY <1>2, ActiveMonotone
  <2>4. /\ ActiveInTask(Granted(cs[s])', t) \in Nat
        /\ ActiveInTask(Granted(cs[s]), t) \in Nat
        /\ cs[s].concurrency[t] \in Nat
    BY <1>2, <1>6, ActiveFinite DEF Section
  <2> QED  BY <2>2, <2>3, <2>4
<1> QED  BY <1>3, <1>4, <1>7, <1>8, <1>9 DEF Safe, SectionSafe

\* Nobody else's step takes a slot, or touches a row that a section has locked.
LEMMA SystemStepReleases ==
  ASSUME TypeOK,
         \/ \E ti \in TI : TaskStep(ti)
         \/ \E r \in Run : TimeOutRun(r)
         \/ \E d \in Unstable : TogglePause(d) \/ ToggleSerialized(d)
  PROVE  /\ UNCHANGED <<total, lock, cs>>
         /\ InExecution' \subseteq InExecution
         /\ \A s \in Scheduler :
              cs[s].rows \subseteq Scheduled => cs[s].rows \subseteq Scheduled'
         /\ \A ti \in TI : state'[ti] = "queued" => state[ti] = "queued"
<1>2. CASE \E ti \in TI : TaskStep(ti)
  <2>1. PICK ti \in TI : TaskStep(ti)  BY <1>2
  <2>2. PICK from \in SUBSET TaskInstanceState, to \in TaskInstanceState :
          /\ SetState(ti, from, to)
          /\ to # "queued"
          /\ to \in EXECUTION_STATES => from \subseteq EXECUTION_STATES
    BY <2>1 DEF TaskStep, ScheduleTi, StartTi, RescheduleTi, EndTi, ErrorTi,
                TaskInstanceState, SCHEDULEABLE_STATES, EXECUTION_STATES
  <2>3. /\ UNCHANGED <<total, lock, cs>> /\ ti \notin LockedBy(Scheduler)
        /\ state[ti] \in from
    BY <2>2 DEF SetState, Free
  <2>4. \A u \in TI : state'[u] = IF u = ti THEN to ELSE state[u]
    BY <2>2 DEF TypeOK, SetState
  <2>5. InExecution' \subseteq InExecution  BY <2>2, <2>3, <2>4 DEF InExecution
  <2>6. ASSUME NEW s \in Scheduler, cs[s].rows \subseteq Scheduled
        PROVE  cs[s].rows \subseteq Scheduled'
    <3>1. ti \notin cs[s].rows  BY <2>3 DEF LockedBy
    <3> QED  BY <2>4, <2>6, <3>1 DEF Scheduled
  <2> QED  BY <2>2, <2>3, <2>4, <2>5, <2>6
<1>3. CASE \E r \in Run : TimeOutRun(r)
  <2>1. PICK r \in Run : TimeOutRun(r)  BY <1>3
  <2> QED
    BY <2>1 DEF TimeOutRun, TypeOK, InExecution, Scheduled, LockedBy, Free,
                EXECUTION_STATES, UNFINISHED_STATES, UNFINISHED_IN_SQL
<1>4. CASE \E d \in Unstable : TogglePause(d) \/ ToggleSerialized(d)
  BY <1>4 DEF TogglePause, ToggleSerialized, InExecution, Scheduled
<1> QED  BY <1>2, <1>3, <1>4

\* A writer of a pool row waits until no section is open; an insert only adds slots.
LEMMA PoolStepGrowsOrWaits ==
  ASSUME TypeOK, NEW q \in Pool, CreatePool(q) \/ ResizePool(q) \/ DeletePool(q)
  PROVE  /\ UNCHANGED <<state, lock, cs>>
         /\ lock = NoScheduler \/ \A p \in Pool : total[p] <= total'[p]
<1>1. CASE CreatePool(q)
  <2>1. PICK n \in PoolSizes : total' = [total EXCEPT ![q] = n]
    BY <1>1 DEF CreatePool
  <2>2. total[q] = 0  BY <1>1 DEF CreatePool, TypeOK
  <2>3. n \in Nat  BY SchedulerAssumption
  <2>4. \A p \in Pool : total[p] <= total'[p]
    BY <2>1, <2>2, <2>3 DEF TypeOK
  <2> QED  BY <1>1, <2>4 DEF CreatePool
<1>2. CASE ResizePool(q) \/ DeletePool(q)  BY <1>2 DEF ResizePool, DeletePool
<1> QED  BY <1>1, <1>2

LEMMA SystemStepSafe ==
  ASSUME IInv,
         \/ \E ti \in TI : TaskStep(ti)
         \/ \E r \in Run : TimeOutRun(r)
         \/ \E p \in Pool : CreatePool(p) \/ ResizePool(p) \/ DeletePool(p)
         \/ \E d \in Unstable : TogglePause(d) \/ ToggleSerialized(d)
  PROVE  AllSafe'
<1> SUFFICES ASSUME NEW s \in Scheduler PROVE Safe(s)'
  BY DEF AllSafe
<1>1. TypeOK /\ Safe(s)  BY DEF IInv, AllSafe
<1>2. cs[s].rows \subseteq Scheduled  BY <1>1 DEF Safe, SectionSafe, RowsSafe
<1>3. CASE \E p \in Pool : CreatePool(p) \/ ResizePool(p) \/ DeletePool(p)
  <2>1. /\ UNCHANGED <<state, lock, cs>>
        /\ lock = NoScheduler \/ \A p \in Pool : total[p] <= total'[p]
    BY <1>1, <1>3, PoolStepGrowsOrWaits
  <2>2. CASE lock = NoScheduler
    <3>1. cs[s] = Idle  BY <1>1, <2>2, SchedulerAssumption DEF Safe, LockSafe
    <3>2. cs'[s] = Idle /\ lock' # s  BY <2>1, <2>2, <3>1, SchedulerAssumption
    <3> QED  BY <3>2, IdleSafeNext
  <2>3. CASE \A p \in Pool : total[p] <= total'[p]
    <3>1. total' \in [Pool -> Nat]  BY <1>1, <1>3, SystemStepType DEF TypeOK
    <3>2. InExecution' \subseteq InExecution /\ Scheduled' = Scheduled
      BY <2>1 DEF InExecution, Scheduled
    <3> QED  BY <1>1, <1>2, <2>1, <2>3, <3>1, <3>2, StableSafe
  <2> QED  BY <2>1, <2>2, <2>3
<1>4. CASE \/ \E ti \in TI : TaskStep(ti)
           \/ \E r \in Run : TimeOutRun(r)
           \/ \E d \in Unstable : TogglePause(d) \/ ToggleSerialized(d)
  <2>1. /\ UNCHANGED <<total, lock, cs>>
        /\ InExecution' \subseteq InExecution
        /\ cs[s].rows \subseteq Scheduled'
    BY <1>1, <1>2, <1>4, SystemStepReleases
  <2>2. total' \in [Pool -> Nat] /\ \A p \in Pool : total[p] <= total'[p]
    BY <1>1, <2>1 DEF TypeOK
  <2> QED  BY <1>1, <2>1, <2>2, StableSafe
<1> QED  BY <1>3, <1>4

-----------------------------------------------------------------------------
(* The steps of a section keep it safe.                                    *)

\* Reading the pools opens a section that knows exactly what is free.
LEMMA PoolsReadSafe ==
  ASSUME TypeOK, NEW s \in Scheduler, cs[s] = Idle
  PROVE  SectionSafe(PoolsRead(s))
<1> DEFINE r == PoolsRead(s)
<1>1. cs[s] \in Section  BY DEF TypeOK
<1>2. /\ r.rows = {} /\ r.batch = {} /\ r.chosen = {} /\ r.failing = {}
      /\ r.pc \in {"pools", "update"} /\ r.open = OpenSlots
  BY <1>1 DEF PoolsRead, Section, Idle
<1>3. ASSUME NEW p \in Pool
      PROVE  UsedSlots(InExecution, p) + OpenSlots[p] <= total[p]
  <2>1. OpenSlots[p] = total[p] - UsedSlots(InExecution, p)  BY DEF OpenSlots
  <2>2. total[p] \in Nat /\ UsedSlots(InExecution, p) \in Nat
    BY InExecutionType, OccupiedFinite DEF TypeOK
  <2> QED  BY <2>1, <2>2
<1> HIDE DEF r
<1>4. Granted(r) = InExecution  BY <1>2 DEF Granted
<1> QED
  BY <1>2, <1>3, <1>4
  DEF r, SectionSafe, RowsSafe, PoolsSafe, DagsSafe, TasksSafe, MapsKnown

\* Reading the maps counts exactly what is active.
LEMMA MapsReadSafe ==
  ASSUME TypeOK, NEW s \in Scheduler, SectionSafe(cs[s]), cs[s].pc = "pools"
  PROVE  SectionSafe(MapsRead(s))
<1> DEFINE r == MapsRead(s)
<1>1. cs[s] \in Section  BY DEF TypeOK
<1>2. /\ r.rows = cs[s].rows /\ r.batch = cs[s].batch
      /\ r.chosen = cs[s].chosen /\ r.open = cs[s].open /\ r.pc = "select"
      /\ r.failing = cs[s].failing
      /\ r.active = [d \in Dag |-> ActiveInDag(InExecution, d)]
      /\ r.concurrency = [t \in Task |-> ActiveInTask(InExecution, t)]
  BY <1>1 DEF MapsRead, Section
<1> HIDE DEF r
<1>3. cs[s].chosen = {}  BY DEF SectionSafe, RowsSafe
<1>4. Granted(r) = InExecution /\ Granted(cs[s]) = InExecution
  BY <1>2, <1>3 DEF Granted
<1>5. /\ \A d \in Dag : ActiveInDag(InExecution, d) \in Nat
      /\ \A t \in Task : ActiveInTask(InExecution, t) \in Nat
  BY InExecutionType, ActiveFinite
<1>6. RowsSafe(r)  BY <1>2, <1>3 DEF SectionSafe, RowsSafe
<1>7. PoolsSafe(r)  BY <1>2, <1>4 DEF SectionSafe, PoolsSafe
<1>8. DagsSafe(r)  BY <1>2, <1>3, <1>4, <1>5 DEF DagsSafe
<1>9. TasksSafe(r)  BY <1>2, <1>3, <1>4, <1>5 DEF TasksSafe
<1> QED  BY <1>6, <1>7, <1>8, <1>9 DEF r, SectionSafe

\* A step that neither chooses nor counts changes no belief.
LEMMA SameCounts ==
  ASSUME NEW q, NEW r, SectionSafe(q), q.pc # "idle",
         r.chosen = q.chosen, r.open = q.open, r.active = q.active,
         r.concurrency = q.concurrency, MapsKnown(r) => MapsKnown(q)
  PROVE  PoolsSafe(r) /\ DagsSafe(r) /\ TasksSafe(r)
BY DEF SectionSafe, PoolsSafe, DagsSafe, TasksSafe, Granted

LEMMA SelectedSafe ==
  ASSUME TypeOK, NEW s \in Scheduler, SectionSafe(cs[s]), cs[s].pc = "select",
         NEW B \in SUBSET Candidates(s)
  PROVE  SectionSafe(Selected(s, B))
<1> DEFINE r == Selected(s, B)
<1>1. cs[s] \in Section  BY DEF TypeOK
<1>2. /\ r.rows = cs[s].rows \cup B /\ r.batch = B /\ r.chosen = cs[s].chosen
      /\ r.open = cs[s].open /\ r.active = cs[s].active
      /\ r.concurrency = cs[s].concurrency /\ r.pc \in {"update", "examine"}
      /\ r.failing = cs[s].failing
  BY <1>1 DEF Selected, Section
<1> HIDE DEF r
<1>3. cs[s].chosen = {}  BY DEF SectionSafe, RowsSafe
<1>4. RowsSafe(r)  BY <1>2, <1>3, CandidatesType DEF SectionSafe, RowsSafe
<1> QED  BY <1>2, <1>4, SameCounts DEF r, SectionSafe, MapsKnown

LEMMA RefusedSafe ==
  ASSUME TypeOK, NEW s \in Scheduler, SectionSafe(cs[s]), cs[s].pc = "examine",
         NEW ti \in cs[s].batch
  PROVE  SectionSafe(Refused(s, ti))
<1> DEFINE r == Refused(s, ti)
<1>1. cs[s] \in Section  BY DEF TypeOK
<1>2. /\ r.rows = cs[s].rows /\ r.batch = cs[s].batch \ {ti}
      /\ r.chosen = cs[s].chosen /\ r.open = cs[s].open
      /\ r.active = cs[s].active /\ r.concurrency = cs[s].concurrency
      /\ r.failing = cs[s].failing /\ r.pc = "examine"
  BY <1>1 DEF Refused, Section
<1> HIDE DEF r
<1>3. RowsSafe(r)  BY <1>2 DEF SectionSafe, RowsSafe
<1> QED  BY <1>2, <1>3, SameCounts DEF r, SectionSafe, MapsKnown

LEMMA FailedSafe ==
  ASSUME TypeOK, NEW s \in Scheduler, SectionSafe(cs[s]), cs[s].pc = "examine",
         NEW ti \in cs[s].batch
  PROVE  SectionSafe(Failed(s, ti))
<1> DEFINE r == Failed(s, ti)
           lost == InDag(Scheduled, DagName(ti))
<1>1. cs[s] \in Section  BY DEF TypeOK
<1>2. /\ r.rows = cs[s].rows \cup lost /\ r.batch = cs[s].batch \ {ti}
      /\ r.chosen = cs[s].chosen /\ r.open = cs[s].open
      /\ r.active = cs[s].active /\ r.concurrency = cs[s].concurrency
      /\ r.failing = cs[s].failing \cup lost /\ r.pc = "examine"
  BY <1>1 DEF Failed, Section
<1>3. lost \subseteq Scheduled  BY DEF InDag
<1> HIDE DEF r, lost
<1>4. RowsSafe(r)  BY <1>2, <1>3 DEF SectionSafe, RowsSafe
<1> QED  BY <1>2, <1>4, SameCounts DEF r, SectionSafe, MapsKnown

LEMMA EndPassSafe ==
  ASSUME TypeOK, NEW s \in Scheduler, SectionSafe(cs[s]), cs[s].pc = "examine",
         NEW pc \in {"update", "select"}, pc = "select" => cs[s].chosen = {}
  PROVE  SectionSafe([cs[s] EXCEPT !.pc = pc])
<1> DEFINE r == [cs[s] EXCEPT !.pc = pc]
<1>1. cs[s] \in Section  BY DEF TypeOK
<1>2. /\ r.rows = cs[s].rows /\ r.batch = cs[s].batch
      /\ r.chosen = cs[s].chosen /\ r.open = cs[s].open
      /\ r.active = cs[s].active /\ r.concurrency = cs[s].concurrency
      /\ r.failing = cs[s].failing /\ r.pc = pc
  BY <1>1 DEF Section
<1> HIDE DEF r
<1>3. RowsSafe(r)  BY <1>2 DEF SectionSafe, RowsSafe
<1> QED  BY <1>2, <1>3, SameCounts DEF r, SectionSafe, MapsKnown

\* Accepting a task instance pays for it: what is left open in its pool, and the
\* counts of its dag and task, still bound what will execute after the COMMIT.
LEMMA AcceptedSafe ==
  ASSUME TypeOK, NEW s \in Scheduler, SectionSafe(cs[s]), cs[s].pc = "examine",
         NEW ti \in cs[s].batch, HasRoom(s, ti), ~TaskFull(s, ti)
  PROVE  SectionSafe(Accepted(s, ti))
<1> DEFINE q == cs[s]
           r == Accepted(s, ti)
           n == Slots[TaskOf[ti]]
<1>1. q \in Section  BY DEF TypeOK
<1>2. /\ r.rows = q.rows /\ r.batch = q.batch \ {ti} /\ r.chosen = q.chosen \cup {ti}
      /\ r.failing = q.failing /\ r.pc = "examine"
      /\ r.open = [q.open EXCEPT ![PoolName(ti)] = @ - n]
      /\ r.active = [q.active EXCEPT ![DagName(ti)] = @ + 1]
      /\ r.concurrency = [q.concurrency EXCEPT ![TaskOf[ti]] = @ + 1]
  BY <1>1 DEF Accepted, Section
<1>3. /\ q.open \in [Pool -> Int] /\ q.active \in [Dag -> Nat]
      /\ q.concurrency \in [Task -> Nat] /\ q.chosen \subseteq TI /\ ti \in TI
  BY <1>1 DEF Section
<1>4. /\ PoolName(ti) \in Pool /\ DagName(ti) \in Dag /\ TaskOf[ti] \in Task
      /\ n \in Nat
  BY <1>3, NamesType
<1>5. SectionSafe(q) /\ q.pc = "examine" /\ ti \in q.batch  OBVIOUS
<1>6. total \in [Pool -> Nat]  BY DEF TypeOK
<1>7. q.open[PoolName(ti)] >= n
  <2>1. ~(Slots[TaskOf[ti]] > cs[s].open[PoolName(ti)])  BY DEF HasRoom, TooWide
  <2> HIDE DEF r
  <2> QED  BY <1>3, <1>4, <2>1
<1>8. q.active[DagName(ti)] + 1 <= MaxActiveTasks[DagName(ti)]
  <2>1. ~(cs[s].active[DagName(ti)] >= MaxActiveTasks[DagName(ti)])
    BY DEF HasRoom, DagFull
  <2>2. MaxActiveTasks[DagName(ti)] \in Nat  BY <1>3, NamesType
  <2> HIDE DEF r, n
  <2> QED  BY <1>3, <1>4, <2>1, <2>2
<1>9. TaskLimit[TaskOf[ti]] # NoLimit =>
        q.concurrency[TaskOf[ti]] + 1 <= TaskLimit[TaskOf[ti]]
  <2>1. SUFFICES ASSUME TaskLimit[TaskOf[ti]] # NoLimit
                 PROVE  q.concurrency[TaskOf[ti]] + 1 <= TaskLimit[TaskOf[ti]]
    OBVIOUS
  <2>2. ~(cs[s].concurrency[TaskOf[ti]] >= TaskLimit[TaskOf[ti]])
    BY <2>1 DEF TaskFull
  <2>3. TaskLimit[TaskOf[ti]] \in Nat  BY <1>4, <2>1, MetadataAssumption
  <2> HIDE DEF r, n
  <2> QED  BY <1>3, <1>4, <2>2, <2>3
<1> HIDE DEF q, r, n
<1>10. Granted(r) = Granted(q) \cup {ti} /\ Granted(q) \in SUBSET TI
  BY <1>2, <1>3, InExecutionType DEF Granted
<1>11. RowsSafe(r)  BY <1>2, <1>5 DEF SectionSafe, RowsSafe
<1>12. PoolsSafe(r)
  <2>1. ASSUME NEW p \in Pool
        PROVE  UsedSlots(Granted(r), p) + r.open[p] <= total[p]
    <3>1. UsedSlots(Granted(q), p) + q.open[p] <= total[p]
      BY <1>5 DEF SectionSafe, PoolsSafe
    <3>2. /\ UsedSlots(Granted(q), p) \in Nat /\ UsedSlots(Granted(r), p) \in Nat
          /\ q.open[p] \in Int /\ total[p] \in Nat
      BY <1>3, <1>6, <1>10, OccupiedFinite
    <3>3. /\ UsedSlots(Granted(r), p) <= UsedSlots(Granted(q), p) + n
          /\ PoolName(ti) # p => UsedSlots(Granted(r), p) = UsedSlots(Granted(q), p)
      BY <1>3, <1>10, UsedAdd DEF n
    <3>4. CASE PoolName(ti) = p
      <4>1. r.open[p] = q.open[p] - n  BY <1>2, <1>3, <3>4
      <4> QED  BY <1>4, <3>1, <3>2, <3>3, <4>1
    <3>5. CASE PoolName(ti) # p
      <4>1. r.open[p] = q.open[p]  BY <1>2, <1>3, <3>5
      <4> QED  BY <3>1, <3>2, <3>3, <3>5, <4>1
    <3> QED  BY <3>4, <3>5
  <2>2. ASSUME NEW u \in r.chosen  PROVE r.open[PoolName(u)] >= 0
    <3>1. u \in TI  BY <1>2, <1>3
    <3>2. PoolName(u) \in Pool  BY <3>1, NamesType
    <3>3. CASE PoolName(u) = PoolName(ti)
      <4>1. r.open[PoolName(u)] = q.open[PoolName(ti)] - n  BY <1>2, <1>3, <1>4, <3>3
      <4> QED  BY <1>3, <1>4, <1>7, <4>1
    <3>4. CASE PoolName(u) # PoolName(ti)
      <4>1. u \in q.chosen  BY <1>2, <3>4
      <4>2. q.open[PoolName(u)] >= 0  BY <1>5, <4>1 DEF SectionSafe, PoolsSafe
      <4> QED  BY <1>2, <1>3, <3>2, <3>4, <4>2
    <3> QED  BY <3>3, <3>4
  <2> QED  BY <2>1, <2>2 DEF PoolsSafe
<1>13. DagsSafe(r)
  <2>1. ASSUME NEW d \in Dag
        PROVE  ActiveInDag(Granted(r), d) <= r.active[d]
    <3>1. ActiveInDag(Granted(q), d) <= q.active[d]
      BY <1>5 DEF SectionSafe, DagsSafe, MapsKnown
    <3>2. /\ ActiveInDag(Granted(q), d) \in Nat /\ ActiveInDag(Granted(r), d) \in Nat
          /\ q.active[d] \in Nat
      BY <1>3, <1>10, ActiveFinite
    <3>3. /\ ActiveInDag(Granted(r), d) <= ActiveInDag(Granted(q), d) + 1
          /\ DagName(ti) # d => ActiveInDag(Granted(r), d) = ActiveInDag(Granted(q), d)
      <4>1. PICK S \in SUBSET TI : S = Granted(q) /\ Granted(r) = S \cup {ti}
        BY <1>3, <1>10
      <4>2. ti \in TI  BY <1>3
      <4> HIDE DEF r, q
      <4>3. /\ ActiveInDag(S \cup {ti}, d) <= ActiveInDag(S, d) + 1
            /\ DagName(ti) # d => ActiveInDag(S \cup {ti}, d) = ActiveInDag(S, d)
        BY <4>2, ActiveAdd
      <4> QED  BY <4>1, <4>3
    <3>4. r.active[d] = IF d = DagName(ti) THEN q.active[d] + 1 ELSE q.active[d]
      BY <1>2, <1>3
    <3> QED  BY <3>1, <3>2, <3>3, <3>4
  <2>2. ASSUME NEW u \in r.chosen
        PROVE  r.active[DagName(u)] <= MaxActiveTasks[DagName(u)]
    <3>1. u \in TI  BY <1>2, <1>3
    <3>2. DagName(u) \in Dag  BY <3>1, NamesType
    <3>3. CASE DagName(u) = DagName(ti)
      <4>1. r.active[DagName(u)] = q.active[DagName(ti)] + 1  BY <1>2, <1>3, <1>4, <3>3
      <4> QED  BY <1>8, <3>3, <4>1
    <3>4. CASE DagName(u) # DagName(ti)
      <4>1. u \in q.chosen  BY <1>2, <3>4
      <4>2. q.active[DagName(u)] <= MaxActiveTasks[DagName(u)]
        BY <1>5, <4>1 DEF SectionSafe, DagsSafe, MapsKnown
      <4> QED  BY <1>2, <1>3, <3>2, <3>4, <4>2
    <3> QED  BY <3>3, <3>4
  <2> QED  BY <2>1, <2>2 DEF DagsSafe
<1>14. TasksSafe(r)
  <2>1. ASSUME NEW t \in Task
        PROVE  ActiveInTask(Granted(r), t) <= r.concurrency[t]
    <3>1. ActiveInTask(Granted(q), t) <= q.concurrency[t]
      BY <1>5 DEF SectionSafe, TasksSafe, MapsKnown
    <3>2. /\ ActiveInTask(Granted(q), t) \in Nat /\ ActiveInTask(Granted(r), t) \in Nat
          /\ q.concurrency[t] \in Nat
      BY <1>3, <1>10, ActiveFinite
    <3>3. /\ ActiveInTask(Granted(r), t) <= ActiveInTask(Granted(q), t) + 1
          /\ TaskOf[ti] # t => ActiveInTask(Granted(r), t) = ActiveInTask(Granted(q), t)
      <4>1. PICK S \in SUBSET TI : S = Granted(q) /\ Granted(r) = S \cup {ti}
        BY <1>3, <1>10
      <4>2. ti \in TI  BY <1>3
      <4> HIDE DEF r, q
      <4>3. /\ ActiveInTask(S \cup {ti}, t) <= ActiveInTask(S, t) + 1
            /\ TaskOf[ti] # t => ActiveInTask(S \cup {ti}, t) = ActiveInTask(S, t)
        BY <4>2, ActiveAdd
      <4> QED  BY <4>1, <4>3
    <3>4. r.concurrency[t] =
            IF t = TaskOf[ti] THEN q.concurrency[t] + 1 ELSE q.concurrency[t]
      BY <1>2, <1>3
    <3> QED  BY <3>1, <3>2, <3>3, <3>4
  <2>2. ASSUME NEW u \in r.chosen, TaskLimit[TaskOf[u]] # NoLimit
        PROVE  r.concurrency[TaskOf[u]] <= TaskLimit[TaskOf[u]]
    <3>1. u \in TI  BY <1>2, <1>3
    <3>2. TaskOf[u] \in Task  BY <3>1, NamesType
    <3>3. CASE TaskOf[u] = TaskOf[ti]
      <4>1. r.concurrency[TaskOf[u]] = q.concurrency[TaskOf[ti]] + 1
        BY <1>2, <1>3, <1>4, <3>3
      <4> QED  BY <1>9, <2>2, <3>3, <4>1
    <3>4. CASE TaskOf[u] # TaskOf[ti]
      <4>1. u \in q.chosen  BY <1>2, <3>4
      <4>2. q.concurrency[TaskOf[u]] <= TaskLimit[TaskOf[u]]
        BY <1>5, <2>2, <4>1 DEF SectionSafe, TasksSafe, MapsKnown
      <4> QED  BY <1>2, <1>3, <3>2, <3>4, <4>2
    <3> QED  BY <3>3, <3>4
  <2> QED  BY <2>1, <2>2 DEF TasksSafe
<1> QED  BY <1>11, <1>12, <1>13, <1>14 DEF r, SectionSafe

-----------------------------------------------------------------------------
(* Every step keeps the invariant.                                         *)

\* A section in the state of the metadata it was built in is safe.
LEMMA OpenSafeNext ==
  ASSUME NEW s \in Scheduler, NEW r, SectionSafe(r), r.pc # "idle",
         cs'[s] = r, lock' = s, UNCHANGED <<state, total>>
  PROVE  Safe(s)'
<1>1. InExecution' = InExecution /\ Scheduled' = Scheduled
  BY DEF InExecution, Scheduled
<1>2. /\ RowsSafe(cs[s])' <=> RowsSafe(r)
      /\ PoolsSafe(cs[s])' <=> PoolsSafe(r)
      /\ DagsSafe(cs[s])' <=> DagsSafe(r)
      /\ TasksSafe(cs[s])' <=> TasksSafe(r)
  BY <1>1 DEF RowsSafe, PoolsSafe, DagsSafe, TasksSafe, MapsKnown, Granted
<1>3. LockSafe(s)'  BY DEF LockSafe
<1> QED  BY <1>2, <1>3 DEF Safe, SectionSafe

\* While s holds the lock, or takes or drops it, all other sections are closed.
LEMMA OthersSafeNext ==
  ASSUME AllSafe, NEW s \in Scheduler, lock \in {s, NoScheduler},
         lock' \in {s, NoScheduler}, NEW q \in Scheduler \ {s}, cs'[q] = cs[q]
  PROVE  Safe(q)'
<1>1. LockSafe(q)  BY DEF AllSafe, Safe
<1>2. lock # q /\ lock' # q  BY SchedulerAssumption
<1>3. cs[q] = Idle  BY <1>1, <1>2 DEF LockSafe
<1> QED  BY <1>2, <1>3, IdleSafeNext

LEMMA SectionStepSafe ==
  ASSUME IInv, NEW s \in Scheduler, SectionStep(s)
  PROVE  AllSafe'
<1>1. TypeOK /\ AllSafe /\ Safe(s)  BY DEF IInv, AllSafe
<1>2. SectionSafe(cs[s]) /\ LockSafe(s)  BY <1>1 DEF Safe
<1>3. ASSUME NEW r \in Section, Becomes(s, r), lock \in {s, NoScheduler},
             lock' \in {s, NoScheduler}, Safe(s)'
      PROVE  AllSafe'
  <2>1. ASSUME NEW q \in Scheduler \ {s} PROVE Safe(q)'
    BY <1>1, <1>3, OthersSafeNext, SectionUpdate
  <2> QED  BY <1>3, <2>1 DEF AllSafe
<1>4. ASSUME NEW r \in Section, Becomes(s, r), SectionSafe(r), r.pc # "idle",
             lock \in {s, NoScheduler}, lock' = s, UnchangedMetadata
      PROVE  AllSafe'
  <2>1. cs'[s] = r  BY <1>1, <1>4, SectionUpdate
  <2>2. Safe(s)'  BY <1>4, <2>1, OpenSafeNext DEF UnchangedMetadata
  <2> QED  BY <1>3, <1>4, <2>2
<1>5. ASSUME Becomes(s, Idle), cs[s].pc # "idle", lock' = NoScheduler
      PROVE  AllSafe'
  <2>1. lock = s  BY <1>2, <1>5 DEF LockSafe
  <2>2. cs'[s] = Idle /\ lock' # s
    BY <1>1, <1>5, IdleType, SectionUpdate, SchedulerAssumption
  <2>3. Safe(s)'  BY <2>2, IdleSafeNext
  <2> QED  BY <1>3, <1>5, <2>1, <2>3, IdleType
<1>6. CASE ReadPools(s)
  <2>1. cs[s] = Idle  BY <1>2, <1>6 DEF ReadPools, LockSafe
  <2>2. PoolsRead(s) \in Section /\ SectionSafe(PoolsRead(s))
    BY <1>1, <2>1, PoolsReadType, PoolsReadSafe
  <2>3. PoolsRead(s).pc # "idle"  BY <1>1 DEF TypeOK, PoolsRead, Section
  <2> QED  BY <1>4, <1>6, <2>2, <2>3 DEF ReadPools
<1>7. CASE ReadConcurrencyMaps(s)
  <2>1. lock = s  BY <1>2, <1>7 DEF ReadConcurrencyMaps, LockSafe
  <2>2. MapsRead(s) \in Section /\ SectionSafe(MapsRead(s))
    BY <1>1, <1>2, <1>7, MapsReadType, MapsReadSafe DEF ReadConcurrencyMaps
  <2>3. MapsRead(s).pc # "idle"  BY <1>1 DEF TypeOK, MapsRead, Section
  <2> QED  BY <1>4, <1>7, <2>1, <2>2, <2>3 DEF ReadConcurrencyMaps
<1>8. CASE SelectBatch(s)
  <2>1. lock = s  BY <1>2, <1>8 DEF SelectBatch, LockSafe
  <2>2. PICK B \in SUBSET Candidates(s) : Becomes(s, Selected(s, B))
    BY <1>8 DEF SelectBatch, NotStarved
  <2>3. Selected(s, B) \in Section /\ SectionSafe(Selected(s, B))
    BY <1>1, <1>2, <1>8, SelectedType, SelectedSafe DEF SelectBatch
  <2>4. Selected(s, B).pc # "idle"
    <3>1. cs[s] \in Section  BY <1>1 DEF TypeOK
    <3> QED  BY <3>1 DEF Selected, Section
  <2> QED  BY <1>4, <1>8, <2>1, <2>2, <2>3, <2>4 DEF SelectBatch
<1>9. CASE Examine(s)
  <2>1. lock = s /\ cs[s].pc = "examine"  BY <1>2, <1>9 DEF Examine, LockSafe
  <2>2. PICK ti \in cs[s].batch : Refuse(s, ti) \/ FailMissing(s, ti) \/ Accept(s, ti)
    BY <1>9 DEF Examine
  <2>3. cs[s] \in Section  BY <1>1 DEF TypeOK
  <2>4. ti \in TI  BY <2>3 DEF Section
  <2>5. CASE Refuse(s, ti)
    <3>1. Refused(s, ti).pc # "idle"  BY <2>1, <2>3 DEF Refused, Section
    <3> QED
      BY <1>1, <1>2, <1>4, <1>9, <2>1, <2>4, <2>5, <3>1, ExaminedType, RefusedSafe
      DEF Examine, Refuse
  <2>6. CASE FailMissing(s, ti)
    <3>1. Failed(s, ti).pc # "idle"  BY <2>1, <2>3 DEF Failed, Section
    <3> QED
      BY <1>1, <1>2, <1>4, <1>9, <2>1, <2>4, <2>6, <3>1, ExaminedType, FailedSafe
      DEF Examine, FailMissing
  <2>7. CASE Accept(s, ti)
    <3>1. Accepted(s, ti).pc # "idle"  BY <2>1, <2>3 DEF Accepted, Section
    <3> QED
      BY <1>1, <1>2, <1>4, <1>9, <2>1, <2>4, <2>7, <3>1, ExaminedType, AcceptedSafe
      DEF Examine, Accept
  <2> QED  BY <2>2, <2>5, <2>6, <2>7
<1>10. CASE EndPass(s)
  <2> DEFINE pc == IF IsDone(s) \/ ~cs[s].grew THEN "update" ELSE "select"
             r == [cs[s] EXCEPT !.pc = pc]
  <2>1. lock = s /\ cs[s].pc = "examine"  BY <1>2, <1>10 DEF EndPass, LockSafe
  <2>2. pc \in {"update", "select"} /\ (pc = "select" => cs[s].chosen = {})
    BY DEF IsDone
  <2>3. cs[s] \in Section  BY <1>1 DEF TypeOK
  <2>4. Becomes(s, r) /\ UNCHANGED lock /\ UnchangedMetadata  BY <1>10 DEF EndPass
  <2> HIDE DEF pc
  <2>5. r \in Section /\ r.pc # "idle"  BY <2>2, <2>3 DEF Section
  <2>6. SectionSafe(r)  BY <1>1, <1>2, <2>1, <2>2, EndPassSafe
  <2> HIDE DEF r
  <2> QED  BY <1>4, <2>1, <2>4, <2>5, <2>6
<1>11. CASE Commit(s)  BY <1>5, <1>11 DEF Commit
<1>12. CASE Rollback(s)  BY <1>5, <1>12 DEF Rollback
<1> QED
  BY <1>6, <1>7, <1>8, <1>9, <1>10, <1>11, <1>12 DEF SectionStep

LEMMA Invariance == Spec => []IInv
<1>1. Init => IInv
  <2> SUFFICES ASSUME Init PROVE AllSafe
    BY InitType DEF IInv
  <2> SUFFICES ASSUME NEW s \in Scheduler PROVE Safe(s)
    BY DEF AllSafe
  <2> QED  BY IdleSafe, SchedulerAssumption DEF Init
<1>2. IInv /\ [Next]_vars => IInv'
  <2> SUFFICES ASSUME IInv, [Next]_vars PROVE IInv'
    OBVIOUS
  <2>1. CASE UNCHANGED vars
    BY <2>1 DEF vars, IInv, AllSafe, TypeOK, Safe, LockSafe, SectionSafe, RowsSafe,
                PoolsSafe, DagsSafe, TasksSafe, MapsKnown, Granted, InExecution, Scheduled
  <2>2. CASE Next
    BY <2>2, SectionStepType, SystemStepType, SectionStepSafe, SystemStepSafe
    DEF Next, IInv
  <2> QED  BY <2>1, <2>2
<1> QED  BY <1>1, <1>2, PTL DEF Spec

-----------------------------------------------------------------------------
(* The results.                                                            *)

\* What the COMMIT adds to the execution states is what the section chose.
LEMMA CommitQueues ==
  ASSUME IInv, NEW s \in Scheduler, Commit(s)
  PROVE  /\ InExecution' = Granted(cs[s])
         /\ cs[s].chosen \subseteq Scheduled
         /\ cs[s].chosen \cap InExecution = {}
         /\ UNCHANGED total
<1>1. TypeOK /\ SectionSafe(cs[s])  BY DEF IInv, AllSafe, Safe
<1>2. cs[s].chosen \subseteq Scheduled  BY <1>1 DEF SectionSafe, RowsSafe
<1>3. cs[s].chosen \cap InExecution = {}
  BY <1>2 DEF Scheduled, InExecution, EXECUTION_STATES
<1>4. cs[s].failing \cap InExecution = {}
  BY <1>1 DEF SectionSafe, RowsSafe, Scheduled, InExecution, EXECUTION_STATES
<1>5. ASSUME NEW ti \in TI
      PROVE  ti \in InExecution' <=> ti \in Granted(cs[s])
  <2>1. state'[ti] = IF ti \in cs[s].chosen THEN "queued"
                     ELSE IF ti \in cs[s].failing THEN "failed" ELSE state[ti]
    BY DEF Commit
  <2> QED  BY <1>4, <2>1 DEF InExecution, Granted, EXECUTION_STATES
<1>6. InExecution' \subseteq TI /\ Granted(cs[s]) \subseteq TI
  BY <1>2 DEF InExecution, Granted, Scheduled
<1>7. InExecution' = Granted(cs[s])  BY <1>5, <1>6
<1> QED  BY <1>2, <1>3, <1>7 DEF Commit

\* The allocator counts slots and active task instances as the section does.
LEMMA SameOperators ==
  /\ \A ti : Limits!PoolName(ti) = PoolName(ti) /\ Limits!DagName(ti) = DagName(ti)
  /\ \A S, p : Limits!UsedSlots(S, p) = UsedSlots(S, p)
  /\ \A S, d : Limits!ActiveInDag(S, d) = ActiveInDag(S, d)
  /\ \A S, t : Limits!ActiveInTask(S, t) = ActiveInTask(S, t)
<1>0. \A S : Limits!Cardinality(S) = Cardinality(S)
  BY DEF Limits!Cardinality, Cardinality
<1>1. \A ti : Limits!PoolName(ti) = PoolName(ti) /\ Limits!DagName(ti) = DagName(ti)
  BY DEF Limits!PoolName, PoolName, Limits!DagName, DagName
<1>2. \A ti : Limits!SlotsOf(ti) = SlotsOf(ti)  BY DEF Limits!SlotsOf, SlotsOf
<1>3. ASSUME NEW S, NEW p PROVE Limits!UsedSlots(S, p) = UsedSlots(S, p)
  <2>1. Limits!InPool(S, p) = InPool(S, p)  BY <1>1 DEF Limits!InPool, InPool
  <2>2. Limits!Occupied(S, p) = Occupied(S, p)
    BY <1>2, <2>1 DEF Limits!Occupied, Occupied
  <2> QED  BY <1>0, <2>2 DEF Limits!UsedSlots, UsedSlots
<1>4. ASSUME NEW S, NEW d PROVE Limits!ActiveInDag(S, d) = ActiveInDag(S, d)
  <2>1. Limits!InDag(S, d) = InDag(S, d)  BY <1>1 DEF Limits!InDag, InDag
  <2> QED  BY <1>0, <2>1 DEF Limits!ActiveInDag, ActiveInDag
<1>5. ASSUME NEW S, NEW t PROVE Limits!ActiveInTask(S, t) = ActiveInTask(S, t)
  <2>1. Limits!InTask(S, t) = InTask(S, t)  BY DEF Limits!InTask, InTask
  <2> QED  BY <1>0, <2>1 DEF Limits!ActiveInTask, ActiveInTask
<1> QED  BY <1>1, <1>3, <1>4, <1>5

\* Every commit of a section is a Grant of the allocator, or changes nothing of it.
LEMMA CommitGrants ==
  ASSUME IInv, NEW s \in Scheduler, Commit(s)
  PROVE  [Limits!LimitsNext]_(Limits!limitVars)
<1> DEFINE C == cs[s].chosen
<1>1. TypeOK /\ SectionSafe(cs[s]) /\ cs[s].pc # "idle" /\ cs[s] \in Section
  BY DEF IInv, AllSafe, Safe, Commit, TypeOK
<1>2. /\ InExecution' = InExecution \cup C /\ C \cap InExecution = {}
      /\ C \subseteq TI /\ UNCHANGED total
  BY CommitQueues DEF Granted, Scheduled
<1>3. CASE C = {}  BY <1>2, <1>3 DEF Limits!limitVars
<1>4. CASE C # {}
  <2>1. /\ InExecution' \ InExecution = C /\ InExecution \cup C = Granted(cs[s])
        /\ Granted(cs[s]) \in SUBSET TI
    BY <1>2, InExecutionType DEF Granted
  <2>2. Limits!WithinPools(C)
    <3>1. ASSUME NEW ti \in C
          PROVE  UsedSlots(Granted(cs[s]), PoolName(ti)) <= total[PoolName(ti)]
      <4>1. PoolName(ti) \in Pool  BY <1>2, NamesType
      <4>2. /\ UsedSlots(Granted(cs[s]), PoolName(ti)) + cs[s].open[PoolName(ti)]
                 <= total[PoolName(ti)]
            /\ cs[s].open[PoolName(ti)] >= 0
        BY <1>1, <4>1 DEF SectionSafe, PoolsSafe
      <4>3. /\ UsedSlots(Granted(cs[s]), PoolName(ti)) \in Nat
            /\ cs[s].open[PoolName(ti)] \in Int /\ total[PoolName(ti)] \in Nat
        BY <1>1, <2>1, <4>1, OccupiedFinite DEF TypeOK, Section
      <4> QED  BY <4>2, <4>3
    <3> QED  BY <2>1, <3>1, SameOperators DEF Limits!WithinPools
  <2>3. Limits!WithinDags(C)
    <3>1. ASSUME NEW ti \in C
          PROVE  ActiveInDag(Granted(cs[s]), DagName(ti)) <= MaxActiveTasks[DagName(ti)]
      <4>1. DagName(ti) \in Dag /\ MaxActiveTasks[DagName(ti)] \in Nat
        BY <1>2, NamesType
      <4>2. /\ ActiveInDag(Granted(cs[s]), DagName(ti)) <= cs[s].active[DagName(ti)]
            /\ cs[s].active[DagName(ti)] <= MaxActiveTasks[DagName(ti)]
        BY <1>1, <1>4, <4>1 DEF SectionSafe, DagsSafe, MapsKnown
      <4>3. /\ ActiveInDag(Granted(cs[s]), DagName(ti)) \in Nat
            /\ cs[s].active[DagName(ti)] \in Nat
        BY <1>1, <2>1, <4>1, ActiveFinite DEF Section
      <4> QED  BY <4>1, <4>2, <4>3
    <3> QED  BY <2>1, <3>1, SameOperators DEF Limits!WithinDags
  <2>4. Limits!WithinTasks(C)
    <3>1. ASSUME NEW ti \in C, TaskLimit[TaskOf[ti]] # NoLimit
          PROVE  ActiveInTask(Granted(cs[s]), TaskOf[ti]) <= TaskLimit[TaskOf[ti]]
      <4>1. TaskOf[ti] \in Task  BY <1>2, NamesType
      <4>2. TaskLimit[TaskOf[ti]] \in Nat  BY <3>1, <4>1, MetadataAssumption
      <4>3. /\ ActiveInTask(Granted(cs[s]), TaskOf[ti]) <= cs[s].concurrency[TaskOf[ti]]
            /\ cs[s].concurrency[TaskOf[ti]] <= TaskLimit[TaskOf[ti]]
        BY <1>1, <1>4, <3>1, <4>1 DEF SectionSafe, TasksSafe, MapsKnown
      <4>4. /\ ActiveInTask(Granted(cs[s]), TaskOf[ti]) \in Nat
            /\ cs[s].concurrency[TaskOf[ti]] \in Nat
        BY <1>1, <2>1, <4>1, ActiveFinite DEF Section
      <4> QED  BY <4>2, <4>3, <4>4
    <3> QED  BY <2>1, <3>1, SameOperators DEF Limits!WithinTasks
  <2>5. /\ InExecution' \subseteq TI /\ InExecution \subseteq InExecution'
        /\ InExecution # InExecution'
    BY <1>2, <1>4, InExecutionType
  <2>6. Limits!Grant  BY <1>2, <2>1, <2>2, <2>3, <2>4, <2>5 DEF Limits!Grant
  <2> QED  BY <2>6 DEF Limits!LimitsNext
<1> QED  BY <1>3, <1>4

\* The critical section implements the atomic allocator: no commit takes a pool,
\* a dag or a task over its limit, for any number of schedulers and tasks.
THEOREM LimitsRespected == Spec => RespectsLimits
<1>1. Init => Limits!LimitsInit
  <2> SUFFICES ASSUME Init PROVE Limits!LimitsInit
    OBVIOUS
  <2>1. InExecution = {}  BY DEF Init, InExecution, EXECUTION_STATES
  <2>2. total \in [Pool -> Nat]  BY SchedulerAssumption DEF Init
  <2> QED  BY <2>1, <2>2 DEF Limits!LimitsInit
<1>2. IInv /\ IInv' /\ [Next]_vars => [Limits!LimitsNext]_(Limits!limitVars)
  <2> SUFFICES ASSUME IInv, IInv', [Next]_vars
               PROVE  [Limits!LimitsNext]_(Limits!limitVars)
    OBVIOUS
  <2>1. ASSUME UNCHANGED <<state, total>>
        PROVE  [Limits!LimitsNext]_(Limits!limitVars)
    BY <2>1 DEF Limits!limitVars, InExecution
  <2>2. CASE UNCHANGED vars  BY <2>1, <2>2 DEF vars
  <2>3. ASSUME NEW s \in Scheduler, SectionStep(s)
        PROVE  [Limits!LimitsNext]_(Limits!limitVars)
    <3>1. CASE Commit(s)  BY <3>1, CommitGrants
    <3>2. CASE ~Commit(s)
      BY <2>1, <2>3, <3>2
      DEF SectionStep, ReadPools, ReadConcurrencyMaps, SelectBatch, Examine, EndPass,
          Rollback, UnchangedMetadata
    <3> QED  BY <3>1, <3>2
  <2>4. CASE \E p \in Pool : CreatePool(p) \/ ResizePool(p) \/ DeletePool(p)
    <3>1. UNCHANGED state  BY <2>4, PoolStepGrowsOrWaits DEF IInv
    <3>2. total' \in [Pool -> Nat]  BY DEF IInv, TypeOK
    <3> QED  BY <3>1, <3>2 DEF Limits!LimitsNext, Limits!Resize, InExecution
  <2>5. CASE \/ \E ti \in TI : TaskStep(ti)
             \/ \E r \in Run : TimeOutRun(r)
             \/ \E d \in Unstable : TogglePause(d) \/ ToggleSerialized(d)
    <3>1. UNCHANGED total /\ InExecution' \subseteq InExecution
      BY <2>5, SystemStepReleases DEF IInv
    <3> QED  BY <3>1 DEF Limits!LimitsNext, Limits!Release
  <2> QED  BY <2>2, <2>3, <2>4, <2>5 DEF Next
<1> QED
  BY <1>1, <1>2, Invariance, PTL DEF Spec, RespectsLimits, Limits!LimitsSpec

\* A section queues only what is SCHEDULED at the moment of its COMMIT.
THEOREM OnlyScheduledQueued == Spec => QueuesOnlyScheduled
<1> DEFINE A == \A ti \in TI : state'[ti] = "queued" /\ state[ti] # "queued" =>
                                 state[ti] = "scheduled"
<1>1. IInv /\ [Next]_vars => [A]_vars
  <2> SUFFICES ASSUME IInv, Next PROVE A
    OBVIOUS
  <2>1. ASSUME NEW s \in Scheduler, SectionStep(s) PROVE A
    <3>1. CASE Commit(s)
      BY <3>1, CommitQueues DEF Commit, Scheduled
    <3>2. CASE ~Commit(s)
      BY <2>1, <3>2
      DEF SectionStep, ReadPools, ReadConcurrencyMaps, SelectBatch, Examine, EndPass,
          Rollback, UnchangedMetadata
    <3> QED  BY <3>1, <3>2
  <2>2. CASE \E p \in Pool : CreatePool(p) \/ ResizePool(p) \/ DeletePool(p)
    BY <2>2, PoolStepGrowsOrWaits DEF IInv
  <2>3. CASE \/ \E ti \in TI : TaskStep(ti)
             \/ \E r \in Run : TimeOutRun(r)
             \/ \E d \in Unstable : TogglePause(d) \/ ToggleSerialized(d)
    BY <2>3, SystemStepReleases DEF IInv
  <2> QED  BY <2>1, <2>2, <2>3 DEF Next
<1> HIDE DEF A
<1>2. Spec => [][A]_vars  BY <1>1, Invariance, PTL DEF Spec
<1> QED  BY <1>2 DEF A, QueuesOnlyScheduled

-----------------------------------------------------------------------------
(* What a section overlooks.  Again the parts are stated of a section r;   *)
(* nothing but its own steps changes them.                                 *)

\* r has no room for ti: what Fits denies.
NoRoom(r, ti) ==
  \/ r.open[PoolName(ti)] <= 0
  \/ Slots[TaskOf[ti]] > r.open[PoolName(ti)]
  \/ r.active[DagName(ti)] >= MaxActiveTasks[DagName(ti)]
  \/ /\ TaskLimit[TaskOf[ti]] # NoLimit
     /\ r.concurrency[TaskOf[ti]] >= TaskLimit[TaskOf[ti]]

Starved(r, ti) == {PoolName(ti), DagName(ti), TaskOf[ti]} \cap r.starved # {}

\* A name is starved because nothing of it fits, and nothing will before the
\* COMMIT, since a section only takes.
StarvedRightly(r) ==
  /\ r.pc = "pools" => \A p \in r.starved : p \in Pool /\ r.open[p] <= 0
  /\ \A ti \in TI : Starved(r, ti) => NoRoom(r, ti)

\* What the SELECT saw and the section did nothing with is starved, or comes
\* after all that it has taken, which is then as much as the LIMIT allows.
PassedRightly(r) ==
  r.pc \in {"examine", "update"} =>
    \A ti \in r.visible \ (r.batch \cup r.chosen \cup r.failing) :
      Starved(r, ti) \/ (r.full /\ \A c \in r.chosen \cup r.batch : Rank[c] <= Rank[ti])

Empty(r) == r.chosen = {} /\ r.failing = {}

\* A pass that has nothing to show yet has something to examine, and will choose
\* it, fail it or find a new filter; only a pass below the LIMIT ends with nothing.
EndsRightly(r) ==
  /\ r.pc \in {"pools", "select", "examine"} => r.limit # 0
  /\ r.pc = "examine" /\ Empty(r) /\ ~r.grew =>
       r.batch # {} /\ \A ti \in r.batch : ~Starved(r, ti)
  /\ r.pc = "update" => r.batch = {}
  /\ r.pc = "update" /\ Empty(r) => r.visible = {} \/ ~r.full

Thorough(r) == StarvedRightly(r) /\ PassedRightly(r) /\ EndsRightly(r)

LEMMA IdleThorough == Thorough(Idle)
<1>1. /\ Idle.pc = "idle" /\ Idle.starved = {}  BY DEF Idle
<1> QED  BY <1>1 DEF Thorough, StarvedRightly, PassedRightly, EndsRightly, Starved

LEMMA PoolsReadThorough ==
  ASSUME TypeOK, NEW s \in Scheduler, cs[s] = Idle
  PROVE  Thorough(PoolsRead(s))
<1> DEFINE r == PoolsRead(s)
           free == FreeSlots(OpenSlots)
<1>1. cs[s] \in Section  BY DEF TypeOK
<1>2. /\ r.batch = {} /\ r.chosen = {} /\ r.failing = {} /\ r.visible = {}
      /\ r.pc = IF free = 0 THEN "update" ELSE "pools"
      /\ r.open = OpenSlots /\ r.starved = {p \in exists : OpenSlots[p] <= 0}
      /\ r.limit = IF free < MaxTis THEN free ELSE MaxTis
  BY <1>1 DEF PoolsRead, Section, Idle
<1>3. exists \subseteq Pool  BY DEF TypeOK
<1> HIDE DEF r, free
<1>4. ASSUME NEW ti \in TI, Starved(r, ti)  PROVE NoRoom(r, ti)
  <2>1. PoolName(ti) \in r.starved
    BY <1>2, <1>3, <1>4, NamesType, NamesAssumption DEF Starved
  <2> QED  BY <1>2, <2>1 DEF NoRoom
<1>5. r.pc = "pools" => r.limit # 0  BY <1>2, SchedulerAssumption
<1> QED
  BY <1>2, <1>3, <1>4, <1>5
  DEF r, Thorough, StarvedRightly, PassedRightly, EndsRightly

LEMMA MapsReadThorough ==
  ASSUME TypeOK, NEW s \in Scheduler, Thorough(cs[s]), cs[s].pc = "pools"
  PROVE  Thorough(MapsRead(s))
<1> DEFINE q == cs[s]
           r == MapsRead(s)
<1>1. q \in Section  BY DEF TypeOK
<1>2. /\ r.starved = q.starved /\ r.open = q.open /\ r.pc = "select"
      /\ r.limit = q.limit
  BY <1>1 DEF MapsRead, Section
<1>3. /\ Thorough(q) /\ q.pc = "pools"
      /\ \A p \in q.starved : p \in Pool /\ q.open[p] <= 0
  BY DEF Thorough, StarvedRightly
<1> HIDE DEF q, r
<1>4. ASSUME NEW ti \in TI, Starved(r, ti)  PROVE NoRoom(r, ti)
  <2>1. PoolName(ti) \in q.starved
    BY <1>2, <1>3, <1>4, NamesType, NamesAssumption DEF Starved
  <2> QED  BY <1>2, <1>3, <2>1 DEF NoRoom
<1> QED
  BY <1>2, <1>3, <1>4 DEF r, Thorough, StarvedRightly, PassedRightly, EndsRightly

LEMMA SelectedThorough ==
  ASSUME TypeOK, NEW s \in Scheduler, SectionSafe(cs[s]), Thorough(cs[s]),
         cs[s].pc = "select", NEW B \in SUBSET NotStarved(s, Candidates(s)),
         IsTop(B, NotStarved(s, Candidates(s)), cs[s].limit)
  PROVE  Thorough(Selected(s, B))
<1> DEFINE q == cs[s]
           r == Selected(s, B)
           S == NotStarved(s, Candidates(s))
<1>1. q \in Section  BY DEF TypeOK
<1>2. /\ r.visible = Candidates(s) /\ r.batch = B /\ r.chosen = q.chosen
      /\ r.failing = q.failing /\ r.full = (Cardinality(B) = q.limit)
      /\ r.pc = (IF B = {} THEN "update" ELSE "examine")
      /\ r.starved = q.starved /\ r.open = q.open /\ r.active = q.active
      /\ r.concurrency = q.concurrency /\ r.limit = q.limit /\ r.grew = FALSE
  BY <1>1 DEF Selected, Section
<1>3. /\ q.chosen = {} /\ q.limit # 0 /\ q.limit \in Nat
      /\ \A ti \in TI : Starved(q, ti) => NoRoom(q, ti)
  BY <1>1 DEF SectionSafe, RowsSafe, Thorough, StarvedRightly, EndsRightly, Section
<1>4. /\ S \subseteq Candidates(s) /\ Candidates(s) \subseteq TI
      /\ \A ti \in Candidates(s) : ti \in S <=> ~Starved(q, ti)
  BY CandidatesType DEF NotStarved, Starved
<1>5. IsFiniteSet(S) /\ Cardinality(S) \in Nat /\ Cardinality(B) \in Nat
      /\ (B # S => Cardinality(B) < Cardinality(S))
  BY <1>4, FiniteAssumption, FS_Subset, FS_CardinalityType
<1>6. /\ Cardinality(B) = IF Cardinality(S) < q.limit THEN Cardinality(S) ELSE q.limit
      /\ \A x \in B, y \in S \ B : Rank[x] <= Rank[y]
  BY DEF IsTop
<1>7. Cardinality({}) = 0  BY FS_EmptySet
<1> HIDE DEF q, r, S
<1>8. StarvedRightly(r)
  <2>1. \A ti \in TI : Starved(r, ti) => NoRoom(r, ti)  BY <1>2, <1>3 DEF Starved, NoRoom
  <2> QED  BY <1>2, <2>1 DEF StarvedRightly
<1>9. PassedRightly(r)
  <2>1. SUFFICES ASSUME NEW ti \in Candidates(s) \ B, ~Starved(q, ti)
                 PROVE  r.full /\ \A c \in B : Rank[c] <= Rank[ti]
    BY <1>2, <1>3 DEF PassedRightly, Starved
  <2>2. ti \in S \ B  BY <1>4, <2>1
  <2>3. Cardinality(B) < Cardinality(S)  BY <1>5, <2>2
  <2>4. Cardinality(B) = q.limit  BY <1>3, <1>5, <1>6, <2>3
  <2>5. \A c \in B : Rank[c] <= Rank[ti]  BY <1>6, <2>2
  <2> QED  BY <1>2, <2>4, <2>5
<1>10. EndsRightly(r)
  <2>1. B = {} => ~r.full  BY <1>2, <1>3, <1>7
  <2>2. \A ti \in B : ~Starved(r, ti)  BY <1>2, <1>4 DEF S, Starved
  <2> QED  BY <1>2, <1>3, <2>1, <2>2 DEF EndsRightly
<1> QED  BY <1>8, <1>9, <1>10 DEF r, Thorough

\* A refused task instance is behind a name that is now starved.
LEMMA RefusedThorough ==
  ASSUME TypeOK, NEW s \in Scheduler, Thorough(cs[s]), cs[s].pc = "examine",
         NEW ti \in cs[s].batch, HasRoom(s, ti) => TaskFull(s, ti)
  PROVE  Thorough(Refused(s, ti))
<1> DEFINE q == cs[s]
           r == Refused(s, ti)
           n == Obstacle(s, ti)
<1>1. q \in Section  BY DEF TypeOK
<1>2. /\ r.batch = q.batch \ {ti} /\ r.starved = q.starved \cup {n}
      /\ r.grew = (q.grew \/ n \notin q.starved) /\ r.pc = "examine"
      /\ r.visible = q.visible /\ r.chosen = q.chosen /\ r.failing = q.failing
      /\ r.full = q.full /\ r.open = q.open /\ r.active = q.active
      /\ r.concurrency = q.concurrency /\ r.limit = q.limit
  BY <1>1 DEF Refused, Section
<1>3. ti \in TI  BY <1>1 DEF Section
<1>4. n \in {PoolName(ti), DagName(ti), TaskOf[ti]}  BY DEF Obstacle
<1>5. ASSUME NEW u \in TI, n \in {PoolName(u), DagName(u), TaskOf[u]}
      PROVE  NoRoom(q, u)
  <2>1. CASE PoolShut(s, ti)
    <3>1. PoolName(u) = PoolName(ti)
      BY <1>3, <1>5, <2>1, NamesType, NamesAssumption DEF Obstacle
    <3> QED  BY <2>1, <3>1 DEF PoolShut, NoRoom
  <2>2. CASE ~PoolShut(s, ti) /\ ~TooWide(s, ti) /\ DagFull(s, ti)
    <3>1. DagName(u) = DagName(ti)
      BY <1>3, <1>5, <2>2, NamesType, NamesAssumption DEF Obstacle
    <3> QED  BY <2>2, <3>1 DEF DagFull, NoRoom
  <2>3. CASE ~PoolShut(s, ti) /\ ~(~TooWide(s, ti) /\ DagFull(s, ti))
    <3>1. TaskOf[u] = TaskOf[ti]
      BY <1>3, <1>5, <2>3, NamesType, NamesAssumption DEF Obstacle
    <3>2. TooWide(s, ti) \/ TaskFull(s, ti)  BY <2>3 DEF HasRoom
    <3> QED  BY <3>1, <3>2 DEF TooWide, TaskFull, NoRoom, PoolName
  <2> QED  BY <2>1, <2>2, <2>3
<1>6. /\ Thorough(q) /\ q.pc = "examine" /\ ti \in q.batch  OBVIOUS
<1> HIDE DEF q, r, n
<1>7. \A u \in TI : Starved(r, u) <=> Starved(q, u) \/ n \in {PoolName(u), DagName(u), TaskOf[u]}
  BY <1>2 DEF Starved
<1>8. StarvedRightly(r)
  <2>1. \A u \in TI : NoRoom(r, u) <=> NoRoom(q, u)  BY <1>2 DEF NoRoom
  <2>2. \A u \in TI : Starved(q, u) => NoRoom(q, u)  BY <1>6 DEF Thorough, StarvedRightly
  <2> QED  BY <1>2, <1>5, <1>7, <2>1, <2>2 DEF StarvedRightly
<1>9. PassedRightly(r)
  <2>1. q.visible \subseteq TI  BY <1>1 DEF Section
  <2> QED
    BY <1>2, <1>4, <1>6, <1>7, <2>1 DEF Thorough, PassedRightly
<1>10. EndsRightly(r)
  <2>1. ~r.grew => ~q.grew /\ Starved(q, ti)  BY <1>2, <1>4 DEF Starved
  <2> QED  BY <1>2, <1>6, <2>1 DEF Thorough, EndsRightly, Empty
<1> QED  BY <1>8, <1>9, <1>10 DEF r, Thorough

LEMMA FailedThorough ==
  ASSUME TypeOK, NEW s \in Scheduler, SectionSafe(cs[s]), Thorough(cs[s]),
         cs[s].pc = "examine", NEW ti \in cs[s].batch
  PROVE  Thorough(Failed(s, ti))
<1> DEFINE q == cs[s]
           r == Failed(s, ti)
           lost == InDag(Scheduled, DagName(ti))
<1>1. q \in Section  BY DEF TypeOK
<1>2. /\ r.batch = q.batch \ {ti} /\ r.failing = q.failing \cup lost /\ r.pc = "examine"
      /\ r.visible = q.visible /\ r.chosen = q.chosen /\ r.full = q.full
      /\ r.starved = q.starved /\ r.open = q.open /\ r.active = q.active
      /\ r.concurrency = q.concurrency /\ r.limit = q.limit /\ r.grew = q.grew
  BY <1>1 DEF Failed, Section
<1>3. ti \in lost  BY DEF SectionSafe, RowsSafe, InDag
<1>4. Thorough(q) /\ q.pc = "examine"  OBVIOUS
<1> HIDE DEF q, r, lost
<1>5. StarvedRightly(r)
  BY <1>2, <1>4 DEF Thorough, StarvedRightly, Starved, NoRoom
<1>6. PassedRightly(r)
  BY <1>2, <1>3, <1>4 DEF Thorough, PassedRightly, Starved
<1>7. EndsRightly(r)  BY <1>2, <1>3, <1>4 DEF Thorough, EndsRightly, Empty
<1> QED  BY <1>5, <1>6, <1>7 DEF r, Thorough

\* To accept a task instance makes room for nothing.
LEMMA AcceptedThorough ==
  ASSUME TypeOK, NEW s \in Scheduler, Thorough(cs[s]), cs[s].pc = "examine",
         NEW ti \in cs[s].batch
  PROVE  Thorough(Accepted(s, ti))
<1> DEFINE q == cs[s]
           r == Accepted(s, ti)
           n == Slots[TaskOf[ti]]
<1>1. q \in Section  BY DEF TypeOK
<1>2. /\ r.batch = q.batch \ {ti} /\ r.chosen = q.chosen \cup {ti} /\ r.pc = "examine"
      /\ r.visible = q.visible /\ r.failing = q.failing /\ r.full = q.full
      /\ r.starved = q.starved /\ r.limit = q.limit /\ r.grew = q.grew
      /\ r.open = [q.open EXCEPT ![PoolName(ti)] = @ - n]
      /\ r.active = [q.active EXCEPT ![DagName(ti)] = @ + 1]
      /\ r.concurrency = [q.concurrency EXCEPT ![TaskOf[ti]] = @ + 1]
  BY <1>1 DEF Accepted, Section
<1>3. /\ q.open \in [Pool -> Int] /\ q.active \in [Dag -> Nat]
      /\ q.concurrency \in [Task -> Nat] /\ ti \in TI /\ q.visible \subseteq TI
  BY <1>1 DEF Section
<1>4. n \in Nat  BY <1>3, NamesType
<1>5. Thorough(q) /\ q.pc = "examine" /\ ti \in q.batch  OBVIOUS
<1> HIDE DEF q, r, n
<1>6. ASSUME NEW u \in TI, NoRoom(q, u)  PROVE NoRoom(r, u)
  <2>1. /\ r.open[PoolName(u)] <= q.open[PoolName(u)]
        /\ r.open[PoolName(u)] \in Int /\ q.open[PoolName(u)] \in Int
    BY <1>2, <1>3, <1>4, NamesType
  <2>2. /\ r.active[DagName(u)] >= q.active[DagName(u)]
        /\ r.active[DagName(u)] \in Nat /\ q.active[DagName(u)] \in Nat
    BY <1>2, <1>3, NamesType
  <2>3. /\ r.concurrency[TaskOf[u]] >= q.concurrency[TaskOf[u]]
        /\ r.concurrency[TaskOf[u]] \in Nat /\ q.concurrency[TaskOf[u]] \in Nat
    BY <1>2, <1>3, NamesType
  <2>4. TaskLimit[TaskOf[u]] # NoLimit => TaskLimit[TaskOf[u]] \in Nat
    BY NamesType, MetadataAssumption
  <2> QED  BY <1>6, <2>1, <2>2, <2>3, <2>4, NamesType DEF NoRoom
<1>7. StarvedRightly(r)
  BY <1>2, <1>5, <1>6 DEF Thorough, StarvedRightly, Starved
<1>8. PassedRightly(r)
  BY <1>2, <1>5 DEF Thorough, PassedRightly, Starved
<1>9. EndsRightly(r)  BY <1>2, <1>5 DEF Thorough, EndsRightly, Empty
<1> QED  BY <1>7, <1>8, <1>9 DEF r, Thorough

LEMMA EndPassThorough ==
  ASSUME TypeOK, NEW s \in Scheduler, Thorough(cs[s]), cs[s].pc = "examine",
         cs[s].batch = {}, NEW pc \in {"update", "select"},
         pc = "update" => IsDone(s) \/ ~cs[s].grew
  PROVE  Thorough([cs[s] EXCEPT !.pc = pc])
<1> DEFINE q == cs[s]
           r == [q EXCEPT !.pc = pc]
<1>1. q \in Section  BY DEF TypeOK
<1>2. /\ r.batch = q.batch /\ r.chosen = q.chosen /\ r.pc = pc
      /\ r.visible = q.visible /\ r.failing = q.failing /\ r.full = q.full
      /\ r.starved = q.starved /\ r.limit = q.limit /\ r.grew = q.grew
      /\ r.open = q.open /\ r.active = q.active /\ r.concurrency = q.concurrency
  BY <1>1 DEF Section
<1>3. /\ Thorough(q) /\ q.pc = "examine" /\ q.batch = {}
      /\ pc = "update" => q.chosen # {} \/ ~q.full \/ ~q.grew
  BY DEF IsDone
<1> HIDE DEF q, r
<1>4. StarvedRightly(r)
  BY <1>2, <1>3 DEF Thorough, StarvedRightly, Starved, NoRoom
<1>5. PassedRightly(r)  BY <1>2, <1>3 DEF Thorough, PassedRightly, Starved
<1>6. EndsRightly(r)  BY <1>2, <1>3 DEF Thorough, EndsRightly, Empty
<1> QED  BY <1>4, <1>5, <1>6 DEF r, q, Thorough

LEMMA SectionStepThorough ==
  ASSUME IInv, NEW s \in Scheduler, SectionStep(s), Thorough(cs[s])
  PROVE  Thorough(cs'[s])
<1>1. TypeOK /\ LockSafe(s) /\ SectionSafe(cs[s]) /\ cs[s] \in Section
  BY DEF IInv, AllSafe, Safe, TypeOK
<1>2. ASSUME NEW r, Becomes(s, r)  PROVE cs'[s] = r
  BY <1>1, <1>2 DEF Becomes, TypeOK
<1>3. CASE ReadPools(s)
  BY <1>1, <1>2, <1>3, PoolsReadThorough DEF ReadPools, LockSafe
<1>4. CASE ReadConcurrencyMaps(s)
  BY <1>1, <1>2, <1>4, MapsReadThorough DEF ReadConcurrencyMaps
<1>5. CASE SelectBatch(s)  BY <1>1, <1>2, <1>5, SelectedThorough DEF SelectBatch
<1>6. CASE Examine(s)
  <2>1. PICK ti \in cs[s].batch : Refuse(s, ti) \/ FailMissing(s, ti) \/ Accept(s, ti)
    BY <1>6 DEF Examine
  <2>2. cs[s].pc = "examine"  BY <1>6 DEF Examine
  <2> QED
    BY <1>1, <1>2, <2>1, <2>2, RefusedThorough, FailedThorough, AcceptedThorough
    DEF Refuse, FailMissing, Accept
<1>7. CASE EndPass(s)
  <2> DEFINE pc == IF IsDone(s) \/ ~cs[s].grew THEN "update" ELSE "select"
  <2>1. /\ Becomes(s, [cs[s] EXCEPT !.pc = pc])
        /\ cs[s].pc = "examine" /\ cs[s].batch = {}
    BY <1>7 DEF EndPass
  <2>2. pc \in {"update", "select"} /\ (pc = "update" => IsDone(s) \/ ~cs[s].grew)
    OBVIOUS
  <2> HIDE DEF pc
  <2> QED  BY <1>1, <1>2, <2>1, <2>2, EndPassThorough
<1>8. CASE Commit(s) \/ Rollback(s)
  BY <1>2, <1>8, IdleThorough DEF Commit, Rollback
<1> QED  BY <1>3, <1>4, <1>5, <1>6, <1>7, <1>8 DEF SectionStep

AllThorough == \A s \in Scheduler : Thorough(cs[s])

LEMMA ThoroughInvariance == Spec => []AllThorough
<1>1. Init => AllThorough  BY IdleThorough DEF Init, AllThorough
<1>2. IInv /\ AllThorough /\ [Next]_vars => AllThorough'
  <2> SUFFICES ASSUME IInv, AllThorough, [Next]_vars, NEW q \in Scheduler
               PROVE  Thorough(cs'[q])
    BY DEF AllThorough, Thorough, StarvedRightly, PassedRightly, EndsRightly
  <2>1. Thorough(cs[q])  BY DEF AllThorough
  <2>2. CASE UNCHANGED cs  BY <2>1, <2>2
  <2>3. ASSUME NEW s \in Scheduler, SectionStep(s)  PROVE Thorough(cs'[q])
    <3>1. CASE q = s  BY <2>1, <2>3, <3>1, SectionStepThorough
    <3>2. CASE q # s
      <4>1. PICK r : Becomes(s, r)
        BY <2>3 DEF SectionStep, ReadPools, ReadConcurrencyMaps, SelectBatch, Examine,
                    Refuse, FailMissing, Accept, EndPass, Commit, Rollback
      <4> QED  BY <2>1, <3>2, <4>1 DEF Becomes, IInv, TypeOK
    <3> QED  BY <3>1, <3>2
  <2>4. CASE ~\E s \in Scheduler : SectionStep(s)
    <3>1. UNCHANGED cs
      BY <2>4, SystemStepReleases, PoolStepGrowsOrWaits DEF Next, vars, IInv
    <3> QED  BY <2>2, <3>1
  <2> QED  BY <2>3, <2>4
<1> QED  BY <1>1, <1>2, Invariance, PTL DEF Spec

\* What fits is what the section has room for.
LEMMA FitsIfRoom ==
  ASSUME NEW s, NEW ti, Fits(s, ti)
  PROVE  ~NoRoom(cs[s], ti)
BY DEF Fits, HasRoom, PoolShut, TooWide, DagFull, TaskFull, NoRoom

\* A section with nothing to show for it left nothing that fits, although a pass
\* examines no more than its LIMIT and skips what is starved.
THEOREM NothingMissed == Spec => []NoMissedWork
<1>1. TypeOK /\ AllThorough => NoMissedWork
  <2> SUFFICES ASSUME TypeOK, AllThorough, NEW s \in Scheduler, cs[s].pc = "update",
                      Empty(cs[s]), NEW ti \in cs[s].visible
               PROVE  ~Fits(s, ti)
    BY DEF NoMissedWork, Empty
  <2>1. Thorough(cs[s])  BY DEF AllThorough
  <2>2. cs[s].batch = {} /\ ~cs[s].full  BY <2>1 DEF Thorough, EndsRightly
  <2>3. Starved(cs[s], ti)  BY <2>1, <2>2 DEF Thorough, PassedRightly, Empty
  <2>4. ti \in TI  BY DEF TypeOK, Section
  <2> QED  BY <2>1, <2>3, <2>4, FitsIfRoom DEF Thorough, StarvedRightly
<1> QED  BY <1>1, TypeCorrect, ThoroughInvariance, PTL

\* Nothing is queued past a task instance of a higher priority that would have
\* fitted, whatever starved before it.
THEOREM PriorityKept == Spec => []PriorityRespected
<1>1. TypeOK /\ AllThorough => PriorityRespected
  <2> SUFFICES ASSUME TypeOK, AllThorough, NEW s \in Scheduler, cs[s].pc = "update",
                      NEW ti \in cs[s].visible \ (cs[s].chosen \cup cs[s].failing),
                      Fits(s, ti), NEW c \in cs[s].chosen
               PROVE  Rank[c] <= Rank[ti]
    BY DEF PriorityRespected
  <2>1. Thorough(cs[s])  BY DEF AllThorough
  <2>2. ti \in TI  BY DEF TypeOK, Section
  <2>3. ~Starved(cs[s], ti)
    BY <2>1, <2>2, FitsIfRoom DEF Thorough, StarvedRightly
  <2>4. cs[s].batch = {}  BY <2>1 DEF Thorough, EndsRightly
  <2> QED  BY <2>1, <2>3, <2>4 DEF Thorough, PassedRightly
<1> QED  BY <1>1, TypeCorrect, ThoroughInvariance, PTL
=============================================================================
