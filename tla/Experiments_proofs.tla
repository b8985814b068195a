------------------------- MODULE Experiments_proofs -------------------------
(***************************************************************************)
(* An experiment measures and exports its own dags, whatever the plan, and *)
(* whatever the experiments before it left behind.                         *)
(***************************************************************************)
EXTENDS Experiments, SequenceTheorems, TLAPS

-----------------------------------------------------------------------------
(* The program of an experiment: which step is which.                      *)

Ops == {"scale", "try_delete", "clear", "publish", "wait", "start", "collect", "stop",
        "trigger", "delete"}
StepType == [op : Ops, dags : SUBSET AnyDag]

LEMMA Joined ==
  ASSUME NEW s \in Seq(StepType), NEW t \in Seq(StepType)
  PROVE  /\ s \o t \in Seq(StepType) /\ Len(s \o t) = Len(s) + Len(t)
         /\ \A i \in 1 .. Len(s) : (s \o t)[i] = s[i]
         /\ \A i \in 1 .. Len(t) : (s \o t)[Len(s) + i] = t[i]
<1>1. Len(s) \in Nat /\ Len(t) \in Nat  BY LenProperties
<1>2. /\ s \o t \in Seq(StepType) /\ Len(s \o t) = Len(s) + Len(t)
      /\ \A i \in 1 .. Len(s) + Len(t) :
           (s \o t)[i] = IF i <= Len(s) THEN s[i] ELSE t[i - Len(s)]
  BY ConcatProperties
<1>3. \A i \in 1 .. Len(s) : (s \o t)[i] = s[i]  BY <1>1, <1>2
<1>4. ASSUME NEW i \in 1 .. Len(t)  PROVE (s \o t)[Len(s) + i] = t[i]
  <2>1. /\ Len(s) + i \in 1 .. Len(s) + Len(t) /\ ~(Len(s) + i <= Len(s))
        /\ (Len(s) + i) - Len(s) = i
    BY <1>1
  <2> QED  BY <1>2, <2>1
<1> QED  BY <1>2, <1>3, <1>4

LEMMA SameLength ==
  ASSUME NEW a \in Nat, NEW b \in Nat, 1 .. a = 1 .. b
  PROVE  a = b
<1>1. CASE a < b
  <2>1. b \in 1 .. a  BY <1>1
  <2> QED  BY <1>1, <2>1
<1>2. CASE b < a
  <2>1. a \in 1 .. b  BY <1>2
  <2> QED  BY <1>2, <2>1
<1> QED  BY <1>1, <1>2

LEMMA ForEachType ==
  ASSUME NEW dags \in Seq(Dag), NEW op \in Ops
  PROVE  /\ Len(dags) \in Nat /\ \A i \in 1 .. Len(dags) : dags[i] \in Dag
         /\ ForEach(op, dags) \in Seq(StepType) /\ Len(ForEach(op, dags)) = Len(dags)
         /\ \A i \in 1 .. Len(dags) : ForEach(op, dags)[i] = Step(op, dags[i])
<1> DEFINE f == ForEach(op, dags)
<1>1. /\ Len(dags) \in Nat /\ dags \in [1 .. Len(dags) -> Dag]
      /\ DOMAIN dags = 1 .. Len(dags)
  BY LenProperties
<1>2. f = [i \in 1 .. Len(dags) |-> Step(op, dags[i])]  BY <1>1 DEF ForEach
<1>3. \A i \in 1 .. Len(dags) : Step(op, dags[i]) \in StepType
  BY <1>1 DEF Step, StepType, AnyDag
<1>4. f \in [1 .. Len(dags) -> StepType]  BY <1>2, <1>3
<1>5. f \in Seq(StepType)
  <2>1. Seq(StepType) = UNION {[1 .. k -> StepType] : k \in Nat}  BY SeqDef
  <2> HIDE DEF f
  <2> QED  BY <1>1, <1>4, <2>1, Zenon
<1>6. Len(f) = Len(dags)
  <2>1. Len(f) \in Nat /\ DOMAIN f = 1 .. Len(f)  BY <1>5, LenProperties
  <2>2. 1 .. Len(f) = 1 .. Len(dags)  BY <1>4, <2>1
  <2> HIDE DEF f
  <2> QED  BY <1>1, <2>1, <2>2, SameLength, Zenon
<1> QED  BY <1>1, <1>2, <1>5, <1>6

LEMMA Literals ==
  ASSUME NEW S
  PROVE  /\ \A x \in S : <<x>> \in Seq(S) /\ Len(<<x>>) = 1 /\ <<x>>[1] = x
         /\ \A x, y \in S : /\ <<x, y>> \in Seq(S) /\ Len(<<x, y>>) = 2
                            /\ <<x, y>>[1] = x /\ <<x, y>>[2] = y
OBVIOUS

\* Where the steps of a program for n dags are.
IsProgram(p, dags, n) ==
  /\ Len(p) = 5 * n + 11
  /\ p[1] = Whole("scale")
  /\ \A i \in 1 .. n : p[1 + i] = Step("try_delete", dags[i])
  /\ p[n + 2] = Whole("clear")
  /\ p[n + 3] = [op |-> "publish", dags |-> ToSet(dags)]
  /\ \A i \in 1 .. n : p[n + 3 + i] = Step("wait", dags[i])
  /\ \A i \in 1 .. n : p[2 * n + 3 + i] = Step("start", dags[i])
  /\ p[3 * n + 4] = Whole("collect")
  /\ \A i \in 1 .. n : p[3 * n + 4 + i] = Step("stop", dags[i])
  /\ p[4 * n + 5] = Step("publish", ExportDag) /\ p[4 * n + 6] = Step("wait", ExportDag)
  /\ p[4 * n + 7] = Step("start", ExportDag) /\ p[4 * n + 8] = Step("trigger", ExportDag)
  /\ p[4 * n + 9] = Step("stop", ExportDag) /\ p[4 * n + 10] = Step("delete", ExportDag)
  /\ \A i \in 1 .. n : p[4 * n + 10 + i] = Step("delete", dags[i])
  /\ p[5 * n + 11] = Whole("clear")

LEMMA ProgramShape ==
  ASSUME NEW dags \in Seq(Dag)
  PROVE  IsProgram(RunExperiment(dags), dags, Len(dags))
<1> DEFINE n == Len(dags)
           td == ForEach("try_delete", dags)
           wt == ForEach("wait", dags)
           st == ForEach("start", dags)
           sp == ForEach("stop", dags)
           dl == ForEach("delete", dags)
           sc == <<Whole("scale")>>
           co == <<Whole("collect")>>
           cl == <<Whole("clear")>>
           c1 == <<Whole("clear"), [op |-> "publish", dags |-> ToSet(dags)]>>
           a1 == td \o c1
           a2 == a1 \o wt
           b1 == sc \o a2
           b2 == b1 \o st
           b3 == b2 \o co
           b4 == b3 \o sp
           b5 == b4 \o ExportMetrics
           b6 == b5 \o dl
           b7 == b6 \o cl
<1>1. RunExperiment(dags) = b7
  BY Zenon DEF RunExperiment, CreateDags, StartDags, StopDags, DeleteDags
<1>2. n \in Nat /\ \A i \in 1 .. n : dags[i] \in Dag  BY ForEachType
<1>3. /\ td \in Seq(StepType) /\ Len(td) = n
      /\ \A i \in 1 .. n : td[i] = Step("try_delete", dags[i])
      /\ wt \in Seq(StepType) /\ Len(wt) = n
      /\ \A i \in 1 .. n : wt[i] = Step("wait", dags[i])
      /\ st \in Seq(StepType) /\ Len(st) = n
      /\ \A i \in 1 .. n : st[i] = Step("start", dags[i])
      /\ sp \in Seq(StepType) /\ Len(sp) = n
      /\ \A i \in 1 .. n : sp[i] = Step("stop", dags[i])
      /\ dl \in Seq(StepType) /\ Len(dl) = n
      /\ \A i \in 1 .. n : dl[i] = Step("delete", dags[i])
  BY ForEachType DEF Ops
<1>4. ASSUME NEW op \in Ops  PROVE Whole(op) \in StepType  BY DEF Whole, StepType, Ops
<1>5. ToSet(dags) \subseteq AnyDag
  <2>1. DOMAIN dags = 1 .. n  BY LenProperties
  <2> QED  BY <1>2, <2>1 DEF ToSet, AnyDag
<1>6. /\ c1 \in Seq(StepType) /\ Len(c1) = 2 /\ c1[1] = Whole("clear")
      /\ c1[2] = [op |-> "publish", dags |-> ToSet(dags)]
  <2>1. [op |-> "publish", dags |-> ToSet(dags)] \in StepType  BY <1>5 DEF StepType, Ops
  <2>2. Whole("clear") \in StepType  BY <1>4 DEF Ops
  <2> QED  BY <2>1, <2>2, Literals
<1>7. /\ ExportMetrics \in Seq(StepType) /\ Len(ExportMetrics) = 6
      /\ ExportMetrics[1] = Step("publish", ExportDag)
      /\ ExportMetrics[2] = Step("wait", ExportDag)
      /\ ExportMetrics[3] = Step("start", ExportDag)
      /\ ExportMetrics[4] = Step("trigger", ExportDag)
      /\ ExportMetrics[5] = Step("stop", ExportDag)
      /\ ExportMetrics[6] = Step("delete", ExportDag)
  <2>1. ASSUME NEW op \in Ops  PROVE Step(op, ExportDag) \in StepType
    BY DEF Step, StepType, AnyDag
  <2>2. /\ Step("publish", ExportDag) \in StepType /\ Step("wait", ExportDag) \in StepType
        /\ Step("start", ExportDag) \in StepType
        /\ Step("trigger", ExportDag) \in StepType
        /\ Step("stop", ExportDag) \in StepType /\ Step("delete", ExportDag) \in StepType
    BY <2>1 DEF Ops
  <2> QED  BY <2>2 DEF ExportMetrics
<1>8. /\ sc \in Seq(StepType) /\ Len(sc) = 1 /\ sc[1] = Whole("scale")
      /\ co \in Seq(StepType) /\ Len(co) = 1 /\ co[1] = Whole("collect")
      /\ cl \in Seq(StepType) /\ Len(cl) = 1 /\ cl[1] = Whole("clear")
  BY <1>4, Literals DEF Ops
<1> HIDE DEF n, td, wt, st, sp, dl, sc, co, cl, c1
<1>9. /\ a1 \in Seq(StepType) /\ Len(a1) = n + 2
      /\ \A i \in 1 .. n : a1[i] = td[i]
      /\ \A i \in 1 .. 2 : a1[n + i] = c1[i]
  <2>1. n \in Nat /\ 2 \in Nat /\ n + 2 = n + 2  BY <1>2
  <2>2. td \in Seq(StepType) /\ Len(td) = n  BY <1>3
  <2>3. c1 \in Seq(StepType) /\ Len(c1) = 2  BY <1>6
  <2>4. /\ a1 \in Seq(StepType) /\ Len(a1) = Len(td) + Len(c1)
        /\ \A i \in 1 .. Len(td) : a1[i] = td[i]
        /\ \A i \in 1 .. Len(c1) : a1[Len(td) + i] = c1[i]
    BY <2>2, <2>3, Joined, Zenon
  <2> HIDE DEF a1
  <2> QED  BY <2>1, <2>2, <2>3, <2>4, Zenon
<1> HIDE DEF a1
<1>10. /\ a2 \in Seq(StepType) /\ Len(a2) = 2 * n + 2
       /\ \A i \in 1 .. n + 2 : a2[i] = a1[i]
       /\ \A i \in 1 .. n : a2[n + 2 + i] = wt[i]
  <2>1. n + 2 \in Nat /\ n \in Nat /\ n + 2 + n = 2 * n + 2  BY <1>2
  <2>2. a1 \in Seq(StepType) /\ Len(a1) = n + 2  BY <1>9
  <2>3. wt \in Seq(StepType) /\ Len(wt) = n  BY <1>3
  <2>4. /\ a2 \in Seq(StepType) /\ Len(a2) = Len(a1) + Len(wt)
        /\ \A i \in 1 .. Len(a1) : a2[i] = a1[i]
        /\ \A i \in 1 .. Len(wt) : a2[Len(a1) + i] = wt[i]
    BY <2>2, <2>3, Joined, Zenon
  <2> HIDE DEF a2
  <2> QED  BY <2>1, <2>2, <2>3, <2>4, Zenon
<1> HIDE DEF a2
<1>11. /\ b1 \in Seq(StepType) /\ Len(b1) = 2 * n + 3
       /\ \A i \in 1 .. 1 : b1[i] = sc[i]
       /\ \A i \in 1 .. 2 * n + 2 : b1[1 + i] = a2[i]
  <2>1. 1 \in Nat /\ 2 * n + 2 \in Nat /\ 1 + 2 * n + 2 = 2 * n + 3  BY <1>2
  <2>2. sc \in Seq(StepType) /\ Len(sc) = 1  BY <1>8
  <2>3. a2 \in Seq(StepType) /\ Len(a2) = 2 * n + 2  BY <1>10
  <2>4. /\ b1 \in Seq(StepType) /\ Len(b1) = Len(sc) + Len(a2)
        /\ \A i \in 1 .. Len(sc) : b1[i] = sc[i]
        /\ \A i \in 1 .. Len(a2) : b1[Len(sc) + i] = a2[i]
    BY <2>2, <2>3, Joined, Zenon
  <2> HIDE DEF b1
  <2>5. Len(sc) = 1 /\ Len(a2) = 2 * n + 2 /\ Len(b1) = 2 * n + 3
    BY <1>2, <2>2, <2>3, <2>4
  <2> QED  BY <2>4, <2>5, Zenon
<1> HIDE DEF b1
<1>12. /\ b2 \in Seq(StepType) /\ Len(b2) = 3 * n + 3
       /\ \A i \in 1 .. 2 * n + 3 : b2[i] = b1[i]
       /\ \A i \in 1 .. n : b2[2 * n + 3 + i] = st[i]
  <2>1. 2 * n + 3 \in Nat /\ n \in Nat /\ 2 * n + 3 + n = 3 * n + 3  BY <1>2
  <2>2. b1 \in Seq(StepType) /\ Len(b1) = 2 * n + 3  BY <1>11
  <2>3. st \in Seq(StepType) /\ Len(st) = n  BY <1>3
  <2>4. /\ b2 \in Seq(StepType) /\ Len(b2) = Len(b1) + Len(st)
        /\ \A i \in 1 .. Len(b1) : b2[i] = b1[i]
        /\ \A i \in 1 .. Len(st) : b2[Len(b1) + i] = st[i]
    BY <2>2, <2>3, Joined, Zenon
  <2> HIDE DEF b2
  <2> QED  BY <2>1, <2>2, <2>3, <2>4, Zenon
<1> HIDE DEF b2
<1>13. /\ b3 \in Seq(StepType) /\ Len(b3) = 3 * n + 4
       /\ \A i \in 1 .. 3 * n + 3 : b3[i] = b2[i]
       /\ \A i \in 1 .. 1 : b3[3 * n + 3 + i] = co[i]
  <2>1. 3 * n + 3 \in Nat /\ 1 \in Nat /\ 3 * n + 3 + 1 = 3 * n + 4  BY <1>2
  <2>2. b2 \in Seq(StepType) /\ Len(b2) = 3 * n + 3  BY <1>12
  <2>3. co \in Seq(StepType) /\ Len(co) = 1  BY <1>8
  <2>4. /\ b3 \in Seq(StepType) /\ Len(b3) = Len(b2) + Len(co)
        /\ \A i \in 1 .. Len(b2) : b3[i] = b2[i]
        /\ \A i \in 1 .. Len(co) : b3[Len(b2) + i] = co[i]
    BY <2>2, <2>3, Joined, Zenon
  <2> HIDE DEF b3
  <2> QED  BY <2>1, <2>2, <2>3, <2>4, Zenon
<1> HIDE DEF b3
<1>14. /\ b4 \in Seq(StepType) /\ Len(b4) = 4 * n + 4
       /\ \A i \in 1 .. 3 * n + 4 : b4[i] = b3[i]
       /\ \A i \in 1 .. n : b4[3 * n + 4 + i] = sp[i]
  <2>1. 3 * n + 4 \in Nat /\ n \in Nat /\ 3 * n + 4 + n = 4 * n + 4  BY <1>2
  <2>2. b3 \in Seq(StepType) /\ Len(b3) = 3 * n + 4  BY <1>13
  <2>3. sp \in Seq(StepType) /\ Len(sp) = n  BY <1>3
  <2>4. /\ b4 \in Seq(StepType) /\ Len(b4) = Len(b3) + Len(sp)
        /\ \A i \in 1 .. Len(b3) : b4[i] = b3[i]
        /\ \A i \in 1 .. Len(sp) : b4[Len(b3) + i] = sp[i]
    BY <2>2, <2>3, Joined, Zenon
  <2> HIDE DEF b4
  <2> QED  BY <2>1, <2>2, <2>3, <2>4, Zenon
<1> HIDE DEF b4
<1>15. /\ b5 \in Seq(StepType) /\ Len(b5) = 4 * n + 10
       /\ \A i \in 1 .. 4 * n + 4 : b5[i] = b4[i]
       /\ \A i \in 1 .. 6 : b5[4 * n + 4 + i] = ExportMetrics[i]
  <2>1. 4 * n + 4 \in Nat /\ 6 \in Nat /\ 4 * n + 4 + 6 = 4 * n + 10  BY <1>2
  <2>2. b4 \in Seq(StepType) /\ Len(b4) = 4 * n + 4  BY <1>14
  <2>3. ExportMetrics \in Seq(StepType) /\ Len(ExportMetrics) = 6  BY <1>7
  <2>4. /\ b5 \in Seq(StepType) /\ Len(b5) = Len(b4) + Len(ExportMetrics)
        /\ \A i \in 1 .. Len(b4) : b5[i] = b4[i]
        /\ \A i \in 1 .. Len(ExportMetrics) : b5[Len(b4) + i] = ExportMetrics[i]
    BY <2>2, <2>3, Joined, Zenon
  <2> HIDE DEF b5
  <2> QED  BY <2>1, <2>2, <2>3, <2>4, Zenon
<1> HIDE DEF b5
<1>16. /\ b6 \in Seq(StepType) /\ Len(b6) = 5 * n + 10
       /\ \A i \in 1 .. 4 * n + 10 : b6[i] = b5[i]
       /\ \A i \in 1 .. n : b6[4 * n + 10 + i] = dl[i]
  <2>1. 4 * n + 10 \in Nat /\ n \in Nat /\ 4 * n + 10 + n = 5 * n + 10  BY <1>2
  <2>2. b5 \in Seq(StepType) /\ Len(b5) = 4 * n + 10  BY <1>15
  <2>3. dl \in Seq(StepType) /\ Len(dl) = n  BY <1>3
  <2>4. /\ b6 \in Seq(StepType) /\ Len(b6) = Len(b5) + Len(dl)
        /\ \A i \in 1 .. Len(b5) : b6[i] = b5[i]
        /\ \A i \in 1 .. Len(dl) : b6[Len(b5) + i] = dl[i]
    BY <2>2, <2>3, Joined, Zenon
  <2> HIDE DEF b6
  <2> QED  BY <2>1, <2>2, <2>3, <2>4, Zenon
<1> HIDE DEF b6
<1>17. /\ b7 \in Seq(StepType) /\ Len(b7) = 5 * n + 11
       /\ \A i \in 1 .. 5 * n + 10 : b7[i] = b6[i]
       /\ \A i \in 1 .. 1 : b7[5 * n + 10 + i] = cl[i]
  <2>1. 5 * n + 10 \in Nat /\ 1 \in Nat /\ 5 * n + 10 + 1 = 5 * n + 11  BY <1>2
  <2>2. b6 \in Seq(StepType) /\ Len(b6) = 5 * n + 10  BY <1>16
  <2>3. cl \in Seq(StepType) /\ Len(cl) = 1  BY <1>8
  <2>4. /\ b7 \in Seq(StepType) /\ Len(b7) = Len(b6) + Len(cl)
        /\ \A i \in 1 .. Len(b6) : b7[i] = b6[i]
        /\ \A i \in 1 .. Len(cl) : b7[Len(b6) + i] = cl[i]
    BY <2>2, <2>3, Joined, Zenon
  <2> HIDE DEF b7
  <2> QED  BY <2>1, <2>2, <2>3, <2>4, Zenon
<1> HIDE DEF b7
\* What is behind stays where it is.
<1>18. ASSUME NEW i \in 1 .. 4 * n + 10  PROVE b7[i] = b5[i]
  <2>1. i \in 1 .. 5 * n + 10  BY <1>2
  <2> QED  BY <2>1, <1>17, <1>16
<1>19. ASSUME NEW i \in 1 .. 4 * n + 4  PROVE b7[i] = b4[i]
  <2>1. i \in 1 .. 4 * n + 10  BY <1>2
  <2> QED  BY <2>1, <1>18, <1>15
<1>20. ASSUME NEW i \in 1 .. 3 * n + 4  PROVE b7[i] = b3[i]
  <2>1. i \in 1 .. 4 * n + 4  BY <1>2
  <2> QED  BY <2>1, <1>19, <1>14
<1>21. ASSUME NEW i \in 1 .. 3 * n + 3  PROVE b7[i] = b2[i]
  <2>1. i \in 1 .. 3 * n + 4  BY <1>2
  <2> QED  BY <2>1, <1>20, <1>13
<1>22. ASSUME NEW i \in 1 .. 2 * n + 3  PROVE b7[i] = b1[i]
  <2>1. i \in 1 .. 3 * n + 3  BY <1>2
  <2> QED  BY <2>1, <1>21, <1>12
<1>23. ASSUME NEW i \in 1 .. 2 * n + 2  PROVE b7[1 + i] = a2[i]
  <2>1. 1 + i \in 1 .. 2 * n + 3  BY <1>2
  <2> QED  BY <1>11, <1>22, <2>1
<1>24. ASSUME NEW i \in 1 .. n + 2  PROVE b7[1 + i] = a1[i]
  <2>1. i \in 1 .. 2 * n + 2  BY <1>2
  <2> QED  BY <1>10, <1>23, <2>1
<1>25. ASSUME NEW i \in 1 .. n  PROVE b7[1 + i] = Step("try_delete", dags[i])
  <2>1. i \in 1 .. n + 2  BY <1>2
  <2> QED  BY <1>3, <1>9, <1>24, <2>1
<1>26. b7[n + 2] = Whole("clear") /\ b7[n + 3] = [op |-> "publish", dags |-> ToSet(dags)]
  <2>1. /\ n + 1 \in 1 .. n + 2 /\ n + 2 \in 1 .. n + 2
        /\ 1 + (n + 1) = n + 2 /\ 1 + (n + 2) = n + 3
    BY <1>2
  <2>2. b7[n + 2] = a1[n + 1] /\ b7[n + 3] = a1[n + 2]  BY <1>24, <2>1
  <2>3. a1[n + 1] = c1[1] /\ a1[n + 2] = c1[2]  BY <1>9
  <2> QED  BY <1>6, <2>2, <2>3
<1>27. ASSUME NEW i \in 1 .. n  PROVE b7[n + 3 + i] = Step("wait", dags[i])
  <2>1. n + 2 + i \in 1 .. 2 * n + 2 /\ 1 + (n + 2 + i) = n + 3 + i  BY <1>2
  <2>2. b7[n + 3 + i] = a2[n + 2 + i]  BY <1>23, <2>1
  <2> QED  BY <1>3, <1>10, <2>2
<1>28. ASSUME NEW i \in 1 .. n  PROVE b7[2 * n + 3 + i] = Step("start", dags[i])
  <2>1. 2 * n + 3 + i \in 1 .. 3 * n + 3  BY <1>2
  <2> QED  BY <1>2, <1>3, <1>12, <1>21, <2>1
<1>29. b7[1] = Whole("scale") /\ b7[3 * n + 4] = Whole("collect")
  <2>1. 1 \in 1 .. 2 * n + 3 /\ 3 * n + 4 \in 1 .. 3 * n + 4 /\ 3 * n + 3 + 1 = 3 * n + 4
    BY <1>2
  <2>2. b7[1] = b1[1] /\ b7[3 * n + 4] = b3[3 * n + 4]  BY <1>20, <1>22, <2>1
  <2>3. b1[1] = sc[1]  BY <1>11
  <2>4. b3[3 * n + 3 + 1] = co[1]  BY <1>13
  <2> QED  BY <1>8, <2>1, <2>2, <2>3, <2>4
<1>30. ASSUME NEW i \in 1 .. n  PROVE b7[3 * n + 4 + i] = Step("stop", dags[i])
  <2>1. 3 * n + 4 + i \in 1 .. 4 * n + 4  BY <1>2
  <2> QED  BY <1>2, <1>3, <1>14, <1>19, <2>1
<1>31. ASSUME NEW i \in 1 .. 6  PROVE b7[4 * n + 4 + i] = ExportMetrics[i]
  <2>1. 4 * n + 4 + i \in 1 .. 4 * n + 10  BY <1>2
  <2> QED  BY <1>15, <1>18, <2>1
<1>32. /\ b7[4 * n + 5] = Step("publish", ExportDag)
       /\ b7[4 * n + 6] = Step("wait", ExportDag)
       /\ b7[4 * n + 7] = Step("start", ExportDag)
       /\ b7[4 * n + 8] = Step("trigger", ExportDag)
       /\ b7[4 * n + 9] = Step("stop", ExportDag)
       /\ b7[4 * n + 10] = Step("delete", ExportDag)
  <2>1. /\ 4 * n + 4 + 1 = 4 * n + 5 /\ 4 * n + 4 + 2 = 4 * n + 6
        /\ 4 * n + 4 + 3 = 4 * n + 7 /\ 4 * n + 4 + 4 = 4 * n + 8
        /\ 4 * n + 4 + 5 = 4 * n + 9 /\ 4 * n + 4 + 6 = 4 * n + 10
    BY <1>2
  <2>2. /\ b7[4 * n + 4 + 1] = ExportMetrics[1] /\ b7[4 * n + 4 + 2] = ExportMetrics[2]
        /\ b7[4 * n + 4 + 3] = ExportMetrics[3] /\ b7[4 * n + 4 + 4] = ExportMetrics[4]
        /\ b7[4 * n + 4 + 5] = ExportMetrics[5] /\ b7[4 * n + 4 + 6] = ExportMetrics[6]
    BY <1>31
  <2> QED  BY <1>7, <2>1, <2>2, Zenon
<1>33. ASSUME NEW i \in 1 .. n  PROVE b7[4 * n + 10 + i] = Step("delete", dags[i])
  <2>1. 4 * n + 10 + i \in 1 .. 5 * n + 10  BY <1>2
  <2> QED  BY <1>2, <1>3, <1>16, <1>17, <2>1
<1>34. b7[5 * n + 11] = Whole("clear")
  <2>1. 5 * n + 10 + 1 = 5 * n + 11  BY <1>2
  <2>2. b7[5 * n + 10 + 1] = cl[1]  BY <1>17
  <2> QED  BY <1>8, <2>1, <2>2
<1> QED
  BY <1>1, <1>17, <1>25, <1>26, <1>27, <1>28, <1>29, <1>30, <1>32, <1>33, <1>34, Zenon
  DEF IsProgram, n

-----------------------------------------------------------------------------
(* Where a thread is.                                                      *)

Size == Len(Plan[experiment])
D(i) == Plan[experiment][i]

LEMMA PlanFacts ==
  ASSUME NEW e \in 1 .. Len(Plan)
  PROVE  /\ Len(Plan) \in Nat /\ DOMAIN Plan = 1 .. Len(Plan)
         /\ Len(Plan[e]) \in Nat
         /\ \A i \in 1 .. Len(Plan[e]) : Plan[e][i] \in Dag
         /\ ToSet(Plan[e]) = {Plan[e][i] : i \in 1 .. Len(Plan[e])}
         /\ IsProgram(Programs[e], Plan[e], Len(Plan[e]))
<1>1. Plan \in Seq(Seq(Dag) \ {<<>>})  BY ExperimentsAssumption
<1>2. Len(Plan) \in Nat /\ DOMAIN Plan = 1 .. Len(Plan)  BY <1>1, LenProperties
<1>3. Plan[e] \in Seq(Dag)  BY <1>1, ElementOfSeq
<1>4. Len(Plan[e]) \in Nat /\ DOMAIN Plan[e] = 1 .. Len(Plan[e])
  BY <1>3, LenProperties
<1>5. \A i \in 1 .. Len(Plan[e]) : Plan[e][i] \in Dag  BY <1>3, ElementOfSeq
<1>6. ToSet(Plan[e]) = {Plan[e][i] : i \in 1 .. Len(Plan[e])}  BY <1>4, Zenon DEF ToSet
<1>7. Programs[e] = RunExperiment(Plan[e])  BY <1>2, Zenon DEF Programs
<1>8. IsProgram(RunExperiment(Plan[e]), Plan[e], Len(Plan[e]))  BY <1>3, ProgramShape
<1> QED  BY <1>2, <1>4, <1>5, <1>6, <1>7, <1>8

\* The place of a running thread, and what it does next.
Places ==
  \/ done = 0 /\ Current = Whole("scale")
  \/ \E i \in 1 .. Size : done = i /\ Current = Step("try_delete", D(i))
  \/ done = Size + 1 /\ Current = Whole("clear")
  \/ done = Size + 2 /\ Current = [op |-> "publish", dags |-> Own]
  \/ \E i \in 1 .. Size : done = Size + 2 + i /\ Current = Step("wait", D(i))
  \/ \E i \in 1 .. Size : done = 2 * Size + 2 + i /\ Current = Step("start", D(i))
  \/ done = 3 * Size + 3 /\ Current = Whole("collect")
  \/ \E i \in 1 .. Size : done = 3 * Size + 3 + i /\ Current = Step("stop", D(i))
  \/ done = 4 * Size + 4 /\ Current = Step("publish", ExportDag)
  \/ done = 4 * Size + 5 /\ Current = Step("wait", ExportDag)
  \/ done = 4 * Size + 6 /\ Current = Step("start", ExportDag)
  \/ done = 4 * Size + 7 /\ Current = Step("trigger", ExportDag)
  \/ done = 4 * Size + 8 /\ Current = Step("stop", ExportDag)
  \/ done = 4 * Size + 9 /\ Current = Step("delete", ExportDag)
  \/ \E i \in 1 .. Size : done = 4 * Size + 9 + i /\ Current = Step("delete", D(i))
  \/ done = 5 * Size + 10 /\ Current = Whole("clear")

LEMMA ThreadPlace ==
  ASSUME TypeOK, Running
  PROVE  /\ Size \in Nat /\ Len(Programs[experiment]) = 5 * Size + 11
         /\ experiment \in 1 .. Len(Plan) /\ Len(Plan) \in Nat
         /\ done \in 0 .. 5 * Size + 10
         /\ \A i \in 1 .. Size : D(i) \in Dag
         /\ Own = {D(i) : i \in 1 .. Size}
         /\ Places
<1> DEFINE n == Size
           p == Programs[experiment]
<1>1. experiment \in 1 .. Len(Plan) /\ Len(Plan) \in Nat
  <2>1. Plan \in Seq(Seq(Dag) \ {<<>>})  BY ExperimentsAssumption
  <2>2. DOMAIN Plan = 1 .. Len(Plan) /\ Len(Plan) \in Nat  BY <2>1, LenProperties
  <2> QED  BY <2>2 DEF Running
<1>2. /\ n \in Nat /\ IsProgram(p, Plan[experiment], n)
      /\ \A i \in 1 .. n : D(i) \in Dag
      /\ Own = {D(i) : i \in 1 .. n}
  BY <1>1, PlanFacts DEF Size, D, Own
<1>3. Len(p) = 5 * n + 11  BY <1>2 DEF IsProgram
<1>4. done \in 0 .. 5 * n + 10
  <2>1. done \in 0 .. Len(p) - 1  BY DEF TypeOK
  <2> QED  BY <1>2, <1>3, <2>1
<1>5. \/ done + 1 = 1
      \/ \E i \in 1 .. n : done + 1 = 1 + i
      \/ done + 1 = n + 2 \/ done + 1 = n + 3
      \/ \E i \in 1 .. n : done + 1 = n + 3 + i
      \/ \E i \in 1 .. n : done + 1 = 2 * n + 3 + i
      \/ done + 1 = 3 * n + 4
      \/ \E i \in 1 .. n : done + 1 = 3 * n + 4 + i
      \/ done + 1 \in 4 * n + 5 .. 4 * n + 10
      \/ \E i \in 1 .. n : done + 1 = 4 * n + 10 + i
      \/ done + 1 = 5 * n + 11
  <2> HIDE DEF n
  <2>1. done \in Nat /\ n \in Nat  BY <1>2, <1>4
  <2>2. CASE done + 1 <= n + 3
    <3>1. done + 1 = 1 \/ done + 1 = n + 2 \/ done + 1 = n + 3 \/ done \in 1 .. n
      BY <2>1, <2>2
    <3>2. done \in 1 .. n => \E i \in 1 .. n : done + 1 = 1 + i  BY <2>1
    <3> QED  BY <3>1, <3>2
  <2>3. CASE done + 1 > n + 3 /\ done + 1 <= 2 * n + 3
    <3>1. done + 1 - (n + 3) \in 1 .. n /\ done + 1 = n + 3 + (done + 1 - (n + 3))
      BY <2>1, <2>3
    <3> QED  BY <3>1
  <2>4. CASE done + 1 > 2 * n + 3 /\ done + 1 <= 3 * n + 3
    <3>1. /\ done + 1 - (2 * n + 3) \in 1 .. n
          /\ done + 1 = 2 * n + 3 + (done + 1 - (2 * n + 3))
      BY <2>1, <2>4
    <3> QED  BY <3>1
  <2>5. CASE done + 1 > 3 * n + 4 /\ done + 1 <= 4 * n + 4
    <3>1. /\ done + 1 - (3 * n + 4) \in 1 .. n
          /\ done + 1 = 3 * n + 4 + (done + 1 - (3 * n + 4))
      BY <2>1, <2>5
    <3> QED  BY <3>1
  <2>6. CASE done + 1 > 4 * n + 10 /\ done + 1 <= 5 * n + 10
    <3>1. /\ done + 1 - (4 * n + 10) \in 1 .. n
          /\ done + 1 = 4 * n + 10 + (done + 1 - (4 * n + 10))
      BY <2>1, <2>6
    <3> QED  BY <3>1
  <2>7. \/ done + 1 <= n + 3
        \/ done + 1 > n + 3 /\ done + 1 <= 2 * n + 3
        \/ done + 1 > 2 * n + 3 /\ done + 1 <= 3 * n + 3
        \/ done + 1 = 3 * n + 4
        \/ done + 1 > 3 * n + 4 /\ done + 1 <= 4 * n + 4
        \/ done + 1 \in 4 * n + 5 .. 4 * n + 10
        \/ done + 1 > 4 * n + 10 /\ done + 1 <= 5 * n + 10
        \/ done + 1 = 5 * n + 11
    BY <1>4, <2>1
  <2> QED  BY <2>2, <2>3, <2>4, <2>5, <2>6, <2>7
<1>6. Current = p[done + 1]  BY DEF Current
<1>7. Own = ToSet(Plan[experiment])  BY DEF Own
<1>8. Places
  <2>0. done \in Nat /\ n \in Nat  BY <1>2, <1>4
  <2>1. CASE done + 1 = 1
    <3>1. done = 0  BY <2>0, <2>1
    <3> QED  BY <1>2, <1>6, <2>1, <3>1, Zenon DEF IsProgram, Places
  <2>2. ASSUME NEW i \in 1 .. n, done + 1 = 1 + i  PROVE Places
    <3>1. done = i  BY <2>0, <2>2
    <3>2. Current = Step("try_delete", D(i))
      BY <1>2, <1>6, <2>2, Zenon DEF IsProgram, D
    <3> QED  BY <3>1, <3>2, Zenon DEF Places
  <2>3. CASE done + 1 = n + 2
    <3>1. done = n + 1  BY <2>0, <2>3
    <3> QED  BY <1>2, <1>6, <2>3, <3>1, Zenon DEF IsProgram, Places
  <2>4. CASE done + 1 = n + 3
    <3>1. done = n + 2  BY <2>0, <2>4
    <3> QED  BY <1>2, <1>6, <1>7, <2>4, <3>1, Zenon DEF IsProgram, Places
  <2>5. ASSUME NEW i \in 1 .. n, done + 1 = n + 3 + i  PROVE Places
    <3>1. done = n + 2 + i  BY <2>0, <2>5
    <3>2. Current = Step("wait", D(i))
      BY <1>2, <1>6, <2>5, Zenon DEF IsProgram, D
    <3> QED  BY <3>1, <3>2, Zenon DEF Places
  <2>6. ASSUME NEW i \in 1 .. n, done + 1 = 2 * n + 3 + i  PROVE Places
    <3>1. done = 2 * n + 2 + i  BY <2>0, <2>6
    <3>2. Current = Step("start", D(i))
      BY <1>2, <1>6, <2>6, Zenon DEF IsProgram, D
    <3> QED  BY <3>1, <3>2, Zenon DEF Places
  <2>7. CASE done + 1 = 3 * n + 4
    <3>1. done = 3 * n + 3  BY <2>0, <2>7
    <3> QED  BY <1>2, <1>6, <2>7, <3>1, Zenon DEF IsProgram, Places
  <2>8. ASSUME NEW i \in 1 .. n, done + 1 = 3 * n + 4 + i  PROVE Places
    <3>1. done = 3 * n + 3 + i  BY <2>0, <2>8
    <3>2. Current = Step("stop", D(i))
      BY <1>2, <1>6, <2>8, Zenon DEF IsProgram, D
    <3> QED  BY <3>1, <3>2, Zenon DEF Places
  <2>9. CASE done + 1 \in 4 * n + 5 .. 4 * n + 10
    <3>1. \/ done = 4 * n + 4 /\ done + 1 = 4 * n + 5
          \/ done = 4 * n + 5 /\ done + 1 = 4 * n + 6
          \/ done = 4 * n + 6 /\ done + 1 = 4 * n + 7
          \/ done = 4 * n + 7 /\ done + 1 = 4 * n + 8
          \/ done = 4 * n + 8 /\ done + 1 = 4 * n + 9
          \/ done = 4 * n + 9 /\ done + 1 = 4 * n + 10
      BY <2>0, <2>9
    <3> QED  BY <1>2, <1>6, <3>1, Zenon DEF IsProgram, Places
  <2>10. ASSUME NEW i \in 1 .. n, done + 1 = 4 * n + 10 + i  PROVE Places
    <3>1. done = 4 * n + 9 + i  BY <2>0, <2>10
    <3>2. Current = Step("delete", D(i))
      BY <1>2, <1>6, <2>10, Zenon DEF IsProgram, D
    <3> QED  BY <3>1, <3>2, Zenon DEF Places
  <2>11. CASE done + 1 = 5 * n + 11
    <3>1. done = 5 * n + 10  BY <2>0, <2>11
    <3> QED  BY <1>2, <1>6, <2>11, <3>1, Zenon DEF IsProgram, Places
  <2> QED
    BY <1>5, <2>1, <2>2, <2>3, <2>4, <2>5, <2>6, <2>7, <2>8, <2>9, <2>10, <2>11
<1> QED  BY <1>1, <1>2, <1>3, <1>4, <1>8

-----------------------------------------------------------------------------
(* Types.                                                                  *)

LEMMA ThreadTypes ==
  ASSUME TypeOK, Running
  PROVE  /\ Advance => /\ experiment' \in 1 .. Len(Plan) + 1 /\ kept' \subseteq Dag
                       /\ failed' \subseteq AnyDag
                       /\ done' \in 0 .. IF Running' THEN Len(Programs[experiment']) - 1
                                                     ELSE 0
         /\ Raise => /\ experiment' \in 1 .. Len(Plan) + 1 /\ kept' \subseteq Dag
                     /\ failed' \subseteq AnyDag
                     /\ done' \in 0 .. IF Running' THEN Len(Programs[experiment']) - 1
                                                   ELSE 0
<1>1. /\ Size \in Nat /\ Len(Programs[experiment]) = 5 * Size + 11
      /\ experiment \in 1 .. Len(Plan) /\ Len(Plan) \in Nat
      /\ done \in 0 .. 5 * Size + 10
      /\ Own \subseteq Dag
  BY ThreadPlace
<1>2. failed \subseteq AnyDag /\ kept \subseteq Dag  BY DEF TypeOK
<1>3. ASSUME experiment' = experiment + 1, done' = 0
      PROVE  /\ experiment' \in 1 .. Len(Plan) + 1
             /\ done' \in 0 .. IF Running' THEN Len(Programs[experiment']) - 1 ELSE 0
  <2>1. experiment' \in 1 .. Len(Plan) + 1  BY <1>1, <1>3
  <2>2. ASSUME Running'  PROVE 0 \in 0 .. Len(Programs[experiment']) - 1
    <3>1. experiment' \in 1 .. Len(Plan)  BY <1>1, <2>2, PlanFacts DEF Running
    <3>2. PICK n \in Nat : Len(Programs[experiment']) = 5 * n + 11
      BY <3>1, PlanFacts DEF IsProgram
    <3> QED  BY <3>2
  <2> QED  BY <1>3, <2>1, <2>2
<1>4. ASSUME Advance
      PROVE  /\ experiment' \in 1 .. Len(Plan) + 1 /\ kept' \subseteq Dag
             /\ failed' \subseteq AnyDag
             /\ done' \in 0 .. IF Running' THEN Len(Programs[experiment']) - 1 ELSE 0
  <2>1. CASE done + 1 < Len(Programs[experiment])
    <3>1. /\ done' = done + 1 /\ experiment' = experiment /\ kept' = kept
          /\ failed' = failed
      BY <1>4, <2>1 DEF Advance
    <3>2. Running' /\ Programs[experiment'] = Programs[experiment]  BY <3>1 DEF Running
    <3>3. done' \in 0 .. Len(Programs[experiment']) - 1  BY <1>1, <2>1, <3>1, <3>2
    <3>4. experiment' \in 1 .. Len(Plan) + 1  BY <1>1, <3>1
    <3> QED  BY <1>2, <3>1, <3>2, <3>3, <3>4
  <2>2. CASE ~(done + 1 < Len(Programs[experiment]))
    <3>1. /\ done' = 0 /\ experiment' = experiment + 1 /\ kept' = {}
          /\ failed' = failed \ (Own \cup {ExportDag})
      BY <1>4, <2>2 DEF Advance
    <3> QED  BY <1>2, <1>3, <3>1
  <2> QED  BY <2>1, <2>2
<1>5. ASSUME Raise
      PROVE  /\ experiment' \in 1 .. Len(Plan) + 1 /\ kept' \subseteq Dag
             /\ failed' \subseteq AnyDag
             /\ done' \in 0 .. IF Running' THEN Len(Programs[experiment']) - 1 ELSE 0
  <2>1. /\ done' = 0 /\ experiment' = experiment + 1 /\ kept' = {}
        /\ failed' = failed \cup Own \cup {ExportDag}
    BY <1>5 DEF Raise
  <2>2. failed' \subseteq AnyDag  BY <1>1, <1>2, <2>1 DEF AnyDag
  <2> QED  BY <1>3, <2>1, <2>2
<1> QED  BY <1>4, <1>5

\* The steps that swallow exceptions come before the others.
LEMMA SwallowTypes ==
  ASSUME TypeOK, Running, Current.op = "try_delete", NEW some, Swallow(some),
         some \subseteq Current.dags
  PROVE  /\ done \in 1 .. Size /\ Current = Step("try_delete", D(done))
         /\ experiment' \in 1 .. Len(Plan) + 1 /\ kept' \subseteq Dag
         /\ failed' \subseteq AnyDag
         /\ done' \in 0 .. IF Running' THEN Len(Programs[experiment']) - 1 ELSE 0
<1>1. /\ Size \in Nat /\ Len(Programs[experiment]) = 5 * Size + 11
      /\ experiment \in 1 .. Len(Plan) /\ Len(Plan) \in Nat
      /\ \A i \in 1 .. Size : D(i) \in Dag
      /\ Places
  BY ThreadPlace
<1>2. done \in 1 .. Size /\ Current = Step("try_delete", D(done))
  BY <1>1 DEF Places, Whole, Step
<1>3. some \subseteq Dag  BY <1>1, <1>2 DEF Step
<1>4. /\ done' = done + 1 /\ kept' = kept \cup some /\ experiment' = experiment
      /\ failed' = failed
  BY DEF Swallow
<1>5. Running' /\ Programs[experiment'] = Programs[experiment]  BY <1>4 DEF Running
<1>6. done' \in 0 .. Len(Programs[experiment']) - 1  BY <1>1, <1>2, <1>4, <1>5
<1>7. kept' \subseteq Dag /\ failed' \subseteq AnyDag  BY <1>3, <1>4 DEF TypeOK
<1> QED  BY <1>1, <1>2, <1>4, <1>5, <1>6, <1>7

LEMMA CurrentDags ==
  ASSUME TypeOK, Running
  PROVE  /\ Current.dags \subseteq Own \cup {ExportDag}
         /\ Own \subseteq Dag
         /\ Current.op \in {"delete", "try_delete"} =>
              \E d \in AnyDag : Current.dags = {d}
<1>1. /\ \A i \in 1 .. Size : D(i) \in Dag /\ D(i) \in Own
      /\ Own \subseteq Dag /\ Places
  BY ThreadPlace
<1>2. Current.dags \subseteq Own \cup {ExportDag}  BY <1>1 DEF Places, Whole, Step
<1>3. Current.op \in {"delete", "try_delete"} => \E d \in AnyDag : Current.dags = {d}
  BY <1>1 DEF Places, Whole, Step, AnyDag
<1> QED  BY <1>1, <1>2, <1>3

\* What the dag, dag_run and task_instance rows are of.
RowTypes ==
  /\ triggered \in BOOLEAN
  /\ known \subseteq AnyDag /\ unpaused \cup active \cup busy \subseteq known
  /\ ran \in [AnyDag -> SUBSET (1 .. Len(Plan) + 1)]

\* A dag without a row has no runs.
Gone == \A d \in AnyDag \ known : ran[d] = {}

\* What a call may have done to the rows.
Touches(op, dags) ==
  /\ busy' = busy
  /\ \A d \in AnyDag \ dags : (d \in unpaused' <=> d \in unpaused) /\ ran'[d] = ran[d]
  /\ \A d \in AnyDag : ran'[d] \in {ran[d], {}}
  /\ op # "start" => unpaused' \subseteq unpaused
  /\ op = "start" => unpaused' = unpaused \cup dags
  /\ op = "stop" => dags \cap unpaused' = {}
  /\ op \in {"delete", "try_delete"} =>
       \A d \in dags : d \notin unpaused' \cup busy' /\ ran'[d] = {}

LEMMA CallTouches ==
  ASSUME TypeOK, Running, Gone, Possible(Current.op, Current.dags),
         Effect(Current.op, Current.dags)
  PROVE  RowTypes' /\ Gone' /\ Touches(Current.op, Current.dags)
<1> DEFINE op == Current.op
           dags == Current.dags
<1>0. /\ dags \subseteq AnyDag
      /\ op \in {"delete", "try_delete"} => \E d \in AnyDag : dags = {d}
  BY CurrentDags DEF AnyDag
<1>1. /\ triggered \in BOOLEAN /\ known \subseteq AnyDag
      /\ unpaused \subseteq known /\ active \subseteq known /\ busy \subseteq known
      /\ ran \in [AnyDag -> SUBSET (1 .. Len(Plan) + 1)]
  BY DEF TypeOK
<1>2. Possible(op, dags) /\ Effect(op, dags)  OBVIOUS
<1> SUFFICES RowTypes' /\ Gone' /\ Touches(op, dags)  OBVIOUS
<1> HIDE DEF op, dags
<1>3. CASE UNCHANGED rowVars /\ op \in {"wait", "scale", "collect"}
  BY <1>1, <1>3 DEF rowVars, RowTypes, Gone, Touches
<1>4. CASE op \in {"wait", "stop"} /\ SetPaused(dags)
  BY <1>1, <1>4 DEF SetPaused, RowTypes, Gone, Touches
<1>5. CASE op = "start" /\ unpaused' = unpaused \cup dags
           /\ UNCHANGED <<known, active, busy, triggered, ran>>
  <2>1. dags \subseteq known  BY <1>2, <1>5 DEF Possible
  <2> QED  BY <1>1, <1>5, <2>1 DEF RowTypes, Gone, Touches
<1>6. CASE op = "trigger" /\ triggered' = TRUE
           /\ UNCHANGED <<known, unpaused, active, busy, ran>>
  BY <1>1, <1>6 DEF RowTypes, Gone, Touches
<1>7. CASE op \in {"delete", "try_delete"} /\ \E d \in dags : Delete(d)
  <2>1. PICK d \in AnyDag : dags = {d}  BY <1>0, <1>7
  <2>2. Delete(d)  BY <1>7, <2>1
  <2>3. d \notin busy  BY <1>2, <1>7, <2>1 DEF Possible, Deletable
  <2>4. /\ known' = known \ {d} /\ unpaused' = unpaused \ {d} /\ active' = active \ {d}
        /\ ran' = [ran EXCEPT ![d] = {}] /\ triggered' \in BOOLEAN /\ busy' = busy
    BY <2>2 DEF Delete
  <2>5. RowTypes'  BY <1>1, <2>3, <2>4 DEF RowTypes
  <2>6. Gone'  BY <1>1, <2>4 DEF Gone
  <2>7. Touches(op, dags)  BY <1>1, <1>7, <2>1, <2>3, <2>4 DEF Touches
  <2> QED  BY <2>5, <2>6, <2>7
<1>8. \/ UNCHANGED rowVars /\ op \in {"wait", "scale", "collect"}
      \/ op \in {"wait", "stop"} /\ SetPaused(dags)
      \/ /\ op = "start" /\ unpaused' = unpaused \cup dags
         /\ UNCHANGED <<known, active, busy, triggered, ran>>
      \/ /\ op = "trigger" /\ triggered' = TRUE
         /\ UNCHANGED <<known, unpaused, active, busy, ran>>
      \/ op \in {"delete", "try_delete"} /\ \E d \in dags : Delete(d)
  BY <1>2 DEF Effect
<1> QED  BY <1>3, <1>4, <1>5, <1>6, <1>7, <1>8

-----------------------------------------------------------------------------
(* The inductive invariant.                                                *)

Clean(d) == d \notin unpaused \cup busy

\* How far an experiment is with its own dags: none has a run of an earlier one, but
\* those it could not delete; all are started when the metrics are collected, paused
\* after that, and gone in the end.
Started ==
  Running =>
    \A i \in 1 .. Size :
      /\ done >= 1 + i => ran[D(i)] \subseteq {experiment} \/ D(i) \in kept
      /\ done \in 2 * Size + 3 + i .. 3 * Size + 3 => D(i) \in unpaused
      /\ done >= 3 * Size + 4 + i => D(i) \notin unpaused
      /\ done >= 4 * Size + 10 + i => Clean(D(i))

\* No other dag runs, unless its last experiment raised an exception; the export dag
\* runs while it exports, and not after that.
Exporting == Running /\ done \in 4 * Size + 7 .. 4 * Size + 9

Others ==
  /\ \A d \in AnyDag \ (failed \cup Own) : Clean(d) \/ (d = ExportDag /\ Exporting)
  /\ Running /\ done >= 4 * Size + 10 => Clean(ExportDag)

IInv == Gone /\ Started /\ Others

\* What a thread does at the places that matter.
LEMMA PlaceFacts ==
  ASSUME TypeOK, Running
  PROVE  /\ \A i \in 1 .. Size : done = i => Current = Step("try_delete", D(i))
         /\ \A i \in 1 .. Size : done = 2 * Size + 2 + i => Current = Step("start", D(i))
         /\ \A i \in 1 .. Size : done = 3 * Size + 3 + i => Current = Step("stop", D(i))
         /\ \A i \in 1 .. Size : done = 4 * Size + 9 + i => Current = Step("delete", D(i))
         /\ done = 4 * Size + 9 => Current = Step("delete", ExportDag)
         /\ done \in 2 * Size + 3 .. 3 * Size + 2 => Current.op = "start"
         /\ Current.op = "start" =>
              \/ done < 3 * Size + 3 /\ ExportDag \notin Current.dags
              \/ done = 4 * Size + 6 /\ Current.dags = {ExportDag}
         /\ Current.op = "collect" => done = 3 * Size + 3
         /\ Current.op = "trigger" => done = 4 * Size + 7
         /\ Current.op \in {"scale", "collect", "wait", "start", "stop", "trigger",
                            "delete", "try_delete"} => done < 5 * Size + 10
<1> DEFINE n == Size
           p == Programs[experiment]
<1>1. /\ n \in Nat /\ done \in 0 .. 5 * n + 10 /\ Places
      /\ \A i \in 1 .. n : D(i) \in Dag
      /\ experiment \in 1 .. Len(Plan)
  BY ThreadPlace
<1>2. IsProgram(p, Plan[experiment], n)  BY <1>1, PlanFacts DEF Size
<1>3. Current = p[done + 1]  BY DEF Current
<1> HIDE DEF n, p
<1>4. ASSUME NEW i \in 1 .. n, done = i  PROVE Current = Step("try_delete", D(i))
  <2>1. done + 1 = 1 + i  BY <1>1, <1>4
  <2> QED  BY <1>2, <1>3, <2>1, Zenon DEF IsProgram, D
<1>5. ASSUME NEW i \in 1 .. n, done = 2 * n + 2 + i  PROVE Current = Step("start", D(i))
  <2>1. done + 1 = 2 * n + 3 + i  BY <1>1, <1>5
  <2> QED  BY <1>2, <1>3, <2>1, Zenon DEF IsProgram, D
<1>6. ASSUME NEW i \in 1 .. n, done = 3 * n + 3 + i  PROVE Current = Step("stop", D(i))
  <2>1. done + 1 = 3 * n + 4 + i  BY <1>1, <1>6
  <2> QED  BY <1>2, <1>3, <2>1, Zenon DEF IsProgram, D
<1>7. ASSUME NEW i \in 1 .. n, done = 4 * n + 9 + i  PROVE Current = Step("delete", D(i))
  <2>1. done + 1 = 4 * n + 10 + i  BY <1>1, <1>7
  <2> QED  BY <1>2, <1>3, <2>1, Zenon DEF IsProgram, D
<1>8. ASSUME done = 4 * n + 9  PROVE Current = Step("delete", ExportDag)
  <2>1. done + 1 = 4 * n + 10  BY <1>1, <1>8
  <2> QED  BY <1>2, <1>3, <2>1, Zenon DEF IsProgram
<1>9. ASSUME done \in 2 * n + 3 .. 3 * n + 2  PROVE Current.op = "start"
  <2>1. done - (2 * n + 2) \in 1 .. n /\ done = 2 * n + 2 + (done - (2 * n + 2))
    BY <1>1, <1>9
  <2>2. Current = Step("start", D(done - (2 * n + 2)))  BY <1>5, <2>1
  <2> QED  BY <2>2 DEF Step
<1>10. ASSUME Current.op = "start"
       PROVE  \/ done < 3 * n + 3 /\ ExportDag \notin Current.dags
              \/ done = 4 * n + 6 /\ Current.dags = {ExportDag}
  <2>1. \/ \E i \in 1 .. n : done = 2 * n + 2 + i /\ Current = Step("start", D(i))
        \/ done = 4 * n + 6 /\ Current = Step("start", ExportDag)
    BY <1>1, <1>10 DEF Places, Whole, Step, n
  <2>2. ASSUME NEW i \in 1 .. n, done = 2 * n + 2 + i, Current = Step("start", D(i))
        PROVE  done < 3 * n + 3 /\ ExportDag \notin Current.dags
    BY <1>1, <2>2, ExperimentsAssumption DEF Step
  <2>3. Current = Step("start", ExportDag) => Current.dags = {ExportDag}  BY DEF Step
  <2> QED  BY <2>1, <2>2, <2>3
<1>11. Current.op = "collect" => done = 3 * n + 3  BY <1>1 DEF Places, Whole, Step, n
<1>12. Current.op = "trigger" => done = 4 * n + 7  BY <1>1 DEF Places, Whole, Step, n
<1>13. ASSUME done = 5 * n + 10  PROVE Current.op = "clear"
  <2>1. done + 1 = 5 * n + 11  BY <1>1, <1>13
  <2>2. Current = Whole("clear")  BY <1>2, <1>3, <2>1, Zenon DEF IsProgram
  <2> QED  BY <2>2 DEF Whole
<1>14. Current.op \in {"scale", "collect", "wait", "start", "stop", "trigger",
                       "delete", "try_delete"} => done < 5 * n + 10
  <2>1. done < 5 * n + 10 \/ done = 5 * n + 10  BY <1>1
  <2> QED  BY <1>13, <2>1
<1> QED
  BY <1>4, <1>5, <1>6, <1>7, <1>8, <1>9, <1>10, <1>11, <1>12, <1>14 DEF n

\* A step that is not an experiment's last.
Moves(op, dags) ==
  /\ busy' = busy
  /\ \A d \in AnyDag \ dags : (d \in unpaused' <=> d \in unpaused) /\ ran'[d] = ran[d]
  /\ \A d \in AnyDag : ran'[d] \in {ran[d], {}}
  /\ op # "start" => unpaused' \subseteq unpaused
  /\ op = "start" => unpaused' = unpaused \cup dags
  /\ op = "stop" => dags \cap unpaused' = {}
  /\ op = "delete" => \A d \in dags : Clean(d)'
  /\ op = "try_delete" => \A d \in dags : ran'[d] = {} \/ d \in kept'

LEMMA GoesOn ==
  ASSUME TypeOK, Running, Started, Others, Moves(Current.op, Current.dags),
         experiment' = experiment, done' = done + 1, failed' = failed,
         kept \subseteq kept'
  PROVE  Started' /\ Others'
<1> DEFINE n == Size
           op == Current.op
           dags == Current.dags
<1>1. /\ n \in Nat /\ done \in Nat /\ ExportDag \in AnyDag
      /\ \A i \in 1 .. n : D(i) \in AnyDag /\ D(i) # ExportDag
  BY ThreadPlace, ExperimentsAssumption DEF AnyDag
<1>2. /\ n' = n /\ Own' = Own /\ Running' /\ \A i \in 1 .. n : D(i)' = D(i)
  BY DEF Size, Own, Running, D
<1>3. dags \subseteq Own \cup {ExportDag}  BY CurrentDags
<1>4. /\ busy' = busy
      /\ \A d \in AnyDag \ dags : (d \in unpaused' <=> d \in unpaused)
      /\ \A d \in AnyDag : ran'[d] \in {ran[d], {}}
      /\ op # "start" => unpaused' \subseteq unpaused
      /\ op = "start" => unpaused' = unpaused \cup dags
      /\ op = "stop" => dags \cap unpaused' = {}
      /\ op = "delete" => \A d \in dags : Clean(d)'
      /\ op = "try_delete" => \A d \in dags : ran'[d] = {} \/ d \in kept'
  BY DEF Moves
<1>5. \A i \in 1 .. n :
        /\ done = i => op = "try_delete" /\ dags = {D(i)}
        /\ done = 2 * n + 2 + i => op = "start" /\ dags = {D(i)}
        /\ done = 3 * n + 3 + i => op = "stop" /\ dags = {D(i)}
        /\ done = 4 * n + 9 + i => op = "delete" /\ dags = {D(i)}
  BY PlaceFacts DEF Step
<1>6. /\ done = 4 * n + 9 => op = "delete" /\ dags = {ExportDag}
      /\ done \in 2 * n + 3 .. 3 * n + 2 => op = "start"
      /\ op = "start" => \/ done < 3 * n + 3 /\ ExportDag \notin dags
                         \/ done = 4 * n + 6 /\ dags = {ExportDag}
  BY PlaceFacts DEF Step
<1>7. \A i \in 1 .. n :
        /\ done >= 1 + i => ran[D(i)] \subseteq {experiment} \/ D(i) \in kept
        /\ done \in 2 * n + 3 + i .. 3 * n + 3 => D(i) \in unpaused
        /\ done >= 3 * n + 4 + i => D(i) \notin unpaused
        /\ done >= 4 * n + 10 + i => Clean(D(i))
  BY DEF Started
<1>8. ASSUME NEW d \in AnyDag, Clean(d), d \notin dags \/ op # "start"
      PROVE  Clean(d)'
  BY <1>4, <1>8 DEF Clean
<1> SUFFICES /\ \A i \in 1 .. n :
                  /\ done + 1 >= 1 + i => ran'[D(i)] \subseteq {experiment} \/ D(i) \in kept'
                  /\ done + 1 \in 2 * n + 3 + i .. 3 * n + 3 => D(i) \in unpaused'
                  /\ done + 1 >= 3 * n + 4 + i => D(i) \notin unpaused'
                  /\ done + 1 >= 4 * n + 10 + i => Clean(D(i))'
             /\ Others'
  BY <1>2 DEF Started, Clean
<1> HIDE DEF n, op, dags
<1>9. ASSUME NEW i \in 1 .. n
      PROVE  /\ done + 1 >= 1 + i => ran'[D(i)] \subseteq {experiment} \/ D(i) \in kept'
             /\ done + 1 \in 2 * n + 3 + i .. 3 * n + 3 => D(i) \in unpaused'
             /\ done + 1 >= 3 * n + 4 + i => D(i) \notin unpaused'
             /\ done + 1 >= 4 * n + 10 + i => Clean(D(i))'
  <2>0. D(i) \in AnyDag /\ D(i) # ExportDag  BY <1>1
  <2>1. ASSUME done + 1 >= 1 + i
        PROVE  ran'[D(i)] \subseteq {experiment} \/ D(i) \in kept'
    <3>1. done >= 1 + i \/ done = i  BY <1>1, <2>1
    <3>2. done >= 1 + i => ran[D(i)] \subseteq {experiment} \/ D(i) \in kept  BY <1>7
    <3>3. done = i => ran'[D(i)] = {} \/ D(i) \in kept'  BY <1>4, <1>5
    <3>4. ran'[D(i)] \in {ran[D(i)], {}}  BY <1>4, <2>0
    <3> QED  BY <3>1, <3>2, <3>3, <3>4
  <2>2. ASSUME done + 1 \in 2 * n + 3 + i .. 3 * n + 3  PROVE D(i) \in unpaused'
    <3>1. CASE done = 2 * n + 2 + i  BY <1>4, <1>5, <3>1
    <3>2. CASE done # 2 * n + 2 + i
      <4>1. /\ done \in 2 * n + 3 + i .. 3 * n + 3
            /\ done \in 2 * n + 3 .. 3 * n + 2
        BY <1>1, <2>2, <3>2
      <4> QED  BY <1>4, <1>6, <1>7, <4>1
    <3> QED  BY <3>1, <3>2
  <2>3. ASSUME done + 1 >= 3 * n + 4 + i  PROVE D(i) \notin unpaused'
    <3>1. CASE done = 3 * n + 3 + i  BY <1>4, <1>5, <3>1
    <3>2. CASE done # 3 * n + 3 + i
      <4>1. done >= 3 * n + 4 + i /\ ~(done < 3 * n + 3)  BY <1>1, <2>3, <3>2
      <4>2. D(i) \notin unpaused  BY <1>7, <4>1
      <4>3. op = "start" => dags = {ExportDag}  BY <1>6, <4>1
      <4> QED  BY <1>4, <2>0, <4>2, <4>3
    <3> QED  BY <3>1, <3>2
  <2>4. ASSUME done + 1 >= 4 * n + 10 + i  PROVE Clean(D(i))'
    <3>1. CASE done = 4 * n + 9 + i  BY <1>2, <1>4, <1>5, <3>1
    <3>2. CASE done # 4 * n + 9 + i
      <4>1. done >= 4 * n + 10 + i /\ ~(done < 3 * n + 3) /\ done # 4 * n + 6
        BY <1>1, <2>4, <3>2
      <4>2. Clean(D(i)) /\ op # "start"  BY <1>6, <1>7, <4>1
      <4>3. \A d \in AnyDag : Clean(d) => d \notin unpaused' \cup busy'
        BY <1>4, <4>2 DEF Clean
      <4> QED  BY <1>2, <2>0, <4>2, <4>3 DEF Clean
    <3> QED  BY <3>1, <3>2
  <2> QED  BY <2>1, <2>2, <2>3, <2>4
<1>10. Others'
  <2>1. ASSUME NEW d \in AnyDag \ (failed \cup Own), d # ExportDag  PROVE Clean(d)'
    <3>1. Clean(d)  BY <2>1 DEF Others
    <3>2. d \notin dags  BY <1>3, <2>1
    <3> QED  BY <1>8, <3>1, <3>2
  <2>2. ASSUME ExportDag \notin failed \cup Own
        PROVE  Clean(ExportDag)' \/ done + 1 \in 4 * n + 7 .. 4 * n + 9
               \/ done + 1 >= 4 * n + 10
    <3>1. CASE done < 4 * n + 6
      <4>1. ~(done \in 4 * n + 7 .. 4 * n + 9)  BY <1>1, <3>1
      <4>2. Clean(ExportDag)  BY <1>1, <2>2, <4>1 DEF Others, Exporting, n
      <4>3. ExportDag \notin dags \/ op # "start"  BY <1>1, <1>6, <3>1
      <4> QED  BY <1>1, <1>8, <4>2, <4>3
    <3> QED  BY <1>1, <3>1
  <2>3. ASSUME done + 1 >= 4 * n + 10  PROVE Clean(ExportDag)'
    <3>1. CASE done = 4 * n + 9  BY <1>4, <1>6, <3>1
    <3>2. CASE done # 4 * n + 9
      <4>1. done >= 4 * n + 10 /\ ~(done < 3 * n + 3) /\ done # 4 * n + 6
        BY <1>1, <2>3, <3>2
      <4>2. Clean(ExportDag) /\ op # "start"  BY <1>6, <4>1 DEF Others, n
      <4> QED  BY <1>1, <1>8, <4>2
    <3> QED  BY <3>1, <3>2
  <2>4. Exporting' <=> done + 1 \in 4 * n + 7 .. 4 * n + 9  BY <1>2 DEF Exporting, n
  <2>5. \A d \in AnyDag \ (failed \cup Own) :
          Clean(d)' \/ (d = ExportDag /\ Exporting')
    BY <2>1, <2>2, <2>3, <2>4
  <2>6. done' >= 4 * Size' + 10 => Clean(ExportDag)'  BY <1>2, <2>3 DEF n
  <2> QED  BY <1>2, <2>5, <2>6 DEF Others, Clean
<1> QED  BY <1>9, <1>10

\* An exception ends the experiment: whatever it has started is named failed.
LEMMA Raises ==
  ASSUME TypeOK, Running, Others, Raise, busy' = busy,
         \A d \in AnyDag \ Current.dags : d \in unpaused' <=> d \in unpaused
  PROVE  Started' /\ Others'
<1>1. /\ experiment' = experiment + 1 /\ done' = 0
      /\ failed' = failed \cup Own \cup {ExportDag}
  BY DEF Raise
<1>2. Current.dags \subseteq Own \cup {ExportDag}  BY CurrentDags
<1>3. Running' => Size' \in Nat
  <2> SUFFICES ASSUME Running'  PROVE Size' \in Nat  OBVIOUS
  <2>1. experiment \in 1 .. Len(Plan)  BY ThreadPlace
  <2>2. experiment' \in 1 .. Len(Plan)  BY <2>1, PlanFacts DEF Running
  <2> QED  BY <2>2, PlanFacts DEF Size
<1>4. Started'  BY <1>1, <1>3 DEF Started
<1>5. ASSUME NEW d \in AnyDag, d \notin failed'  PROVE Clean(d)'
  <2>1. d \notin failed \cup Own /\ d # ExportDag /\ d \notin Current.dags
    BY <1>1, <1>2, <1>5
  <2>2. Clean(d)  BY <2>1 DEF Others
  <2> QED  BY <2>1, <2>2 DEF Clean
<1>6. Running' => ~(done' >= 4 * Size' + 10)  BY <1>1, <1>3
<1> QED  BY <1>4, <1>5, <1>6 DEF Others, Clean

\* An experiment that comes to its end has cleaned up.
LEMMA Ends ==
  ASSUME TypeOK, Running, Started, Others, done = 5 * Size + 10, Advance,
         UNCHANGED rowVars
  PROVE  Started' /\ Others'
<1>1. /\ Size \in Nat /\ Len(Programs[experiment]) = 5 * Size + 11
      /\ experiment \in 1 .. Len(Plan) /\ Own = {D(i) : i \in 1 .. Size}
  BY ThreadPlace
<1>2. ~(done + 1 < Len(Programs[experiment]))  BY <1>1
<1>3. /\ experiment' = experiment + 1 /\ done' = 0
      /\ failed' = failed \ (Own \cup {ExportDag})
  BY <1>2 DEF Advance
<1>4. Running' => Size' \in Nat
  <2> SUFFICES ASSUME Running'  PROVE Size' \in Nat  OBVIOUS
  <2>1. experiment' \in 1 .. Len(Plan)  BY <1>1, PlanFacts DEF Running
  <2> QED  BY <2>1, PlanFacts DEF Size
<1>5. Started'  BY <1>3, <1>4 DEF Started
<1>6. \A i \in 1 .. Size : Clean(D(i))
  <2> SUFFICES ASSUME NEW i \in 1 .. Size  PROVE Clean(D(i))  OBVIOUS
  <2>1. done >= 4 * Size + 10 + i  BY <1>1
  <2> QED  BY <2>1 DEF Started
<1>7. Clean(ExportDag)
  <2>1. done >= 4 * Size + 10  BY <1>1
  <2> QED  BY <2>1 DEF Others
<1>8. ASSUME NEW d \in AnyDag, d \notin failed'  PROVE Clean(d)'
  <2>1. d \in Own \/ d = ExportDag \/ d \notin failed  BY <1>3, <1>8
  <2>2. Clean(d)
    <3>1. CASE d \in Own  BY <1>1, <1>6, <3>1
    <3>2. CASE d \notin Own /\ d # ExportDag  BY <2>1, <3>2 DEF Others
    <3> QED  BY <1>7, <3>1, <3>2
  <2> QED  BY <2>2 DEF Clean, rowVars
<1>9. Running' => ~(done' >= 4 * Size' + 10)  BY <1>3, <1>4
<1> QED  BY <1>5, <1>8, <1>9 DEF Others, Clean

-----------------------------------------------------------------------------
(* The steps of the thread.                                                *)

CallOps == {"scale", "collect", "wait", "start", "stop", "trigger", "delete", "try_delete"}

\* Before its last step a thread goes on to the next.
LEMMA NotTheLast ==
  ASSUME TypeOK, Running, done < 5 * Size + 10, Advance
  PROVE  done' = done + 1 /\ UNCHANGED <<experiment, kept, failed>>
<1>1. Len(Programs[experiment]) = 5 * Size + 11 /\ Size \in Nat /\ done \in Nat
  BY ThreadPlace
<1>2. done + 1 < Len(Programs[experiment])  BY <1>1
<1> QED  BY <1>2 DEF Advance

\* A step that touches no row moves none.
LEMMA NothingMoves ==
  ASSUME UNCHANGED rowVars, NEW dags,
         NEW op, op \notin {"start", "stop", "delete"},
         op = "try_delete" => \A d \in dags : ran[d] = {} \/ d \in kept'
  PROVE  Moves(op, dags)
BY DEF rowVars, Moves, Clean

LEMMA CallStep ==
  ASSUME TypeOK, IInv, Call
  PROVE  TypeOK' /\ IInv'
<1>1. /\ Running /\ Possible(Current.op, Current.dags)
      /\ Effect(Current.op, Current.dags) /\ Advance
      /\ UNCHANGED <<type, fileVars, failures>>
  BY DEF Call
<1>2. RowTypes' /\ Gone' /\ Touches(Current.op, Current.dags)
  BY <1>1, CallTouches DEF IInv
<1>3. Current.op \in CallOps  BY <1>1 DEF Effect, CallOps
<1>4. done < 5 * Size + 10  BY <1>1, <1>3, PlaceFacts DEF CallOps
<1>5. done' = done + 1 /\ experiment' = experiment /\ kept' = kept /\ failed' = failed
  BY <1>1, <1>4, NotTheLast
<1>6. Moves(Current.op, Current.dags)  BY <1>2 DEF Touches, Moves, Clean
<1>7. Started' /\ Others'  BY <1>1, <1>5, <1>6, GoesOn DEF IInv
<1>8. TypeOK'
  <2>1. /\ experiment' \in 1 .. Len(Plan) + 1 /\ kept' \subseteq Dag
        /\ failed' \subseteq AnyDag
        /\ done' \in 0 .. IF Running' THEN Len(Programs[experiment']) - 1 ELSE 0
    BY <1>1, ThreadTypes
  <2> QED  BY <1>1, <1>2, <2>1 DEF TypeOK, RowTypes, fileVars
<1> QED  BY <1>2, <1>7, <1>8 DEF IInv

LEMMA RefusedStep ==
  ASSUME TypeOK, IInv, Refused
  PROVE  TypeOK' /\ IInv'
<1>1. /\ Running /\ ~Possible(Current.op, Current.dags)
      /\ UNCHANGED <<type, fileVars, rowVars, failures>>
      /\ IF Current.op = "try_delete" THEN Swallow(Current.dags \cap known) ELSE Raise
  BY DEF Refused
<1>2. Gone'  BY <1>1 DEF IInv, Gone, rowVars
<1>3. CASE Current.op = "try_delete"
  <2>1. Swallow(Current.dags \cap known)  BY <1>1, <1>3
  <2>2. /\ experiment' = experiment /\ done' = done + 1 /\ failed' = failed
        /\ kept' = kept \cup (Current.dags \cap known)
    BY <2>1 DEF Swallow
  <2>3. Current.dags \subseteq AnyDag  BY <1>1, CurrentDags DEF AnyDag
  <2>4. \A d \in Current.dags : ran[d] = {} \/ d \in kept'
    BY <2>2, <2>3 DEF IInv, Gone
  <2>5. Moves(Current.op, Current.dags)  BY <1>1, <1>3, <2>4, NothingMoves
  <2>6. Started' /\ Others'  BY <1>1, <2>2, <2>5, GoesOn DEF IInv
  <2>7. /\ experiment' \in 1 .. Len(Plan) + 1 /\ kept' \subseteq Dag
        /\ failed' \subseteq AnyDag
        /\ done' \in 0 .. IF Running' THEN Len(Programs[experiment']) - 1 ELSE 0
    <3>1. Current.dags \cap known \subseteq Current.dags  OBVIOUS
    <3> QED  BY <1>1, <1>3, <2>1, <3>1, SwallowTypes
  <2>8. TypeOK'  BY <1>1, <2>7 DEF TypeOK, fileVars, rowVars
  <2> QED  BY <1>2, <2>6, <2>8 DEF IInv
<1>4. CASE Current.op # "try_delete"
  <2>1. Raise  BY <1>1, <1>4
  <2>2. Started' /\ Others'  BY <1>1, <2>1, Raises DEF IInv, rowVars
  <2>3. /\ experiment' \in 1 .. Len(Plan) + 1 /\ kept' \subseteq Dag
        /\ failed' \subseteq AnyDag
        /\ done' \in 0 .. IF Running' THEN Len(Programs[experiment']) - 1 ELSE 0
    BY <1>1, <2>1, ThreadTypes
  <2>4. TypeOK'  BY <1>1, <2>3 DEF TypeOK, fileVars, rowVars
  <2> QED  BY <1>2, <2>2, <2>4 DEF IInv
<1> QED  BY <1>3, <1>4

LEMMA CallFailsStep ==
  ASSUME TypeOK, IInv, CallFails
  PROVE  TypeOK' /\ IInv'
<1>1. /\ Running /\ UNCHANGED <<type, fileVars>>
      /\ failures < MaxFailures /\ failures' = failures + 1
      /\ \/ UNCHANGED rowVars
         \/ Possible(Current.op, Current.dags) /\ Effect(Current.op, Current.dags)
      /\ IF Current.op = "try_delete" THEN Swallow(Current.dags \cap known') ELSE Raise
  BY DEF CallFails
<1>2. Current.dags \subseteq AnyDag  BY <1>1, CurrentDags DEF AnyDag
<1>3. RowTypes' /\ Gone' /\ (UNCHANGED rowVars \/ Touches(Current.op, Current.dags))
  <2>1. CASE UNCHANGED rowVars
    BY <2>1 DEF rowVars, RowTypes, TypeOK, IInv, Gone
  <2>2. CASE Possible(Current.op, Current.dags) /\ Effect(Current.op, Current.dags)
    BY <1>1, <2>2, CallTouches DEF IInv
  <2> QED  BY <1>1, <2>1, <2>2
<1>4. failures' \in 0 .. MaxFailures  BY <1>1, ExperimentsAssumption DEF TypeOK
<1>5. CASE Current.op = "try_delete"
  <2>1. Swallow(Current.dags \cap known')  BY <1>1, <1>5
  <2>2. /\ experiment' = experiment /\ done' = done + 1 /\ failed' = failed
        /\ kept' = kept \cup (Current.dags \cap known')
    BY <2>1 DEF Swallow
  <2>3. Moves(Current.op, Current.dags)
    <3>1. CASE UNCHANGED rowVars
      <4>1. \A d \in Current.dags : ran[d] = {} \/ d \in kept'
        BY <1>2, <2>2, <3>1 DEF IInv, Gone, rowVars
      <4> QED  BY <1>5, <3>1, <4>1, NothingMoves
    <3>2. CASE Touches(Current.op, Current.dags)  BY <1>5, <3>2 DEF Touches, Moves
    <3> QED  BY <1>3, <3>1, <3>2
  <2>4. Started' /\ Others'  BY <1>1, <2>2, <2>3, GoesOn DEF IInv
  <2>5. /\ experiment' \in 1 .. Len(Plan) + 1 /\ kept' \subseteq Dag
        /\ failed' \subseteq AnyDag
        /\ done' \in 0 .. IF Running' THEN Len(Programs[experiment']) - 1 ELSE 0
    <3>1. Current.dags \cap known' \subseteq Current.dags  OBVIOUS
    <3> QED  BY <1>1, <1>5, <2>1, <3>1, SwallowTypes
  <2>6. TypeOK'  BY <1>1, <1>3, <1>4, <2>5 DEF TypeOK, RowTypes, fileVars
  <2> QED  BY <1>3, <2>4, <2>6 DEF IInv
<1>6. CASE Current.op # "try_delete"
  <2>1. Raise  BY <1>1, <1>6
  <2>2. /\ busy' = busy
        /\ \A d \in AnyDag \ Current.dags : d \in unpaused' <=> d \in unpaused
    BY <1>3 DEF Touches, rowVars
  <2>3. Started' /\ Others'  BY <1>1, <2>1, <2>2, Raises DEF IInv
  <2>4. /\ experiment' \in 1 .. Len(Plan) + 1 /\ kept' \subseteq Dag
        /\ failed' \subseteq AnyDag
        /\ done' \in 0 .. IF Running' THEN Len(Programs[experiment']) - 1 ELSE 0
    BY <1>1, <2>1, ThreadTypes
  <2>5. TypeOK'  BY <1>1, <1>3, <1>4, <2>4 DEF TypeOK, RowTypes, fileVars
  <2> QED  BY <1>3, <2>3, <2>5 DEF IInv
<1> QED  BY <1>5, <1>6

\* A step on the bucket, which touches no row.
LEMMA BucketStep ==
  ASSUME TypeOK, IInv, At("clear") \/ At("publish"), UNCHANGED rowVars, Advance
  PROVE  Started' /\ Others'
<1>1. Running /\ Current.op \in {"clear", "publish"}  BY DEF At
<1>2. Size \in Nat /\ done \in 0 .. 5 * Size + 10  BY <1>1, ThreadPlace
<1>3. CASE done = 5 * Size + 10  BY <1>1, <1>3, Ends DEF IInv
<1>4. CASE done # 5 * Size + 10
  <2>1. done < 5 * Size + 10  BY <1>2, <1>4
  <2>2. done' = done + 1 /\ experiment' = experiment /\ kept' = kept /\ failed' = failed
    BY <1>1, <2>1, NotTheLast
  <2>3. Moves(Current.op, Current.dags)  BY <1>1, NothingMoves
  <2> QED  BY <1>1, <2>2, <2>3, GoesOn DEF IInv
<1> QED  BY <1>3, <1>4

LEMMA ClearStep ==
  ASSUME TypeOK, IInv, ClearDags
  PROVE  TypeOK' /\ IInv'
<1>1. /\ Running /\ At("clear") /\ pending' \in BOOLEAN
      /\ UNCHANGED <<type, disk, parsing, rowVars>>
      /\ bucket' \subseteq bucket
      /\ \/ Advance /\ failures' = failures
         \/ failures < MaxFailures /\ failures' = failures + 1 /\ Raise
  BY DEF ClearDags, At, TypeOK
<1>2. failures' \in 0 .. MaxFailures  BY <1>1, ExperimentsAssumption DEF TypeOK
<1>3. /\ experiment' \in 1 .. Len(Plan) + 1 /\ kept' \subseteq Dag
      /\ failed' \subseteq AnyDag
      /\ done' \in 0 .. IF Running' THEN Len(Programs[experiment']) - 1 ELSE 0
  BY <1>1, ThreadTypes
<1>4. TypeOK'  BY <1>1, <1>2, <1>3 DEF TypeOK, rowVars
<1>5. Gone'  BY <1>1 DEF IInv, Gone, rowVars
<1>6. CASE Advance
  <2>1. Started' /\ Others'  BY <1>1, <1>6, BucketStep
  <2> QED  BY <1>4, <1>5, <2>1 DEF IInv
<1>7. CASE Raise
  <2>1. Started' /\ Others'  BY <1>1, <1>7, Raises DEF IInv, rowVars
  <2> QED  BY <1>4, <1>5, <2>1 DEF IInv
<1> QED  BY <1>1, <1>6, <1>7

LEMMA PublishStep ==
  ASSUME TypeOK, IInv, PublishDags
  PROVE  TypeOK' /\ IInv'
<1>1. /\ Running /\ At("publish") /\ pending' = TRUE
      /\ UNCHANGED <<type, disk, parsing, rowVars>>
      /\ \/ bucket' = bucket \cup Current.dags /\ Advance /\ failures' = failures
         \/ /\ failures < MaxFailures /\ failures' = failures + 1 /\ Raise
            /\ \E some \in SUBSET Current.dags : bucket' = bucket \cup some
  BY DEF PublishDags, At
<1>2. Current.dags \subseteq AnyDag  BY <1>1, CurrentDags DEF AnyDag
<1>3. bucket' \subseteq AnyDag  BY <1>1, <1>2 DEF TypeOK
<1>4. failures' \in 0 .. MaxFailures  BY <1>1, ExperimentsAssumption DEF TypeOK
<1>5. /\ experiment' \in 1 .. Len(Plan) + 1 /\ kept' \subseteq Dag
      /\ failed' \subseteq AnyDag
      /\ done' \in 0 .. IF Running' THEN Len(Programs[experiment']) - 1 ELSE 0
  BY <1>1, ThreadTypes
<1>6. TypeOK'  BY <1>1, <1>3, <1>4, <1>5 DEF TypeOK, rowVars
<1>7. Gone'  BY <1>1 DEF IInv, Gone, rowVars
<1>8. CASE Advance
  <2>1. Started' /\ Others'  BY <1>1, <1>8, BucketStep
  <2> QED  BY <1>6, <1>7, <2>1 DEF IInv
<1>9. CASE Raise
  <2>1. Started' /\ Others'  BY <1>1, <1>9, Raises DEF IInv, rowVars
  <2> QED  BY <1>6, <1>7, <2>1 DEF IInv
<1> QED  BY <1>1, <1>8, <1>9

-----------------------------------------------------------------------------
(* The steps of Airflow.                                                   *)

\* While the thread sleeps, a clean dag stays clean, no dag is started or stopped, and
\* the runs that are added are of the experiment.
LEMMA ThreadSleeps ==
  ASSUME Started, Others, UNCHANGED threadVars, unpaused' = unpaused,
         \A d \in AnyDag : Clean(d) => Clean(d)',
         \A d \in AnyDag : ran'[d] \subseteq ran[d] \cup {experiment},
         TypeOK
  PROVE  Started' /\ Others'
<1>1. experiment' = experiment /\ done' = done /\ failed' = failed /\ kept' = kept
  BY DEF threadVars
<1>2. /\ Size' = Size /\ Own' = Own /\ Running' = Running /\ \A i : D(i)' = D(i)
      /\ Exporting' = Exporting
  BY <1>1 DEF Size, Own, Running, D, Exporting
<1>3. Others'  BY <1>1, <1>2 DEF Others, AnyDag
<1>4. Started'
  <2> SUFFICES ASSUME Running, NEW i \in 1 .. Size
               PROVE  /\ done >= 1 + i => ran'[D(i)] \subseteq {experiment} \/ D(i) \in kept
                      /\ done \in 2 * Size + 3 + i .. 3 * Size + 3 => D(i) \in unpaused
                      /\ done >= 3 * Size + 4 + i => D(i) \notin unpaused
                      /\ done >= 4 * Size + 10 + i => D(i) \notin unpaused' \cup busy'
    BY <1>1, <1>2 DEF Started, Clean
  <2>1. D(i) \in AnyDag  BY ThreadPlace DEF AnyDag
  <2>2. /\ done >= 1 + i => ran[D(i)] \subseteq {experiment} \/ D(i) \in kept
        /\ done \in 2 * Size + 3 + i .. 3 * Size + 3 => D(i) \in unpaused
        /\ done >= 3 * Size + 4 + i => D(i) \notin unpaused
        /\ done >= 4 * Size + 10 + i => Clean(D(i))
    BY DEF Started
  <2>3. done >= 1 + i => ran'[D(i)] \subseteq {experiment} \/ D(i) \in kept
    <3>1. ran'[D(i)] \subseteq ran[D(i)] \cup {experiment}  BY <2>1
    <3> QED  BY <2>2, <3>1
  <2>4. done >= 4 * Size + 10 + i => D(i) \notin unpaused' \cup busy'
    BY <2>1, <2>2 DEF Clean
  <2> QED  BY <2>2, <2>3, <2>4
<1> QED  BY <1>3, <1>4

LEMMA AirflowStep ==
  ASSUME TypeOK, IInv, Airflow
  PROVE  TypeOK' /\ IInv'
<1>1. /\ experiment \in 1 .. Len(Plan) + 1
      /\ ran \in [AnyDag -> SUBSET (1 .. Len(Plan) + 1)]
      /\ bucket \subseteq AnyDag /\ disk \subseteq AnyDag /\ known \subseteq AnyDag
      /\ unpaused \subseteq known /\ active \subseteq known /\ busy \subseteq known
      /\ triggered \in BOOLEAN
  BY DEF TypeOK
<1>2. ASSUME UNCHANGED <<type, threadVars>>, RowTypes',
             pending' \in BOOLEAN, parsing' \in BOOLEAN,
             bucket' \subseteq AnyDag, disk' \subseteq AnyDag
      PROVE  TypeOK'
  <2>1. /\ type' = type /\ experiment' = experiment /\ done' = done /\ failed' = failed
        /\ kept' = kept /\ failures' = failures
    BY <1>2 DEF threadVars
  <2>2. Running' = Running  BY <2>1 DEF Running
  <2> QED  BY <1>2, <2>1, <2>2 DEF TypeOK, RowTypes
<1>3. CASE Download
  <2>1. /\ UNCHANGED <<type, threadVars, bucket, rowVars>>
        /\ parsing' = TRUE /\ pending' = FALSE
    BY <1>3 DEF Download
  <2>2. disk' \subseteq AnyDag
    <3>1. disk' \in {bucket, disk \cup bucket}  BY <1>3 DEF Download
    <3> QED  BY <1>1, <3>1
  <2>3. RowTypes'  BY <1>1, <2>1 DEF RowTypes, rowVars
  <2>4. TypeOK'  BY <1>1, <1>2, <2>1, <2>2, <2>3
  <2>5. Gone'  BY <2>1 DEF IInv, Gone, rowVars
  <2>6. Started' /\ Others'  BY <2>1, ThreadSleeps DEF IInv, rowVars, Clean
  <2> QED  BY <2>4, <2>5, <2>6 DEF IInv
<1>4. CASE Parse
  <2>1. /\ UNCHANGED <<type, threadVars, bucket, pending, disk, unpaused, busy, triggered,
                       ran>>
        /\ parsing' = FALSE /\ known' = known \cup disk /\ active' = disk
    BY <1>4 DEF Parse
  <2>2. RowTypes'  BY <1>1, <2>1 DEF RowTypes
  <2>3. pending \in BOOLEAN  BY DEF TypeOK
  <2>4. TypeOK'  BY <1>1, <1>2, <2>1, <2>2, <2>3
  <2>5. Gone'  BY <2>1 DEF IInv, Gone
  <2>6. Started' /\ Others'  BY <2>1, ThreadSleeps DEF IInv, Clean
  <2> QED  BY <2>4, <2>5, <2>6 DEF IInv
<1>5. ASSUME NEW d \in AnyDag, StartTask(d)  PROVE TypeOK' /\ IInv'
  <2>1. /\ UNCHANGED <<type, threadVars, fileVars, known, unpaused, active>>
        /\ d \in unpaused /\ d \in known /\ busy' = busy \cup {d}
        /\ triggered' = (triggered /\ d # ExportDag)
        /\ ran' = [ran EXCEPT ![d] = @ \cup {experiment}]
    BY <1>1, <1>5 DEF StartTask
  <2>2. RowTypes'
    <3>1. ran' \in [AnyDag -> SUBSET (1 .. Len(Plan) + 1)]  BY <1>1, <2>1
    <3>2. triggered' \in BOOLEAN  BY <2>1
    <3> QED  BY <1>1, <2>1, <3>1, <3>2 DEF RowTypes
  <2>3. TypeOK'
    <3>1. /\ pending' \in BOOLEAN /\ parsing' \in BOOLEAN
          /\ bucket' \subseteq AnyDag /\ disk' \subseteq AnyDag
      BY <2>1 DEF TypeOK, fileVars
    <3> QED  BY <1>2, <2>1, <2>2, <3>1
  <2>4. \A e \in AnyDag : ran'[e] = IF e = d THEN ran[e] \cup {experiment} ELSE ran[e]
    BY <1>1, <2>1
  <2>5. Gone'  BY <2>1, <2>4 DEF IInv, Gone
  <2>6. Started' /\ Others'
    <3>1. \A e \in AnyDag : Clean(e) => Clean(e)'  BY <2>1 DEF Clean
    <3>2. \A e \in AnyDag : ran'[e] \subseteq ran[e] \cup {experiment}  BY <2>4
    <3> QED  BY <2>1, <3>1, <3>2, ThreadSleeps DEF IInv
  <2> QED  BY <2>3, <2>5, <2>6 DEF IInv
<1>6. ASSUME NEW d \in AnyDag, EndTask(d)  PROVE TypeOK' /\ IInv'
  <2>1. /\ UNCHANGED <<type, threadVars, fileVars, known, unpaused, active, triggered, ran>>
        /\ busy' = busy \ {d}
    BY <1>6 DEF EndTask
  <2>2. RowTypes'  BY <1>1, <2>1 DEF RowTypes
  <2>3. TypeOK'
    <3>1. /\ pending' \in BOOLEAN /\ parsing' \in BOOLEAN
          /\ bucket' \subseteq AnyDag /\ disk' \subseteq AnyDag
      BY <2>1 DEF TypeOK, fileVars
    <3> QED  BY <1>2, <2>1, <2>2, <3>1
  <2>4. Gone'  BY <2>1 DEF IInv, Gone
  <2>5. Started' /\ Others'  BY <2>1, ThreadSleeps DEF IInv, Clean
  <2> QED  BY <2>3, <2>4, <2>5 DEF IInv
<1> QED  BY <1>3, <1>4, <1>5, <1>6 DEF Airflow

-----------------------------------------------------------------------------
(* The theorems.                                                           *)

LEMMA Invariance == Spec => [](TypeOK /\ IInv)
<1>1. Init => TypeOK /\ IInv
  <2> SUFFICES ASSUME Init  PROVE TypeOK /\ IInv  OBVIOUS
  <2>1. Len(Plan) \in Nat
    <3>1. Plan \in Seq(Seq(Dag) \ {<<>>})  BY ExperimentsAssumption
    <3> QED  BY <3>1, LenProperties
  <2>2. /\ experiment = 1 /\ done = 0 /\ failed = {} /\ kept = {} /\ failures = 0
        /\ bucket = {} /\ pending = FALSE /\ disk = {} /\ parsing = FALSE
        /\ known = {} /\ unpaused = {} /\ active = {} /\ busy = {}
        /\ triggered = FALSE /\ ran = [d \in AnyDag |-> {}] /\ type \in {"beeflow", "mwaa"}
    BY DEF Init
  <2>3. Running => 1 \in 1 .. Len(Plan)
    <3>1. Plan \in Seq(Seq(Dag) \ {<<>>})  BY ExperimentsAssumption
    <3> QED  BY <2>2, <3>1, LenProperties DEF Running
  <2>4. Running => Size \in Nat /\ Len(Programs[experiment]) - 1 \in Nat
    <3> SUFFICES ASSUME Running  PROVE Size \in Nat /\ Len(Programs[experiment]) - 1 \in Nat
      OBVIOUS
    <3>1. Len(Plan[1]) \in Nat /\ Len(Programs[1]) = 5 * Len(Plan[1]) + 11
      BY <2>3, PlanFacts DEF IsProgram
    <3> QED  BY <2>2, <3>1 DEF Size
  <2>5. TypeOK
    <3>1. done \in 0 .. IF Running THEN Len(Programs[experiment]) - 1 ELSE 0
      BY <2>2, <2>4
    <3>2. experiment \in 1 .. Len(Plan) + 1 /\ failures \in 0 .. MaxFailures
      BY <2>1, <2>2, ExperimentsAssumption
    <3>3. ran \in [AnyDag -> SUBSET (1 .. Len(Plan) + 1)]  BY <2>2
    <3> QED  BY <2>2, <3>1, <3>2, <3>3 DEF TypeOK
  <2>6. Gone  BY <2>2 DEF Gone
  <2>7. Started  BY <2>2, <2>4, SMT DEF Started
  <2>8. Others  BY <2>2, <2>4 DEF Others, Clean
  <2> QED  BY <2>5, <2>6, <2>7, <2>8 DEF IInv
<1>2. TypeOK /\ IInv /\ [Next]_vars => TypeOK' /\ IInv'
  <2> SUFFICES ASSUME TypeOK, IInv, [Next]_vars  PROVE TypeOK' /\ IInv'  OBVIOUS
  <2>1. CASE Call  BY <2>1, CallStep
  <2>2. CASE Refused  BY <2>2, RefusedStep
  <2>3. CASE CallFails  BY <2>3, CallFailsStep
  <2>4. CASE ClearDags  BY <2>4, ClearStep
  <2>5. CASE PublishDags  BY <2>5, PublishStep
  <2>6. CASE Airflow  BY <2>6, AirflowStep
  <2>7. CASE UNCHANGED vars
    <3>1. TypeOK'  BY <2>7 DEF vars, TypeOK, Running
    <3>2. Gone'  BY <2>7 DEF vars, IInv, Gone
    <3>3. Started' /\ Others'
      <4>1. UNCHANGED threadVars /\ unpaused' = unpaused /\ busy' = busy /\ ran' = ran
        BY <2>7 DEF vars, threadVars
      <4> QED  BY <4>1, ThreadSleeps DEF IInv, Clean
    <3> QED  BY <3>1, <3>2, <3>3 DEF IInv
  <2> QED  BY <2>1, <2>2, <2>3, <2>4, <2>5, <2>6, <2>7 DEF Next, Thread
<1> QED  BY <1>1, <1>2, PTL DEF Spec

\* The types of the thread's place, the buckets and the rows, for every plan.
THEOREM TypeCorrect == Spec => []TypeOK
BY Invariance, PTL

\* Metrics are collected of the experiment's own dags, all of them started, while no
\* other runs, unless its last experiment raised an exception.
LEMMA MeasuresOwn == Spec => []MeasuresItsOwn
<1>1. TypeOK /\ IInv => MeasuresItsOwn
  <2> SUFFICES ASSUME TypeOK, IInv, At("collect")
               PROVE  /\ Own \subseteq unpaused
                      /\ \A d \in AnyDag \ Own :
                           d \in busy \cup (unpaused \cap active) => d \in failed
    BY DEF MeasuresItsOwn
  <2>1. Running /\ done = 3 * Size + 3  BY PlaceFacts DEF At
  <2>2. Size \in Nat /\ Own = {D(i) : i \in 1 .. Size}  BY <2>1, ThreadPlace
  <2>3. Own \subseteq unpaused
    <3> SUFFICES ASSUME NEW i \in 1 .. Size  PROVE D(i) \in unpaused  BY <2>2
    <3>1. done \in 2 * Size + 3 + i .. 3 * Size + 3  BY <2>1, <2>2
    <3> QED  BY <2>1, <3>1 DEF IInv, Started
  <2>4. ~Exporting  BY <2>1, <2>2 DEF Exporting
  <2>5. \A d \in AnyDag \ (failed \cup Own) : Clean(d)  BY <2>4 DEF IInv, Others
  <2> QED  BY <2>3, <2>5 DEF Clean
<1> QED  BY <1>1, Invariance, PTL

\* The metadata is exported when the experiment's dags are paused, and what it has of
\* them is of this experiment, but for a dag that could not be deleted before.
LEMMA ExportsOwn == Spec => []ExportsItsOwn
<1>1. TypeOK /\ IInv => ExportsItsOwn
  <2> SUFFICES ASSUME TypeOK, IInv, At("trigger")
               PROVE  /\ Own \cap unpaused = {}
                      /\ \A d \in Own : ran[d] \subseteq {experiment} \/ d \in kept
    BY DEF ExportsItsOwn
  <2>1. Running /\ done = 4 * Size + 7  BY PlaceFacts DEF At
  <2>2. Size \in Nat /\ Own = {D(i) : i \in 1 .. Size}  BY <2>1, ThreadPlace
  <2>3. ASSUME NEW i \in 1 .. Size
        PROVE  D(i) \notin unpaused /\ (ran[D(i)] \subseteq {experiment} \/ D(i) \in kept)
    <3>1. done >= 3 * Size + 4 + i /\ done >= 1 + i  BY <2>1, <2>2
    <3> QED  BY <2>1, <3>1 DEF IInv, Started
  <2> QED  BY <2>2, <2>3
<1> QED  BY <1>1, Invariance, PTL

\* What an experiment measures and what it exports is its own, whatever calls fail and
\* whatever the experiment before it left behind, the named exceptions apart.
THEOREM ResultsOwn == Spec => []ResultsAreItsOwn
<1>1. MeasuresItsOwn /\ ExportsItsOwn => ResultsAreItsOwn  BY DEF ResultsAreItsOwn
<1> QED  BY <1>1, MeasuresOwn, ExportsOwn, PTL
=============================================================================
