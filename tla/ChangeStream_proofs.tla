------------------------- MODULE ChangeStream_proofs -------------------------
(***************************************************************************)
(* The invariants of ChangeStream for any number of lanes, rows, changes   *)
(* and failures: the bookkeeping of checkpoints and retries passes no      *)
(* record over, discards one only near a record the converter refuses, and *)
(* never lets an old event have the last word.                             *)
(***************************************************************************)
EXTENDS ChangeStream, FiniteSetTheorems, WellFoundedInduction, TLAPS

-----------------------------------------------------------------------------
(* Least and greatest elements.                                            *)

LEMMA LeastNatural ==
  ASSUME NEW S \in SUBSET Nat, S # {}
  PROVE  \E x \in S : \A y \in S : x <= y
<1> DEFINE R == {ss \in Nat \X Nat : ss[1] < ss[2]}
<1>1. IsWellFoundedOn(R, Nat)  BY NatLessThanWellFounded DEF OpToRel
<1>2. PICK x \in S : \A y \in S : <<y, x>> \notin R
  <2> HIDE DEF R
  <2> QED  BY <1>1, WFMin
<1>3. \A y \in S : y < x => <<y, x>> \in R  OBVIOUS
<1>4. \A y \in S : ~(y < x)  BY <1>2, <1>3
<1>5. \A y \in S : y \in Nat /\ x \in Nat  OBVIOUS
<1> HIDE DEF R
<1>6. \A y \in S : x <= y  BY <1>4, <1>5
<1> QED  BY <1>6

LEMMA MinProperty ==
  ASSUME NEW S \in SUBSET Nat, S # {}
  PROVE  Min(S) \in S /\ \A y \in S : Min(S) <= y
<1> QED  BY LeastNatural DEF Min

\* The greatest element is the least upper bound.
LEMMA MaxProperty ==
  ASSUME NEW n \in Nat, NEW S \in SUBSET (1 .. n), S # {}
  PROVE  Max(S) \in S /\ \A y \in S : Max(S) >= y
<1> DEFINE U == {m \in Nat : \A y \in S : y <= m}
<1>1. n \in U  OBVIOUS
<1>2. PICK m \in U : \A k \in U : m <= k
  <2>1. U \in SUBSET Nat /\ U # {}  BY <1>1
  <2> HIDE DEF U
  <2> QED  BY <2>1, LeastNatural
<1>3. m \in S
  <2> SUFFICES ASSUME m \notin S  PROVE FALSE  OBVIOUS
  <2>1. m \in Nat /\ \A y \in S : y \in Nat /\ y >= 1 /\ y <= m /\ y # m
    BY <1>2
  <2>2. PICK z \in S : TRUE  OBVIOUS
  <2>3. m >= 1  BY <2>1, <2>2
  <2>4. \A y \in S : y <= m - 1  BY <2>1
  <2>5. m - 1 \in U  BY <2>1, <2>3, <2>4
  <2>6. m <= m - 1  BY <1>2, <2>5
  <2> QED  BY <2>1, <2>6
<1>4. \E x \in S : \A y \in S : x >= y
  <2>1. \A y \in S : y \in Nat /\ m \in Nat /\ y <= m  BY <1>2
  <2>2. \A y \in S : m >= y  BY <2>1
  <2> QED  BY <1>3, <2>2
<1> QED  BY <1>4 DEF Max

-----------------------------------------------------------------------------
(* The inductive invariant.                                                *)

\* The last record of the lane that can be on the bus already.
Through(l) == IF Busy(l) THEN batch[l].end ELSE checkpoint[l]

Poisoned(l) == \E i \in Batch(l) : Poison(log[l][i])

Place(l) ==
  /\ \A i \in 1 .. Len(log[l]) : RowLane(log[l][i].row) = l
  /\ checkpoint[l] <= Len(log[l])
  /\ Busy(l) => checkpoint[l] < batch[l].end /\ batch[l].end <= Len(log[l])
                /\ batch[l].end <= checkpoint[l] + BatchSize

\* Of a poisoned batch nothing is on the bus; another one is never given up, since
\* each of its retries is a failure of the bus.
Tries(l) ==
  /\ \A i \in Nat : <<l, i>> \in put => i <= Through(l)
  /\ \A i \in Nat : <<l, i>> \in lost => i <= checkpoint[l]
  /\ Busy(l) /\ Poisoned(l) => \A i \in Nat : <<l, i>> \in put => i <= checkpoint[l]
  /\ Busy(l) /\ ~Poisoned(l) => batch[l].retries <= failures

Passed(l) ==
  \A i \in 1 .. checkpoint[l] : <<l, i>> \in put \cup lost \/ Skipped(log[l][i])

NearPoison(l) ==
  \A i \in Nat : <<l, i>> \in lost =>
    \E j \in 1 .. Len(log[l]) :
      Poison(log[l][j]) /\ j < i + BatchSize /\ i < j + BatchSize

LaneOK(l) == Place(l) /\ Tries(l) /\ Passed(l) /\ NearPoison(l)

\* The last event about a row is one of its records, and behind the checkpoint it
\* has no later one.
RowOK(r) ==
  LET l == RowLane(r) IN
  /\ latest[r] # 0 => /\ latest[r] \in 1 .. Len(log[l])
                      /\ log[l][latest[r]].row = r /\ ~Skipped(log[l][latest[r]])
  /\ \A i \in 1 .. checkpoint[l] :
       log[l][i].row = r /\ ~Skipped(log[l][i]) /\ <<l, i>> \notin lost => latest[r] >= i

Types ==
  /\ log \in [Lane -> Seq(Record)]
  /\ checkpoint \in [Lane -> Nat]
  /\ batch \in [Lane -> [end : Nat, retries : 0 .. MaxRetries]]
  /\ put \subseteq Positions /\ lost \subseteq Positions \ put
  /\ latest \in [Row -> Nat]
  /\ failures \in 0 .. MaxFailures

IInv == Types /\ (\A l \in Lane : LaneOK(l)) /\ (\A r \in Row : RowOK(r))

-----------------------------------------------------------------------------
LEMMA InPositions ==
  ASSUME NEW l \in Lane, NEW i
  PROVE  <<l, i>> \in Positions <=> i \in 1 .. Len(log[l])
<1> QED  BY DEF Positions

LEMMA PositionIs ==
  ASSUME NEW x \in Positions
  PROVE  \E l \in Lane : \E i \in 1 .. Len(log[l]) : x = <<l, i>>
<1> QED  BY DEF Positions

LEMMA RowLaneIsLane ==
  ASSUME NEW r \in Row
  PROVE  RowLane(r) \in Lane
<1> QED  BY StreamAssumption DEF RowLane

LEMMA NumbersOf ==
  ASSUME IInv, NEW l \in Lane
  PROVE  /\ checkpoint[l] \in Nat /\ Len(log[l]) \in Nat
         /\ batch[l].end \in Nat /\ batch[l].retries \in Nat /\ failures \in Nat
         /\ BatchSize \in Nat /\ BatchSize >= 1
         /\ MaxRetries \in Nat /\ MaxFailures \in Nat
         /\ \A i \in 1 .. Len(log[l]) : log[l][i] \in Record
<1>1. log[l] \in Seq(Record)  BY DEF IInv, Types
<1> QED  BY <1>1, StreamAssumption DEF IInv, Types

LEMMA InitIInv == Init => IInv
<1> SUFFICES ASSUME Init  PROVE IInv  OBVIOUS
<1> USE StreamAssumption DEF Init
<1>1. <<>> \in Seq(Record) /\ Len(<<>>) = 0  OBVIOUS
<1>2. Types  BY <1>1 DEF Types, NoBatch
<1>3. ASSUME NEW l \in Lane  PROVE LaneOK(l)
  <2>1. log[l] = <<>> /\ checkpoint[l] = 0 /\ batch[l].end = 0  BY DEF NoBatch
  <2>2. 1 .. 0 = {}  OBVIOUS
  <2> QED  BY <1>1, <2>1, <2>2 DEF LaneOK, Place, Tries, Passed, NearPoison, Busy
<1>4. ASSUME NEW r \in Row  PROVE RowOK(r)
  <2>1. checkpoint[RowLane(r)] = 0 /\ latest[r] = 0  BY RowLaneIsLane
  <2>2. 1 .. 0 = {}  OBVIOUS
  <2> QED  BY <2>1, <2>2 DEF RowOK
<1> QED  BY <1>2, <1>3, <1>4 DEF IInv

-----------------------------------------------------------------------------
(* A record is appended.                                                   *)

LEMMA AppendRecord ==
  ASSUME NEW s \in Seq(Record), NEW x \in Record
  PROVE  /\ Append(s, x) \in Seq(Record)
         /\ Len(Append(s, x)) = Len(s) + 1 /\ Len(s) \in Nat
         /\ \A i \in 1 .. Len(s) : Append(s, x)[i] = s[i]
         /\ Append(s, x)[Len(s) + 1] = x
<1> QED  OBVIOUS

LEMMA ChangeStep ==
  ASSUME IInv, NEW r \in Row, Change(r)
  PROVE  IInv'
<1> DEFINE c == RowLane(r)
<1>1. PICK x \in Record : x.row = r /\ log' = [log EXCEPT ![c] = Append(@, x)]
  <2>1. PICK s \in StatesOf[r], d \in BOOLEAN :
          log' = [log EXCEPT ![c] = Append(@, [row |-> r, state |-> s, delete |-> d])]
    BY DEF Change
  <2>2. [row |-> r, state |-> s, delete |-> d] \in Record  BY DEF Record
  <2> QED  BY <2>1, <2>2
<1>2. UNCHANGED <<checkpoint, batch, put, latest, lost, failures>>  BY DEF Change
<1>3. c \in Lane /\ log[c] \in Seq(Record)  BY RowLaneIsLane DEF IInv, Types
<1>4. log' \in [Lane -> Seq(Record)]  BY <1>1, <1>3, AppendRecord DEF IInv, Types
<1>5. /\ log'[c] = Append(log[c], x)
      /\ \A l \in Lane : l # c => log'[l] = log[l]
  BY <1>1, <1>3 DEF IInv, Types
<1>6. /\ \A l \in Lane : /\ Len(log[l]) \in Nat /\ Len(log'[l]) \in Nat
                         /\ Len(log[l]) <= Len(log'[l])
                         /\ \A i \in 1 .. Len(log[l]) : log'[l][i] = log[l][i]
      /\ \A l \in Lane : \A i \in 1 .. Len(log'[l]) :
            i \in 1 .. Len(log[l]) \/ (l = c /\ log'[l][i] = x)
  <2>1. \A l \in Lane : Len(log[l]) \in Nat  BY NumbersOf
  <2> HIDE DEF c
  <2>2. /\ Len(log'[c]) = Len(log[c]) + 1 /\ log'[c][Len(log[c]) + 1] = x
        /\ \A i \in 1 .. Len(log[c]) : log'[c][i] = log[c][i]
    BY <1>3, <1>5, AppendRecord
  <2>3. \A l \in Lane : l # c => /\ Len(log'[l]) = Len(log[l])
                                 /\ \A i \in 1 .. Len(log[l]) : log'[l][i] = log[l][i]
    BY <1>5
  <2>4. /\ Len(log'[c]) \in Nat /\ Len(log[c]) <= Len(log'[c])
        /\ \A i \in 1 .. Len(log'[c]) : i \in 1 .. Len(log[c]) \/ log'[c][i] = x
    BY <1>3, <2>1, <2>2
  <2>5. \A l \in Lane : /\ Len(log'[l]) \in Nat /\ Len(log[l]) <= Len(log'[l])
                        /\ \A i \in 1 .. Len(log[l]) : log'[l][i] = log[l][i]
    BY <2>1, <2>2, <2>3, <2>4
  <2>6. \A l \in Lane : \A i \in 1 .. Len(log'[l]) :
            i \in 1 .. Len(log[l]) \/ (l = c /\ log'[l][i] = x)
    BY <2>3, <2>4
  <2> QED  BY <2>1, <2>5, <2>6
<1>7. Types'
  <2>1. \A y \in Positions : y \in Positions'  BY <1>6 DEF Positions
  <2>2. put' \subseteq Positions' /\ lost' \subseteq Positions' \ put'
    BY <1>2, <2>1 DEF IInv, Types
  <2> QED  BY <1>2, <1>4, <2>2 DEF IInv, Types
<1>8. ASSUME NEW l \in Lane  PROVE LaneOK(l)'
  <2> USE <1>2, <1>6, NumbersOf
  <2>1. LaneOK(l)  BY DEF IInv
  <2>2. Busy(l)' = Busy(l) /\ Through(l)' = Through(l) /\ Batch(l)' = Batch(l)
    BY DEF Busy, Through, Batch
  <2>3. Place(l)'
    BY <1>1, <2>1, <2>2 DEF LaneOK, Place
  <2>4. \A i \in 1 .. Len(log[l]) : /\ Poison(log[l][i])' <=> Poison(log[l][i])
                                    /\ Skipped(log[l][i])' <=> Skipped(log[l][i])
    BY DEF Poison, Skipped
  <2>5. Busy(l) => Batch(l) \subseteq 1 .. Len(log[l])
    BY <2>1 DEF LaneOK, Place, Batch
  <2>6. Busy(l) => Poisoned(l)' = Poisoned(l)
    BY <2>2, <2>4, <2>5 DEF Poisoned
  <2>7. Tries(l)'  BY <2>1, <2>2, <2>6 DEF LaneOK, Tries
  <2>8. Passed(l)'
    <3>1. 1 .. checkpoint[l] \subseteq 1 .. Len(log[l])  BY <2>1 DEF LaneOK, Place
    <3> QED  BY <2>1, <2>4, <3>1 DEF LaneOK, Passed
  <2>9. NearPoison(l)'
    <3>1. 1 .. Len(log[l]) \subseteq 1 .. Len(log'[l])  OBVIOUS
    <3> QED  BY <2>1, <2>4, <3>1 DEF LaneOK, NearPoison
  <2> QED  BY <2>3, <2>7, <2>8, <2>9 DEF LaneOK
<1>9. ASSUME NEW q \in Row  PROVE RowOK(q)'
  <2> DEFINE l == RowLane(q)
  <2>1. l \in Lane /\ RowOK(q) /\ LaneOK(l)  BY RowLaneIsLane DEF IInv
  <2>2. 1 .. checkpoint[l] \subseteq 1 .. Len(log[l])
    BY <2>1, NumbersOf DEF LaneOK, Place
  <2>3. \A i \in 1 .. Len(log[l]) : log'[l][i] = log[l][i]  BY <1>6, <2>1
  <2>4. 1 .. Len(log[l]) \subseteq 1 .. Len(log'[l])  BY <1>6, <2>1
  <2>5. l' = l  BY DEF RowLane
  <2> QED  BY <1>2, <2>1, <2>2, <2>3, <2>4, <2>5 DEF RowOK, Skipped
<1> QED  BY <1>7, <1>8, <1>9 DEF IInv

-----------------------------------------------------------------------------
(* The steps of a forwarder.                                               *)

\* A step of one lane leaves the others as they are.
LEMMA LaneStep ==
  ASSUME IInv, NEW l \in Lane, Types', log' = log,
         failures <= failures',
         \A m \in Lane \ {l} :
           /\ checkpoint'[m] = checkpoint[m] /\ batch'[m] = batch[m]
           /\ \A i \in Nat : /\ <<m, i>> \in put' <=> <<m, i>> \in put
                             /\ <<m, i>> \in lost' <=> <<m, i>> \in lost,
         \A r \in Row : RowLane(r) # l => latest'[r] = latest[r],
         LaneOK(l)',
         \A r \in Row : RowLane(r) = l => RowOK(r)'
  PROVE  IInv'
<1>1. ASSUME NEW m \in Lane, m # l  PROVE LaneOK(m)'
  <2>1. /\ checkpoint'[m] = checkpoint[m] /\ batch'[m] = batch[m] /\ log'[m] = log[m]
        /\ \A i \in Nat : /\ <<m, i>> \in put' <=> <<m, i>> \in put
                          /\ <<m, i>> \in lost' <=> <<m, i>> \in lost
    BY <1>1
  <2>2. LaneOK(m)  BY DEF IInv
  <2>3. /\ Busy(m)' = Busy(m) /\ Through(m)' = Through(m) /\ Batch(m)' = Batch(m)
        /\ Poisoned(m)' = Poisoned(m)
    BY <2>1 DEF Busy, Through, Batch, Poisoned, Poison, Skipped
  <2>4. Place(m)'  BY <2>1, <2>2, <2>3 DEF LaneOK, Place
  <2>5. Tries(m)'
    <3>1. failures \in Nat /\ failures' \in Nat /\ batch[m].retries \in Nat
      BY DEF IInv, Types
    <3> QED  BY <2>1, <2>2, <2>3, <3>1 DEF LaneOK, Tries
  <2>6. Passed(m)'
    <3>1. \A i \in 1 .. checkpoint[m] : i \in Nat  BY NumbersOf
    <3> QED  BY <2>1, <2>2, <3>1 DEF LaneOK, Passed, Skipped
  <2>7. NearPoison(m)'  BY <2>1, <2>2 DEF LaneOK, NearPoison, Poison, Skipped
  <2> QED  BY <2>4, <2>5, <2>6, <2>7 DEF LaneOK
<1>2. ASSUME NEW r \in Row, RowLane(r) # l  PROVE RowOK(r)'
  <2> DEFINE m == RowLane(r)
  <2>1. m \in Lane \ {l}  BY <1>2, RowLaneIsLane
  <2>2. /\ checkpoint'[m] = checkpoint[m] /\ latest'[r] = latest[r] /\ log' = log
        /\ \A i \in Nat : <<m, i>> \in lost' <=> <<m, i>> \in lost
    BY <1>2, <2>1
  <2>3. RowOK(r) /\ m' = m  BY DEF IInv, RowLane
  <2>4. \A i \in 1 .. checkpoint[m] : i \in Nat  BY <2>1, NumbersOf
  <2> QED  BY <2>2, <2>3, <2>4 DEF RowOK, Skipped
<1> QED  BY <1>1, <1>2 DEF IInv

LEMMA PollStep ==
  ASSUME IInv, NEW l \in Lane, Poll(l)
  PROVE  IInv'
<1>1. PICK end \in checkpoint[l] + 1 .. Len(log[l]) :
        WithinBatch(l, end) /\ batch' = [batch EXCEPT ![l] = [end |-> end, retries |-> 0]]
  BY DEF Poll
<1>2. ~Busy(l) /\ UNCHANGED <<log, checkpoint, put, latest, lost, failures>>
  BY DEF Poll
<1>3. /\ end \in Nat /\ end > checkpoint[l] /\ end <= Len(log[l])
      /\ end <= checkpoint[l] + BatchSize /\ end # 0
  BY <1>1, NumbersOf DEF WithinBatch
<1>4. Types'
  <2>1. batch' \in [Lane -> [end : Nat, retries : 0 .. MaxRetries]]
    BY <1>1, <1>3, StreamAssumption DEF IInv, Types
  <2>2. Positions' = Positions  BY <1>2 DEF Positions
  <2> QED  BY <1>2, <2>1, <2>2 DEF IInv, Types
<1>5. batch'[l] = [end |-> end, retries |-> 0]  BY <1>1 DEF IInv, Types
<1>6. \A m \in Lane \ {l} : batch'[m] = batch[m]  BY <1>1 DEF IInv, Types
<1>7. LaneOK(l)'
  <2>1. LaneOK(l)  BY DEF IInv
  <2>2. Busy(l)' /\ Through(l)' = end /\ Through(l) = checkpoint[l]
    BY <1>2, <1>3, <1>5 DEF Busy, Through
  <2>3. Place(l)'  BY <1>2, <1>3, <1>5, <2>1 DEF LaneOK, Place, RowLane
  <2>4. Tries(l)'
    <3>1. \A i \in Nat : <<l, i>> \in put => i <= checkpoint[l]
      BY <2>1, <2>2 DEF LaneOK, Tries
    <3>2. \A i \in Nat : <<l, i>> \in put => i <= end
      BY <1>3, <3>1, NumbersOf
    <3> QED  BY <1>2, <1>5, <2>1, <2>2, <3>1, <3>2, NumbersOf DEF LaneOK, Tries
  <2>5. Passed(l)' /\ NearPoison(l)'
    BY <1>2, <2>1 DEF LaneOK, Passed, NearPoison, Poison, Skipped
  <2> QED  BY <2>3, <2>4, <2>5 DEF LaneOK
<1>8. \A r \in Row : RowOK(r)'  BY <1>2 DEF IInv, RowOK, RowLane, Skipped
<1>9. failures <= failures'  BY <1>2, NumbersOf
<1> QED  BY <1>2, <1>4, <1>6, <1>7, <1>8, <1>9, LaneStep

\* What a call of put_events that takes the entries ok does to the bus.
LEMMA PutFacts ==
  ASSUME IInv, NEW l \in Lane, Busy(l), NEW ok \in SUBSET Entries(l), PutEvents(l, ok)
  PROVE  /\ ok \subseteq 1 .. Len(log[l])
         /\ \A i \in ok : i > checkpoint[l] /\ i <= batch[l].end /\ ~Skipped(log[l][i])
         /\ put' \subseteq Positions
         /\ lost \cap put' = {}
         /\ \A m \in Lane : \A i \in Nat :
              <<m, i>> \in put' <=> <<m, i>> \in put \/ (m = l /\ i \in ok)
         /\ latest' \in [Row -> Nat]
         /\ \A r \in Row : RowLane(r) # l => latest'[r] = latest[r]
         /\ \A r \in Row : latest'[r] = latest[r] \/ latest'[r] > checkpoint[l]
         /\ \A r \in Row : \A i \in ok : log[l][i].row = r => latest'[r] >= i
         /\ \A r \in Row : latest'[r] # latest[r] =>
              latest'[r] \in ok /\ log[l][latest'[r]].row = r
<1>1. LaneOK(l)  BY DEF IInv
<1>2. /\ ok \subseteq 1 .. Len(log[l])
      /\ \A i \in ok : i > checkpoint[l] /\ i <= batch[l].end /\ ~Skipped(log[l][i])
  BY <1>1, NumbersOf DEF LaneOK, Place, Entries, Batch
<1>3. put' = put \cup ({l} \X ok)  BY DEF PutEvents
<1>4. put' \subseteq Positions
  <2>1. {l} \X ok \subseteq Positions  BY <1>2 DEF Positions
  <2> QED  BY <1>3, <2>1 DEF IInv, Types
<1>5. \A m \in Lane : \A i \in Nat :
        <<m, i>> \in put' <=> <<m, i>> \in put \/ (m = l /\ i \in ok)
  BY <1>3
<1>6. lost \cap put' = {}
  <2>1. lost \subseteq Positions \ put  BY DEF IInv, Types
  <2>2. ASSUME NEW x \in lost, x \in {l} \X ok  PROVE FALSE
    <3>1. PICK i \in ok : x = <<l, i>>  BY <2>2
    <3>2. i \in Nat /\ i > checkpoint[l]  BY <1>2, NumbersOf
    <3>3. i <= checkpoint[l]  BY <1>1, <2>2, <3>1, <3>2 DEF LaneOK, Tries
    <3> QED  BY <3>2, <3>3, NumbersOf
  <2> QED  BY <1>3, <2>1, <2>2
<1>7. ASSUME NEW r \in Row
      PROVE  /\ latest'[r] \in Nat
             /\ RowLane(r) # l => latest'[r] = latest[r]
             /\ latest'[r] = latest[r] \/ latest'[r] > checkpoint[l]
             /\ \A i \in ok : log[l][i].row = r => latest'[r] >= i
             /\ latest'[r] # latest[r] => latest'[r] \in ok /\ log[l][latest'[r]].row = r
  <2> DEFINE of == {i \in ok : log[l][i].row = r}
  <2>1. latest'[r] = IF of # {} THEN Max(of) ELSE latest[r]
    BY DEF PutEvents, Latest
  <2>2. CASE of = {}
    <3>1. latest'[r] = latest[r]  BY <2>1, <2>2
    <3> QED  BY <2>2, <3>1 DEF IInv, Types
  <2>3. CASE of # {}
    <3>1. of \in SUBSET (1 .. Len(log[l])) /\ Len(log[l]) \in Nat  BY <1>2, NumbersOf
    <3>2. latest'[r] \in of /\ \A y \in of : latest'[r] >= y
      <4> HIDE DEF of
      <4> QED  BY <2>1, <2>3, <3>1, MaxProperty
    <3>3. latest'[r] \in Nat /\ latest'[r] > checkpoint[l]  BY <1>2, <3>1, <3>2, NumbersOf
    <3>4. RowLane(r) = l  BY <1>1, <1>2, <3>2 DEF LaneOK, Place
    <3> QED  BY <3>2, <3>3, <3>4
  <2> QED  BY <2>2, <2>3
<1>8. latest' = [r \in Row |-> latest'[r]]  BY DEF PutEvents
<1>9. latest' \in [Row -> Nat]  BY <1>7, <1>8
<1> QED  BY <1>2, <1>4, <1>5, <1>6, <1>7, <1>9

\* The new event about a row is one of its records.
LEMMA LatestIsRecord ==
  ASSUME IInv, NEW l \in Lane, Busy(l), NEW ok \in SUBSET Entries(l), PutEvents(l, ok),
         NEW r \in Row, RowLane(r) = l, latest'[r] # 0
  PROVE  /\ latest'[r] \in 1 .. Len(log[l])
         /\ log[l][latest'[r]].row = r /\ ~Skipped(log[l][latest'[r]])
<1>1. CASE latest'[r] = latest[r]  BY <1>1 DEF IInv, RowOK
<1>2. CASE latest'[r] # latest[r]
  <2>1. latest'[r] \in ok /\ log[l][latest'[r]].row = r  BY <1>2, PutFacts
  <2>2. ok \subseteq 1 .. Len(log[l]) /\ \A i \in ok : ~Skipped(log[l][i])  BY PutFacts
  <2> QED  BY <2>1, <2>2
<1> QED  BY <1>1, <1>2

\* The batch is tried again from k + 1: everything up to k is on the bus.
LEMMA RetryStep ==
  ASSUME IInv, NEW l \in Lane, Busy(l), NEW ok \in SUBSET Entries(l), PutEvents(l, ok),
         NEW k \in checkpoint[l] .. batch[l].end - 1,
         \A i \in Entries(l) : i <= k => i \in ok,
         Poisoned(l) => ok = {} /\ k = checkpoint[l] /\ failures' = failures,
         ~Poisoned(l) => failures' = failures + 1,
         failures' \in 0 .. MaxFailures,
         MayRetry(l),
         checkpoint' = [checkpoint EXCEPT ![l] = k],
         batch' = [batch EXCEPT ![l] = Retry(@)],
         log' = log, lost' = lost
  PROVE  IInv'
<1> USE NumbersOf
<1>1. LaneOK(l)  BY DEF IInv
<1>2. /\ k \in Nat /\ checkpoint[l] <= k /\ k < batch[l].end
      /\ batch[l].end <= Len(log[l]) /\ batch[l].end <= k + BatchSize
  BY <1>1 DEF LaneOK, Place
<1>3. /\ checkpoint'[l] = k /\ batch'[l] = [end |-> batch[l].end, retries |-> batch[l].retries + 1]
      /\ \A m \in Lane \ {l} : checkpoint'[m] = checkpoint[m] /\ batch'[m] = batch[m]
  BY DEF IInv, Types, Retry
<1>4. Types'
  <2>1. batch'[l] \in [end : Nat, retries : 0 .. MaxRetries]
    BY <1>3 DEF MayRetry
  <2>2. batch' \in [Lane -> [end : Nat, retries : 0 .. MaxRetries]]
    <3>1. batch[l].retries + 1 \in 0 .. MaxRetries  BY DEF MayRetry
    <3> QED  BY <3>1 DEF Retry, IInv, Types
  <2>3. checkpoint' \in [Lane -> Nat]  BY <1>2 DEF IInv, Types
  <2>4. Positions' = Positions  BY DEF Positions
  <2>5. put' \subseteq Positions /\ lost \cap put' = {} /\ latest' \in [Row -> Nat]
    BY PutFacts
  <2> QED  BY <2>2, <2>3, <2>4, <2>5 DEF IInv, Types
<1>5. LaneOK(l)'
  <2>1. /\ Busy(l)' /\ Through(l)' = batch[l].end /\ Through(l) = batch[l].end
        /\ Batch(l)' = k + 1 .. batch[l].end /\ Batch(l)' \subseteq Batch(l)
    BY <1>2, <1>3 DEF Busy, Through, Batch
  <2>2. Place(l)'  BY <1>1, <1>2, <1>3 DEF LaneOK, Place, RowLane
  <2>3. Tries(l)'
    <3>1. \A i \in Nat : <<l, i>> \in put' <=> <<l, i>> \in put \/ i \in ok
      BY PutFacts
    <3>2. \A i \in ok : i <= batch[l].end  BY PutFacts
    <3>3. \A i \in Nat : <<l, i>> \in put' => i <= batch[l].end
      BY <1>1, <2>1, <3>1, <3>2 DEF LaneOK, Tries
    <3>4. \A i \in Nat : <<l, i>> \in lost' => i <= k
      BY <1>1, <1>2 DEF LaneOK, Tries
    <3>5. Poisoned(l)' => Poisoned(l)
      BY <2>1 DEF Poisoned, Poison, Skipped
    <3>6. Poisoned(l)' => \A i \in Nat : <<l, i>> \in put' => i <= k
      BY <1>1, <1>2, <3>1, <3>5 DEF LaneOK, Tries
    <3>7. ~Poisoned(l)' => batch'[l].retries <= failures'
      <4>1. Poisoned(l) => Poisoned(l)'
        <5>1. Poisoned(l) => Batch(l)' = Batch(l)  BY <2>1 DEF Batch
        <5> QED  BY <5>1 DEF Poisoned, Poison, Skipped
      <4> QED  BY <1>1, <1>3, <4>1 DEF LaneOK, Tries
    <3> QED  BY <1>3, <2>1, <3>3, <3>4, <3>6, <3>7 DEF Tries
  <2>4. Passed(l)'
    <3> SUFFICES ASSUME NEW i \in 1 .. k
                 PROVE  <<l, i>> \in put' \cup lost \/ Skipped(log[l][i])
      BY <1>3 DEF Passed, Skipped
    <3>1. CASE i <= checkpoint[l]
      <4>1. <<l, i>> \in put \cup lost \/ Skipped(log[l][i])
        BY <1>1, <3>1 DEF LaneOK, Passed
      <4> QED  BY <4>1, PutFacts
    <3>2. CASE i > checkpoint[l] /\ ~Skipped(log[l][i])
      <4>1. i \in Entries(l)  BY <1>2, <3>2 DEF Entries, Batch
      <4>2. i \in ok  BY <1>2, <4>1
      <4> QED  BY <4>2, PutFacts
    <3> QED  BY <3>1, <3>2
  <2>5. NearPoison(l)'  BY <1>1 DEF LaneOK, NearPoison, Poison, Skipped
  <2> QED  BY <2>2, <2>3, <2>4, <2>5 DEF LaneOK
<1>6. ASSUME NEW r \in Row, RowLane(r) = l  PROVE RowOK(r)'
  <2>1. \A i \in 1 .. k :
          log[l][i].row = r /\ ~Skipped(log[l][i]) /\ <<l, i>> \notin lost => latest'[r] >= i
    <3> SUFFICES ASSUME NEW i \in 1 .. k, log[l][i].row = r, ~Skipped(log[l][i]),
                        <<l, i>> \notin lost
                 PROVE  latest'[r] >= i
      OBVIOUS
    <3>1. CASE i <= checkpoint[l]
      <4>1. latest[r] >= i /\ latest[r] \in Nat /\ latest'[r] \in Nat
        <5>1. i \in 1 .. checkpoint[l] /\ <<l, i>> \notin lost  BY <3>1
        <5>2. RowOK(r)  BY DEF IInv
        <5>3. latest[r] >= i  BY <1>6, <5>1, <5>2 DEF RowOK
        <5>4. latest \in [Row -> Nat] /\ latest' \in [Row -> Nat]
          BY PutFacts DEF IInv, Types
        <5> QED  BY <5>3, <5>4
      <4>2. latest'[r] = latest[r] \/ latest'[r] > checkpoint[l]  BY PutFacts
      <4> QED  BY <3>1, <4>1, <4>2
    <3>2. CASE i > checkpoint[l]
      <4>1. i \in Entries(l)  BY <1>2, <3>2 DEF Entries, Batch
      <4>2. i \in ok  BY <1>2, <4>1
      <4> QED  BY <4>2, PutFacts
    <3> QED  BY <3>1, <3>2
  <2>2. latest'[r] # 0 => /\ latest'[r] \in 1 .. Len(log[l])
                          /\ log[l][latest'[r]].row = r /\ ~Skipped(log[l][latest'[r]])
    BY <1>6, LatestIsRecord
  <2> QED  BY <1>3, <1>6, <2>1, <2>2 DEF RowOK, RowLane, Skipped
<1>7. failures <= failures'  BY DEF IInv, Types
<1>8. \A m \in Lane \ {l} : \A i \in Nat : <<m, i>> \in put' <=> <<m, i>> \in put
  BY PutFacts
<1>9. \A r \in Row : RowLane(r) # l => latest'[r] = latest[r]  BY PutFacts
<1> QED  BY <1>3, <1>4, <1>5, <1>6, <1>7, <1>8, <1>9, LaneStep

\* The lane is through with the batch: all of it is on the bus, or, if it was
\* poisoned, nothing of it, and its entries are discarded.
LEMMA FinishStep ==
  ASSUME IInv, NEW l \in Lane, Busy(l), NEW ok \in SUBSET Entries(l), PutEvents(l, ok),
         Finish(l), log' = log, failures' = failures,
         \/ ok = Entries(l) /\ lost' = lost
         \/ ok = {} /\ Poisoned(l) /\ lost' = lost \cup (({l} \X Entries(l)) \ put')
  PROVE  IInv'
<1> USE NumbersOf
<1> DEFINE end == batch[l].end
<1>1. LaneOK(l)  BY DEF IInv
<1>2. /\ end \in Nat /\ checkpoint[l] < end
      /\ end <= Len(log[l]) /\ end <= checkpoint[l] + BatchSize
  BY <1>1 DEF LaneOK, Place
<1>3. /\ checkpoint'[l] = end /\ batch'[l] = NoBatch
      /\ \A m \in Lane \ {l} : checkpoint'[m] = checkpoint[m] /\ batch'[m] = batch[m]
  BY DEF IInv, Types, Finish
<1>4. \A i \in Entries(l) : i \in 1 .. Len(log[l]) /\ i > checkpoint[l] /\ i <= end
                            /\ ~Skipped(log[l][i])
  BY <1>2 DEF Entries, Batch
<1>5. /\ \A m \in Lane \ {l} : \A i \in Nat : <<m, i>> \in lost' <=> <<m, i>> \in lost
      /\ \A i \in Nat : <<l, i>> \in lost' =>
            <<l, i>> \in lost \/ (i \in Entries(l) /\ Poisoned(l))
      /\ lost \subseteq lost'
      /\ lost' \subseteq Positions \ put'
  <2>1. lost \subseteq Positions \ put'  BY PutFacts DEF IInv, Types
  <2>2. {l} \X Entries(l) \subseteq Positions  BY <1>4 DEF Positions
  <2> QED  BY <2>1, <2>2
<1>6. \A i \in Entries(l) : <<l, i>> \in put' \cup lost'
  <2>1. CASE ok = Entries(l) /\ lost' = lost
    <3>1. put' = put \cup ({l} \X ok)  BY DEF PutEvents
    <3> QED  BY <2>1, <3>1
  <2>2. CASE ok = {} /\ Poisoned(l) /\ lost' = lost \cup (({l} \X Entries(l)) \ put')
    BY <2>2
  <2> QED  BY <2>1, <2>2
<1>7. Types'
  <2>1. batch' \in [Lane -> [end : Nat, retries : 0 .. MaxRetries]]
    BY StreamAssumption DEF Finish, NoBatch, IInv, Types
  <2>2. checkpoint' \in [Lane -> Nat]  BY <1>2 DEF Finish, IInv, Types
  <2>3. Positions' = Positions  BY DEF Positions
  <2>4. put' \subseteq Positions /\ latest' \in [Row -> Nat]  BY PutFacts
  <2> QED  BY <1>5, <2>1, <2>2, <2>3, <2>4 DEF IInv, Types
<1>8. LaneOK(l)'
  <2>1. ~Busy(l)' /\ Through(l)' = end /\ Through(l) = end
    BY <1>3 DEF Busy, Through, NoBatch
  <2>2. Place(l)'  BY <1>1, <1>2, <1>3, <2>1 DEF LaneOK, Place, RowLane
  <2>3. Tries(l)'
    <3>1. \A i \in Nat : <<l, i>> \in put' <=> <<l, i>> \in put \/ i \in ok
      BY PutFacts
    <3>2. \A i \in Nat : <<l, i>> \in put' => i <= end
      BY <1>1, <1>4, <2>1, <3>1 DEF LaneOK, Tries
    <3>3. \A i \in Nat : <<l, i>> \in lost' => i <= end
      BY <1>1, <1>2, <1>4, <1>5 DEF LaneOK, Tries
    <3> QED  BY <1>3, <2>1, <3>2, <3>3 DEF Tries
  <2>4. Passed(l)'
    <3> SUFFICES ASSUME NEW i \in 1 .. end
                 PROVE  <<l, i>> \in put' \cup lost' \/ Skipped(log[l][i])
      BY <1>3 DEF Passed, Skipped
    <3>1. CASE i <= checkpoint[l]
      <4>1. <<l, i>> \in put \cup lost \/ Skipped(log[l][i])
        BY <1>1, <3>1 DEF LaneOK, Passed
      <4> QED  BY <1>5, <4>1, PutFacts
    <3>2. CASE i > checkpoint[l] /\ ~Skipped(log[l][i])
      <4>1. i \in Entries(l)  BY <1>2, <3>2 DEF Entries, Batch
      <4> QED  BY <1>6, <4>1
    <3> QED  BY <3>1, <3>2
  <2>5. NearPoison(l)'
    <3> SUFFICES ASSUME NEW i \in Nat, <<l, i>> \in lost'
                 PROVE  \E j \in 1 .. Len(log[l]) :
                          Poison(log[l][j]) /\ j < i + BatchSize /\ i < j + BatchSize
      BY DEF NearPoison, Poison, Skipped
    <3>1. CASE <<l, i>> \in lost  BY <1>1, <3>1 DEF LaneOK, NearPoison
    <3>2. CASE i \in Entries(l) /\ Poisoned(l)
      <4>1. PICK j \in Batch(l) : Poison(log[l][j])  BY <3>2 DEF Poisoned
      <4>2. j \in 1 .. Len(log[l]) /\ j > checkpoint[l] /\ j <= end
        BY <1>2 DEF Batch
      <4>3. j < i + BatchSize /\ i < j + BatchSize  BY <1>2, <1>4, <3>2, <4>2
      <4> QED  BY <4>1, <4>2, <4>3
    <3> QED  BY <1>5, <3>1, <3>2
  <2> QED  BY <2>2, <2>3, <2>4, <2>5 DEF LaneOK
<1>9. ASSUME NEW r \in Row, RowLane(r) = l  PROVE RowOK(r)'
  <2>1. \A i \in 1 .. end :
          log[l][i].row = r /\ ~Skipped(log[l][i]) /\ <<l, i>> \notin lost' => latest'[r] >= i
    <3> SUFFICES ASSUME NEW i \in 1 .. end, log[l][i].row = r, ~Skipped(log[l][i]),
                        <<l, i>> \notin lost'
                 PROVE  latest'[r] >= i
      OBVIOUS
    <3>1. CASE i <= checkpoint[l]
      <4>1. latest[r] >= i /\ latest[r] \in Nat /\ latest'[r] \in Nat
        <5>1. i \in 1 .. checkpoint[l] /\ <<l, i>> \notin lost  BY <1>5, <3>1
        <5>2. RowOK(r)  BY DEF IInv
        <5>3. latest[r] >= i  BY <1>9, <5>1, <5>2 DEF RowOK
        <5>4. latest \in [Row -> Nat] /\ latest' \in [Row -> Nat]
          BY PutFacts DEF IInv, Types
        <5> QED  BY <5>3, <5>4
      <4>2. latest'[r] = latest[r] \/ latest'[r] > checkpoint[l]  BY PutFacts
      <4> QED  BY <3>1, <4>1, <4>2
    <3>2. CASE i > checkpoint[l]
      <4>1. i \in Entries(l)  BY <1>2, <3>2 DEF Entries, Batch
      <4>2. <<l, i>> \in put'  BY <1>6, <4>1
      <4>3. <<l, i>> \notin put \/ ~Poisoned(l)
        BY <1>1, <3>2 DEF LaneOK, Tries
      <4>4. i \in ok
        <5>1. i \in Nat /\ (<<l, i>> \in put \/ i \in ok)  BY <4>2, PutFacts
        <5> QED  BY <4>1, <4>3, <5>1
      <4> QED  BY <4>4, PutFacts
    <3> QED  BY <3>1, <3>2
  <2>2. latest'[r] # 0 => /\ latest'[r] \in 1 .. Len(log[l])
                          /\ log[l][latest'[r]].row = r /\ ~Skipped(log[l][latest'[r]])
    BY <1>9, LatestIsRecord
  <2> QED  BY <1>3, <1>9, <2>1, <2>2 DEF RowOK, RowLane, Skipped
<1>10. \A m \in Lane \ {l} : \A i \in Nat : <<m, i>> \in put' <=> <<m, i>> \in put
  BY PutFacts
<1>11. \A r \in Row : RowLane(r) # l => latest'[r] = latest[r]  BY PutFacts
<1>12. failures <= failures'  OBVIOUS
<1> QED  BY <1>3, <1>5, <1>7, <1>8, <1>9, <1>10, <1>11, <1>12, LaneStep

-----------------------------------------------------------------------------
(* The actions of a forwarder are of these two kinds.                      *)

\* An outage is shorter than the retries, so that a batch the converter accepts is
\* never given up.
LEMMA RetriesSuffice ==
  ASSUME IInv, NEW l \in Lane, Busy(l), ~Poisoned(l), failures < MaxFailures
  PROVE  MayRetry(l)
<1>1. batch[l].retries <= failures  BY DEF IInv, LaneOK, Tries
<1> QED  BY <1>1, NumbersOf, StreamAssumption DEF MayRetry

LEMMA ForwardStep ==
  ASSUME IInv, NEW l \in Lane, Forward(l)
  PROVE  IInv'
<1>1. Entries(l) \in SUBSET Entries(l)  OBVIOUS
<1>2. /\ Busy(l) /\ PutEvents(l, Entries(l)) /\ Finish(l)
      /\ log' = log /\ lost' = lost /\ failures' = failures
  BY DEF Forward
<1> QED  BY <1>1, <1>2, FinishStep

LEMMA ForwardPartlyStep ==
  ASSUME IInv, NEW l \in Lane, ForwardPartly(l)
  PROVE  IInv'
<1>1. PICK refused \in (SUBSET Entries(l)) \ {{}} :
        /\ PutEvents(l, Entries(l) \ refused)
        /\ \E k \in {checkpoint[l], FirstRefused(refused) - 1} : RetryAfter(l, k)
  BY DEF ForwardPartly
<1>2. PICK k \in {checkpoint[l], FirstRefused(refused) - 1} : RetryAfter(l, k)
  BY <1>1
<1>3. /\ Busy(l) /\ ~Poisoned(l) /\ failures < MaxFailures
      /\ failures' = failures + 1 /\ log' = log
  BY DEF ForwardPartly, Poisoned
<1>4. MayRetry(l)  BY <1>3, RetriesSuffice
<1>5. /\ checkpoint' = [checkpoint EXCEPT ![l] = k]
      /\ batch' = [batch EXCEPT ![l] = Retry(@)] /\ lost' = lost
  BY <1>2, <1>4 DEF RetryAfter
<1>6. Entries(l) \subseteq Batch(l)  BY DEF Entries
<1>7. /\ Min(refused) \in refused /\ \A y \in refused : Min(refused) <= y
      /\ Min(refused) \in Batch(l)
  <2>1. refused \in SUBSET Nat /\ refused # {}
    <3>1. \A i \in Batch(l) : i \in Nat  BY NumbersOf DEF Batch
    <3>2. refused \subseteq Entries(l) /\ refused # {}  OBVIOUS
    <3>3. refused \subseteq Batch(l)  BY <1>6, <3>2
    <3> QED  BY <3>1, <3>2, <3>3
  <2> QED  BY <1>6, <2>1, MinProperty
<1>8. /\ k \in checkpoint[l] .. batch[l].end - 1
      /\ \A i \in Entries(l) : i <= k => i \notin refused
  <2>1. LaneOK(l)  BY DEF IInv
  <2>2. checkpoint[l] < batch[l].end  BY <1>3, <2>1 DEF LaneOK, Place
  <2>3. \A i \in Batch(l) : i \in Nat /\ i > checkpoint[l] /\ i <= batch[l].end
    BY NumbersOf DEF Batch
  <2>4. CASE k = checkpoint[l]  BY <1>6, <2>2, <2>3, <2>4, NumbersOf
  <2>5. CASE k = Min(refused) - 1
    <3>1. k \in checkpoint[l] .. batch[l].end - 1  BY <1>7, <2>3, <2>5, NumbersOf
    <3>2. \A i \in refused : i \in Nat /\ Min(refused) \in Nat  BY <1>6, <1>7, <2>3
    <3>3. \A i \in refused : ~(i <= k)  BY <1>7, <2>5, <3>2
    <3> QED  BY <3>1, <3>3
  <2> QED  BY <1>2, <2>4, <2>5 DEF FirstRefused
<1>9. failures' \in 0 .. MaxFailures  BY <1>3, NumbersOf
<1>10. /\ Entries(l) \ refused \in SUBSET Entries(l)
       /\ \A i \in Entries(l) : i <= k => i \in Entries(l) \ refused
  BY <1>8
<1> QED  BY <1>1, <1>3, <1>4, <1>5, <1>8, <1>9, <1>10, RetryStep

LEMMA RaiseOnPoisonStep ==
  ASSUME IInv, NEW l \in Lane, RaiseOnPoison(l)
  PROVE  IInv'
<1>1. /\ Busy(l) /\ Poisoned(l) /\ put' = put /\ latest' = latest
      /\ RetryAfter(l, checkpoint[l]) /\ log' = log /\ failures' = failures
  BY DEF RaiseOnPoison, Poisoned
<1>2. PutEvents(l, {})
  <2>1. {l} \X {} = {}  OBVIOUS
  <2>2. latest = [r \in Row |-> latest[r]]  BY DEF IInv, Types
  <2> QED  BY <1>1, <2>1, <2>2 DEF PutEvents
<1>3. LaneOK(l)  BY DEF IInv
<1>4. CASE MayRetry(l)
  <2>1. /\ checkpoint' = [checkpoint EXCEPT ![l] = checkpoint[l]]
        /\ batch' = [batch EXCEPT ![l] = Retry(@)] /\ lost' = lost
    BY <1>1, <1>4 DEF RetryAfter
  <2>2. checkpoint[l] \in checkpoint[l] .. batch[l].end - 1
    BY <1>1, <1>3, NumbersOf DEF LaneOK, Place
  <2>3. \A i \in Entries(l) : ~(i <= checkpoint[l])  BY NumbersOf DEF Entries, Batch
  <2>4. failures' \in 0 .. MaxFailures  BY <1>1 DEF IInv, Types
  <2> QED  BY <1>1, <1>2, <1>4, <2>1, <2>2, <2>3, <2>4, RetryStep
<1>5. CASE ~MayRetry(l)
  <2>1. Finish(l) /\ lost' = lost \cup (({l} \X Entries(l)) \ put')
    BY <1>1, <1>5 DEF RetryAfter
  <2> QED  BY <1>1, <1>2, <2>1, FinishStep
<1> QED  BY <1>4, <1>5

LEMMA CrashStep ==
  ASSUME IInv, NEW l \in Lane, Crash(l)
  PROVE  IInv'
<1>1. PICK ok \in SUBSET Entries(l) : PutEvents(l, ok)  BY DEF Crash
<1>2. /\ Busy(l) /\ ~Poisoned(l) /\ failures < MaxFailures
      /\ failures' = failures + 1 /\ log' = log /\ RetryAfter(l, checkpoint[l])
  BY DEF Crash, Poisoned
<1>3. MayRetry(l)  BY <1>2, RetriesSuffice
<1>4. /\ checkpoint' = [checkpoint EXCEPT ![l] = checkpoint[l]]
      /\ batch' = [batch EXCEPT ![l] = Retry(@)] /\ lost' = lost
  BY <1>2, <1>3 DEF RetryAfter
<1>5. LaneOK(l)  BY DEF IInv
<1>6. checkpoint[l] \in checkpoint[l] .. batch[l].end - 1
  BY <1>2, <1>5, NumbersOf DEF LaneOK, Place
<1>7. \A i \in Entries(l) : ~(i <= checkpoint[l])  BY NumbersOf DEF Entries, Batch
<1>8. failures' \in 0 .. MaxFailures  BY <1>2, NumbersOf
<1> QED  BY <1>1, <1>2, <1>3, <1>4, <1>6, <1>7, <1>8, RetryStep

-----------------------------------------------------------------------------
LEMMA NextIInv == IInv /\ [Next]_vars => IInv'
<1> SUFFICES ASSUME IInv, [Next]_vars  PROVE IInv'  OBVIOUS
<1>1. ASSUME NEW r \in Row, Change(r)  PROVE IInv'  BY <1>1, ChangeStep
<1>2. ASSUME NEW l \in Lane, ForwarderStep(l)  PROVE IInv'
  BY <1>2, PollStep, ForwardStep, ForwardPartlyStep, RaiseOnPoisonStep, CrashStep
  DEF ForwarderStep
<1>3. CASE UNCHANGED vars
  BY <1>3 DEF vars, IInv, Types, Positions, LaneOK, Place, Tries, Passed, NearPoison,
       RowOK, RowLane, Busy, Through, Batch, Poisoned, Poison, Skipped
<1> QED  BY <1>1, <1>2, <1>3 DEF Next

LEMMA Invariance == Spec => []IInv
<1> QED  BY InitIInv, NextIInv, PTL DEF Spec

\* Every variable keeps its type; in particular a batch never has more than
\* BatchSize records, which is what put_events takes, after any number of retries,
\* and no record is both on the bus and discarded.
THEOREM TypeCorrect == Spec => []TypeOK
<1>1. IInv => TypeOK
  <2> SUFFICES ASSUME IInv, NEW l \in Lane, Busy(l)
               PROVE  /\ batch[l].end \in checkpoint[l] + 1 .. Len(log[l])
                      /\ Cardinality(Batch(l)) <= BatchSize
    BY DEF TypeOK, IInv, Types
  <2>1. LaneOK(l)  BY DEF IInv
  <2>2. /\ checkpoint[l] < batch[l].end /\ batch[l].end <= Len(log[l])
        /\ batch[l].end <= checkpoint[l] + BatchSize
    BY <2>1 DEF LaneOK, Place
  <2>3. Cardinality(Batch(l)) = batch[l].end - checkpoint[l]
    <3>1. /\ checkpoint[l] + 1 \in Int /\ batch[l].end \in Int
          /\ checkpoint[l] + 1 <= batch[l].end
      BY <2>2, NumbersOf
    <3>2. Cardinality(Batch(l)) = batch[l].end - (checkpoint[l] + 1) + 1
      BY <3>1, FS_Interval DEF Batch
    <3> QED  BY <3>2, NumbersOf
  <2> QED  BY <2>2, <2>3, NumbersOf
<1> QED  BY <1>1, Invariance, PTL

\* Behind the checkpoint every record is on the bus, was a delete, or was discarded,
\* whichever entries the bus refuses and wherever the forwarder dies.
THEOREM PassesNothingOver == Spec => []NothingPassedOver
<1>1. IInv => NothingPassedOver  BY DEF IInv, LaneOK, Passed, NothingPassedOver
<1> QED  BY <1>1, Invariance, PTL

\* A record is discarded only within a batch's length of one that the converter
\* refuses: outages shorter than the retries lose nothing.
THEOREM LosesOnlyNearPoison == Spec => []LostOnlyNearPoison
<1>1. IInv => LostOnlyNearPoison
  <2> SUFFICES ASSUME IInv, NEW x \in lost
               PROVE  \E j \in 1 .. Len(log[x[1]]) :
                        Poison(log[x[1]][j]) /\ j < x[2] + BatchSize /\ x[2] < j + BatchSize
    BY DEF LostOnlyNearPoison
  <2>1. x \in Positions  BY DEF IInv, Types
  <2>2. PICK l \in Lane : \E i \in 1 .. Len(log[l]) : x = <<l, i>>
    BY <2>1, PositionIs
  <2>3. PICK i \in 1 .. Len(log[l]) : x = <<l, i>>  BY <2>2
  <2>4. NearPoison(l) /\ i \in Nat  BY NumbersOf DEF IInv, LaneOK
  <2> QED  BY <2>3, <2>4 DEF NearPoison
<1> QED  BY <1>1, Invariance, PTL

\* When the stream is through with a row, the last event the bus got about it tells
\* the latest change, although partial failures put events again and out of order.
THEOREM LatestWordIsCurrent == Spec => []LatestEventIsCurrent
<1>1. IInv => LatestEventIsCurrent
  <2> SUFFICES ASSUME IInv, NEW r \in Row
               PROVE  LET l == RowLane(r)
                          of == {i \in 1 .. Len(log[l]) : log[l][i].row = r
                                                          /\ ~Skipped(log[l][i])}
                      IN  of # {} /\ Max(of) <= checkpoint[l] /\ <<l, Max(of)>> \notin lost =>
                            latest[r] = Max(of)
    BY DEF LatestEventIsCurrent
  <2> DEFINE l == RowLane(r)
             of == {i \in 1 .. Len(log[l]) : log[l][i].row = r /\ ~Skipped(log[l][i])}
  <2> SUFFICES ASSUME of # {}, Max(of) <= checkpoint[l], <<l, Max(of)>> \notin lost
               PROVE  latest[r] = Max(of)
    OBVIOUS
  <2>1. l \in Lane  BY RowLaneIsLane
  <2>2. Len(log[l]) \in Nat /\ checkpoint[l] \in Nat /\ latest[r] \in Nat
    BY <2>1, NumbersOf DEF IInv, Types
  <2>3. Max(of) \in of /\ \A y \in of : Max(of) >= y
    <3>1. of \in SUBSET (1 .. Len(log[l]))  OBVIOUS
    <3> HIDE DEF of, l
    <3> QED  BY <2>2, <3>1, MaxProperty
  <2>4. RowOK(r)  BY DEF IInv
  <2>5. latest[r] >= Max(of) /\ Max(of) \in Nat /\ Max(of) >= 1
    <3> DEFINE i == Max(of)
    <3>1. i \in of  BY <2>3
    <3>2. i \in 1 .. checkpoint[l] /\ log[l][i].row = r /\ ~Skipped(log[l][i])
      BY <2>2, <3>1
    <3>3. latest[r] >= i
      <4> HIDE DEF i, of
      <4> QED  BY <2>4, <3>2 DEF RowOK, i
    <3> QED  BY <2>2, <3>2, <3>3
  <2>6. latest[r] # 0 => latest[r] \in of  BY <2>4 DEF RowOK
  <2>7. latest[r] \in of  BY <2>2, <2>5, <2>6
  <2>8. Max(of) >= latest[r]  BY <2>3, <2>7
  <2> HIDE DEF of
  <2> QED  BY <2>2, <2>5, <2>8
<1> QED  BY <1>1, Invariance, PTL
=============================================================================
