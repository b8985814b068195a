-------------------------- MODULE MCCriticalSection --------------------------
(***************************************************************************)
(* Two dags share a pool of at most two slots.  Dag d1 runs task a, which  *)
(* takes two slots, and task b, limited to one instance, which has two     *)
(* dag runs; dag d2 runs task c, at the lowest priority.  So every check   *)
(* of the loop refuses somebody; and when a and b fill the LIMIT of two    *)
(* and are refused, the loop must repeat its query to find c.              *)
(***************************************************************************)
EXTENDS CriticalSection, TLC

CONSTANTS a, b, c, b1, a1, b2, c1, r1, r2, r3, d1, d2, p

MCTask == {a, b, c}
MCTI == {a1, b1, b2, c1}
MCRun == {r1, r2, r3}
MCRunOf == a1 :> r1 @@ b1 :> r1 @@ b2 :> r2 @@ c1 :> r3
MCTaskOf == a1 :> a @@ b1 :> b @@ b2 :> b @@ c1 :> c
MCDagOf == a :> d1 @@ b :> d1 @@ c :> d2
MCPoolOf == [t \in MCTask |-> p]
MCSlots == a :> 2 @@ b :> 1 @@ c :> 1
MCMaxActiveTasks == d1 :> 2 @@ d2 :> 1
MCTaskLimit == a :> NoLimit @@ b :> 1 @@ c :> NoLimit
MCRank == a1 :> 0 @@ b1 :> 1 @@ b2 :> 2 @@ c1 :> 3
MCSymmetry == Permutations(Scheduler)
=============================================================================
