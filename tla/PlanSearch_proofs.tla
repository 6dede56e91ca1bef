------------------------- MODULE PlanSearch_proofs -------------------------
(***************************************************************************)
(* Proofs about module PlanSearch, for every application, machine and       *)
(* outcome of the cost model: a schedule is what the stage scheduler takes  *)
(* for granted, the search is never deeper than it may be, and without      *)
(* preemption a running model loses its plan to a model of a lower level    *)
(* only, or to one that waits for a source.                                 *)
(***************************************************************************)
EXTENDS PlanSearchProperties, FoldTheorems, SequenceTheorems, FunctionTheorems

PlannedIn(n) == {k \in DOMAIN sched : n \in ModelsIn(sched[k])}

(* A finished schedule plans every node, and a node only with the nodes it  *)
(* reads from, or after their last stage, and not before their last stage   *)
(* only: what a stage of the scheduler takes for granted (InTime).          *)
InOrder ==
    phase = "done" =>
        \A m \in Nodes :
            /\ PlannedIn(m) # {}
            /\ \A i \in NodeInputs(m) :
                  /\ \A k \in PlannedIn(m) \ PlannedIn(i) : \A j \in PlannedIn(i) : j < k
                  /\ \A j \in PlannedIn(i) : \E k \in PlannedIn(m) : j <= k

(* The search never has more stages than nodes, where it would return       *)
(* without a schedule: every stage finishes a node.                         *)
NeverTooDeep == ~TooDeep

----------------------------------------------------------------------------
(* The inductive invariant.                                                 *)
Sizes == UNION {work.fits[work.name[n]] : n \in Nat}
AnyPlan == [model : Nat, workers : Sizes, dp : 1 .. TotGpu]
Open == {n \in Nodes : ~Finished(n)}
Closed == {n \in Nodes : Finished(n)}

Shape ==
    /\ home \in Seq(Nat)
    /\ sched \in Seq(SUBSET AnyPlan) /\ group \subseteq AnyPlan
    /\ level \in Nat
    /\ phase = "fuse" => sched = <<>> /\ fin = {}
    /\ phase = "done" => Open = {}

(* What is planned in a stage is not finished, and its inputs are finished  *)
(* or planned with it.                                                      *)
Candidates ==
    phase \in {"levels", "pick", "stage"} =>
        /\ levels \in Seq(SUBSET Open) /\ cand \in Seq(Open) /\ tot \in Seq(Open)
        /\ ModelsIn(group) \subseteq Open
        /\ \A n \in ModelsIn(group) : \A i \in NodeInputs(n) :
              Finished(i) \/ i \in ModelsIn(group)

(* The stages so far: a node reads from nodes of its stage, or of stages    *)
(* that have all ended before; a finished node was in the last stage of     *)
(* what it reads from, or in a later one.                                   *)
WithSources ==
    \A m \in Nodes : \A i \in NodeInputs(m) :
        \A k \in PlannedIn(m) \ PlannedIn(i) : Finished(i) /\ \A j \in PlannedIn(i) : j < k
NotBefore ==
    \A m \in Closed : \A i \in NodeInputs(m) :
        \A j \in PlannedIn(i) : \E k \in PlannedIn(m) : j <= k
History ==
    /\ phase # "aborted" => StatesAccurate(fin)
    /\ \A n \in Closed : PlannedIn(n) # {}
    /\ WithSources
    /\ NotBefore
    /\ IsFiniteSet(Nodes) /\ Len(sched) <= Cardinality(Closed)

Inv == Shape /\ Candidates /\ History

----------------------------------------------------------------------------
(* A node has a base model.                                                 *)
LEMMA NodeHasBase == \A n \in Nodes : n \in Bases(n)
  BY DEF Nodes, Bases

(* Before the first stage nothing is finished or planned.                   *)
LEMMA NothingPlanned == home \in Seq(Nat) /\ sched = <<>> /\ fin = {} => History
<1> SUFFICES ASSUME home \in Seq(Nat), sched = <<>>, fin = {}
             PROVE  History
  OBVIOUS
<1>1. Closed = {}
  BY NodeHasBase DEF Closed, Finished
<1>2. \A n : PlannedIn(n) = {}
  BY DEF PlannedIn
<1>3. IsFiniteSet(Nodes)
  <2>1. DOMAIN home = 1 .. Len(home) /\ Len(home) \in Nat
    OBVIOUS
  <2>2. IsFiniteSet(DOMAIN home)
    BY <2>1, FS_Interval
  <2> QED
    BY <2>2, FS_Subset DEF Nodes
<1>4. Len(sched) <= Cardinality(Closed)
  BY <1>1, FS_EmptySet
<1>5. StatesAccurate(fin)
  BY <1>1 DEF StatesAccurate, Closed, Finished
<1> QED
  BY <1>1, <1>2, <1>3, <1>4, <1>5 DEF History, WithSources, NotBefore

(* The invariant holds of an application whose models are not yet fused.    *)
LEMMA InitInv == Init => Inv
<1> SUFFICES ASSUME Init PROVE Inv
  OBVIOUS
<1> USE DEF Init
<1>1. Shape
  BY DEF Shape
<1>2. Candidates
  BY DEF Candidates
<1>3. History
  BY NothingPlanned
<1> QED
  BY <1>1, <1>2, <1>3 DEF Inv

----------------------------------------------------------------------------
(* What a step that keeps the graph, and what is finished and planned,      *)
(* keeps too.                                                               *)
LEMMA SameGraph ==
    ASSUME UNCHANGED <<work, home>>
    PROVE  /\ Nodes' = Nodes /\ AnyPlan' = AnyPlan
           /\ \A n : Bases(n)' = Bases(n) /\ NodeInputs(n)' = NodeInputs(n)
  BY DEF Nodes, AnyPlan, Sizes, Bases, NodeInputs

(* What is finished stays the same in a step that finishes nothing.         *)
LEMMA SameProgress ==
    ASSUME UNCHANGED <<work, home, fin>>
    PROVE  /\ \A n : Finished(n)' = Finished(n)
           /\ Open' = Open /\ Closed' = Closed
  BY SameGraph DEF Finished, Open, Closed

(* A step that plans and finishes nothing keeps what is known of the stages *)
(* so far.                                                                  *)
LEMMA HistoryKept ==
    ASSUME History, phase = "aborted" => phase' = "aborted", UNCHANGED <<work, home, fin, sched>>
    PROVE  History'
<1>1. \A n : PlannedIn(n)' = PlannedIn(n)
  BY DEF PlannedIn, ModelsIn
<1>2. phase' # "aborted" => StatesAccurate(fin)'
  BY SameGraph DEF History, StatesAccurate
<1> QED
  BY <1>1, <1>2, SameGraph, SameProgress DEF History, WithSources, NotBefore

----------------------------------------------------------------------------
(* Every action keeps the invariant.                                        *)
LEMMA FuseInv == Inv /\ Fuse => Inv'
<1> SUFFICES ASSUME Inv, Fuse PROVE Inv'
  OBVIOUS
<1> DEFINE m == Len(home) + 1
           fits == {n \in Nodes : CanFollow(m, n)}
<1>1. PICK n \in IF fits = {} THEN {m} ELSE fits : home' = Append(home, n)
  BY DEF Fuse
<1>2. home \in Seq(Nat) /\ sched = <<>> /\ fin = {}
  BY DEF Inv, Shape, Fuse
<1>3. home' \in Seq(Nat)
  <2>1. n \in Nat
    BY <1>1, <1>2 DEF Nodes
  <2> QED
    BY <1>1, <1>2, <2>1
<1>4. sched' = <<>> /\ fin' = {} /\ phase' \in {"fuse", "round"}
  BY <1>2 DEF Fuse, stageVars
<1>5. Shape'
  BY <1>3, <1>4 DEF Inv, Shape, Fuse, pickVars, AnyPlan, Sizes
<1>6. Candidates'
  BY <1>4 DEF Candidates
<1>7. History'
  <2>1. (home \in Seq(Nat) /\ sched = <<>> /\ fin = {} => History)'
    BY NothingPlanned, PTL
  <2> QED
    BY <1>3, <1>4, <2>1
<1> QED
  BY <1>5, <1>6, <1>7 DEF Inv

(* A round that starts, or ends the search, keeps the invariant.            *)
LEMMA RoundInv == Inv /\ Round => Inv'
<1> SUFFICES ASSUME Inv, Round PROVE Inv'
  OBVIOUS
<1> USE DEF Round, graphVars, stageVars
<1>1. UNCHANGED <<work, home, fin, sched>> /\ phase # "aborted"
  OBVIOUS
<1>2. Shape'
  <2>1. phase' = "done" => Open = {}
    BY DEF AllDone, Open
  <2> QED
    BY <1>1, <2>1, SameGraph, SameProgress DEF Inv, Shape
<1>3. Candidates'
  BY DEF Candidates, ModelsIn
<1>4. History'
  BY <1>1, HistoryKept DEF Inv
<1> QED
  BY <1>2, <1>3, <1>4 DEF Inv

(* A pass over the nodes that opens the next level keeps the invariant.     *)
LEMMA PassInv == Inv /\ Pass => Inv'
<1> SUFFICES ASSUME Inv, Pass PROVE Inv'
  OBVIOUS
<1> USE DEF Pass, graphVars, stageVars
<1>1. UNCHANGED <<work, home, fin, sched>> /\ phase # "aborted"
  OBVIOUS
<1>2. phase' \in {"aborted", "pick", "levels"}
  OBVIOUS
<1>3. Shape'
  BY <1>1, <1>2, SameGraph, SameProgress DEF Inv, Shape
<1>4. Candidates'
  <2>1. levels \in Seq(SUBSET Open) /\ cand \in Seq(Open) /\ tot \in Seq(Open)
    BY DEF Inv, Candidates
  <2>2. levels' \in Seq(SUBSET Open)
    <3> DEFINE open == {n \in Nodes \ visited : ~Finished(n)}
               new == {n \in open : CanEnter(n)}
    <3>1. new \subseteq Open
      BY DEF Open
    <3>2. levels' = IF new = {} THEN levels ELSE Append(levels, new)
      OBVIOUS
    <3> HIDE DEF new
    <3> QED
      BY <2>1, <3>1, <3>2
  <2> QED
    BY <1>1, <2>1, <2>2, SameGraph, SameProgress DEF Inv, Candidates, ModelsIn
<1>5. History'
  BY <1>1, HistoryKept DEF Inv
<1> QED
  BY <1>3, <1>4, <1>5 DEF Inv

(* Going on to the next level keeps the invariant.                          *)
LEMMA VisitInv == Inv /\ Visit => Inv'
<1> SUFFICES ASSUME Inv, Visit PROVE Inv'
  OBVIOUS
<1> USE DEF Visit, graphVars, stageVars
<1>1. UNCHANGED <<work, home, fin, sched>> /\ phase # "aborted"
  OBVIOUS
<1>2. Shape'
  BY <1>1, SameGraph, SameProgress DEF Inv, Shape
<1>3. Candidates'
  <2>1. /\ levels \in Seq(SUBSET Open) /\ tot \in Seq(Open)
        /\ level \in Nat /\ level' = level + 1
    BY DEF Inv, Candidates, Shape
  <2>2. cand' \in Seq(Open)
    <3>1. CASE level' > Len(levels)
      BY <3>1
    <3>2. CASE ~(level' > Len(levels))
      <4>1. cand' \in Orders(levels[level']) /\ levels[level'] \subseteq Open
        BY <2>1, <3>2
      <4>2. cand' \in [1 .. Cardinality(levels[level']) -> Open]
        BY <4>1 DEF Orders, SetToSeqs
      <4>3. Cardinality(levels[level']) \in Nat
        <5>1. IsFiniteSet(levels[level'])
          BY <4>1, FS_Subset DEF Inv, History, Open
        <5> QED
          BY <5>1, FS_CardinalityType
      <4> QED
        BY <4>2, <4>3
    <3> QED
      BY <3>1, <3>2
  <2> QED
    BY <1>1, <2>1, <2>2, SameGraph, SameProgress DEF Inv, Candidates, ModelsIn
<1>4. History'
  BY <1>1, HistoryKept DEF Inv
<1> QED
  BY <1>2, <1>3, <1>4 DEF Inv

(* A round of the greedy choice leaves the plans as they are, or gives a    *)
(* node that can run a plan, instead of the one it had.                     *)
LEMMA OneMorePlan ==
    ASSUME Inv, NEW nodes \in SUBSET Open, NEW new \in Outcomes(Options(nodes)), new # group
    PROVE  \E n \in nodes :
              /\ Runnable(n)
              /\ ModelsIn(new) = ModelsIn(group) \cup {n}
              /\ new \subseteq AnyPlan
<1>1. PICK p \in Options(nodes) : new = With(p)
  BY DEF Outcomes, Forced, Sure
<1>2. PICK n \in nodes : Runnable(n) /\ p \in Fitting(n)
  BY <1>1 DEF Options
<1>3. p \in PossiblePlans(n)
  BY <1>2 DEF Fitting, MorePlans
<1>4. p.model = n
  BY <1>3 DEF PossiblePlans
<1>5. n \in Nat
  BY DEF Open, Nodes, Inv, Shape
<1>6. p \in AnyPlan
  BY <1>3, <1>5 DEF PossiblePlans, AnyPlan, Sizes
<1>7. ModelsIn(new) = ModelsIn(group) \cup {n}
  BY <1>1, <1>4 DEF With, Others, ModelsIn
<1>8. new \subseteq AnyPlan
  BY <1>1, <1>6 DEF With, Others, Inv, Shape
<1> QED
  BY <1>2, <1>7, <1>8

(* A greedy choice of one more plan keeps the invariant.                    *)
LEMMA PickInv == Inv /\ Pick => Inv'
<1> SUFFICES ASSUME Inv, Pick PROVE Inv'
  OBVIOUS
<1> USE DEF graphVars, stageVars
<1> DEFINE tried == IF cand = <<>> THEN tot ELSE Append(tot, Head(cand))
<1>1. UNCHANGED <<work, home, fin, sched, levels, level>> /\ phase = "pick"
  BY DEF Pick
<1>2. group' \in Outcomes(Options(ToSet(tried))) /\ phase' \in {"pick", "stage"}
  BY DEF Pick
<1>3. /\ levels \in Seq(SUBSET Open) /\ cand \in Seq(Open) /\ tot \in Seq(Open)
      /\ ModelsIn(group) \subseteq Open
      /\ \A n \in ModelsIn(group) : \A i \in NodeInputs(n) :
            Finished(i) \/ i \in ModelsIn(group)
  BY <1>1 DEF Inv, Candidates
<1>4. tried \in Seq(Open)
  BY <1>3
<1>5. ToSet(tried) \in SUBSET Open
  <2> HIDE DEF tried
  <2> QED
    BY <1>4 DEF ToSet
<1>6. \/ cand' = cand /\ tot' = tot
      \/ cand # <<>> /\ cand' = Tail(cand) /\ tot' = tried
  BY DEF Pick
<1>7. cand' \in Seq(Open) /\ tot' \in Seq(Open)
  <2> HIDE DEF tried
  <2>1. cand # <<>> => Tail(cand) \in Seq(Open)
    BY <1>3, HeadTailProperties
  <2> QED
    BY <1>3, <1>4, <1>6, <2>1
<1>8. /\ group' \subseteq AnyPlan
      /\ ModelsIn(group)' \subseteq Open
      /\ \A n \in ModelsIn(group)' : \A i \in NodeInputs(n) :
            Finished(i) \/ i \in ModelsIn(group)'
  <2> HIDE DEF tried
  <2>1. CASE group' = group
    <3>1. ModelsIn(group)' = ModelsIn(group)
      BY <2>1 DEF ModelsIn
    <3> QED
      BY <1>3, <2>1, <3>1 DEF Inv, Shape
  <2>2. CASE group' # group
    <3>1. PICK n \in ToSet(tried) :
             Runnable(n) /\ ModelsIn(group') = ModelsIn(group) \cup {n} /\ group' \subseteq AnyPlan
      BY <1>2, <1>5, <2>2, OneMorePlan
    <3>2. ModelsIn(group)' = ModelsIn(group) \cup {n}
      BY <3>1 DEF ModelsIn
    <3>3. \A i \in NodeInputs(n) : Finished(i) \/ i \in ModelsIn(group)
      BY <3>1 DEF Runnable
    <3> QED
      BY <1>3, <1>5, <3>1, <3>2, <3>3
  <2> QED
    BY <2>1, <2>2
<1>9. Shape'
  BY <1>1, <1>2, <1>8, SameGraph, SameProgress DEF Inv, Shape
<1>10. Candidates'
  BY <1>1, <1>3, <1>7, <1>8, SameGraph, SameProgress DEF Candidates
<1>11. History'
  BY <1>1, HistoryKept DEF Inv
<1> QED
  BY <1>9, <1>10, <1>11 DEF Inv

(* Adding the chosen plans to the schedule as a stage keeps the invariant.  *)
LEMMA StageInv == Inv /\ Stage => Inv'
<1> SUFFICES ASSUME Inv, Stage PROVE Inv'
  OBVIOUS
<1> USE DEF graphVars
<1> DEFINE last == Len(sched) + 1
           now == ModelsIn(group)
<1>1. PICK more \in StageEnds :
          /\ fin' = fin \cup more
          /\ phase' = IF StatesAccurate(fin \cup more) THEN "round" ELSE "aborted"
  BY DEF Stage
<1>2. UNCHANGED <<work, home>> /\ phase = "stage" /\ sched' = Append(sched, group)
  BY DEF Stage
<1>3. Shape /\ History /\ StatesAccurate(fin)
  BY <1>2 DEF Inv, History
<1>4. /\ now \subseteq Open
      /\ \A n \in now : \A i \in NodeInputs(n) : Finished(i) \/ i \in now
  BY <1>2 DEF Inv, Candidates
<1>5. Shape'
  BY <1>1, <1>2, <1>3, SameGraph DEF Shape, Stage, pickVars
<1>6. Candidates'
  BY <1>1 DEF Candidates
<1>7. /\ Len(sched) \in Nat /\ last \in Nat
      /\ \A n : PlannedIn(n) \subseteq 1 .. Len(sched)
      /\ \A n : PlannedIn(n)' = PlannedIn(n) \cup {k \in {last} : n \in now}
  BY <1>2, <1>3 DEF Shape, PlannedIn, ModelsIn
<1>8. \A n : Finished(n) => Finished(n)'
  BY <1>1, <1>2, SameGraph DEF Finished
<1>9. \A n : n \in now => ~Finished(n)
  BY <1>4 DEF Open
(* What the stage finishes has been planned in it.                          *)
<1>10. \A n \in Nodes : Finished(n)' /\ ~Finished(n) => n \in now
  <2> SUFFICES ASSUME NEW n \in Nodes, Finished(n)', ~Finished(n)
               PROVE  n \in now
    OBVIOUS
  <2>1. PICK b \in Bases(n) : b \in more
    BY <1>1, <1>2, SameGraph DEF Finished
  <2>2. PICK x \in now : b \in Bases(x)
    BY <2>1 DEF StageEnds
  <2> QED
    BY <2>1, <2>2 DEF Bases
<1>11. phase' # "aborted" => StatesAccurate(fin)'
  BY <1>1, <1>2, SameGraph DEF StatesAccurate
<1>12. \A n \in Closed' : PlannedIn(n)' # {}
  BY <1>2, <1>3, <1>7, <1>10, SameGraph DEF Closed, History
<1>13. WithSources'
  <2> SUFFICES ASSUME NEW m \in Nodes, NEW i \in NodeInputs(m),
                      NEW k \in PlannedIn(m)', k \notin PlannedIn(i)'
               PROVE  Finished(i)' /\ \A j \in PlannedIn(i)' : j < k
    BY <1>2, SameGraph DEF WithSources
  <2>1. CASE k \in PlannedIn(m)
    <3>1. Finished(i) /\ \A j \in PlannedIn(i) : j < k
      BY <1>3, <1>7, <2>1 DEF History, WithSources
    <3>2. PlannedIn(i)' = PlannedIn(i)
      BY <1>7, <1>9, <3>1
    <3> QED
      BY <1>8, <3>1, <3>2
  <2>2. CASE k = last /\ m \in now
    <3>1. i \notin now
      BY <1>7, <2>2
    <3>2. Finished(i)
      BY <1>4, <2>2, <3>1
    <3> QED
      BY <1>7, <1>8, <2>2, <3>1, <3>2
  <2> QED
    BY <1>7, <2>1, <2>2
<1>14. NotBefore'
  <2> SUFFICES ASSUME NEW m \in Nodes, Finished(m)', NEW i \in NodeInputs(m), NEW j \in PlannedIn(i)'
               PROVE  \E k \in PlannedIn(m)' : j <= k
    BY <1>2, SameGraph DEF NotBefore, Closed
  <2>1. CASE Finished(m)
    <3>1. Finished(i)
      BY <1>3, <2>1 DEF StatesAccurate, Finished
    <3>2. PlannedIn(i)' = PlannedIn(i)
      BY <1>7, <1>9, <3>1
    <3> QED
      BY <1>3, <1>7, <2>1, <3>2 DEF History, NotBefore, Closed
  <2>2. CASE ~Finished(m)
    <3>1. m \in now
      BY <1>10, <2>2
    <3> QED
      BY <1>7, <3>1
  <2> QED
    BY <2>1, <2>2
(* A node that reads from no other of the stage has finished in it.         *)
<1>15. Len(sched)' <= Cardinality(Closed')
  <2>1. PICK n \in now : Finished(n)'
    BY <1>1, <1>2, SameGraph DEF StageEnds, Roots, Finished
  <2>2. n \in Closed' /\ n \notin Closed /\ Closed \subseteq Closed'
    BY <1>2, <1>4, <1>8, <2>1, SameGraph DEF Closed, Open
  <2>3. IsFiniteSet(Closed')
    BY <1>2, <1>3, SameGraph, FS_Subset DEF History, Closed
  <2>4. IsFiniteSet(Closed) /\ Cardinality(Closed \cup {n}) = Cardinality(Closed) + 1
    BY <2>2, <2>3, FS_Subset, FS_AddElement
  <2>5. Cardinality(Closed \cup {n}) <= Cardinality(Closed')
    BY <2>2, <2>3, FS_Subset
  <2>6. Cardinality(Closed) \in Nat /\ Cardinality(Closed') \in Nat
    BY <2>3, <2>4, FS_CardinalityType
  <2>7. Len(sched') = Len(sched) + 1
    BY <1>2, <1>3 DEF Shape
  <2> QED
    BY <1>3, <1>7, <2>4, <2>5, <2>6, <2>7 DEF History
<1>16. History'
  BY <1>2, <1>3, <1>11, <1>12, <1>13, <1>14, <1>15, SameGraph DEF History
<1> QED
  BY <1>5, <1>6, <1>16 DEF Inv

(* Giving up on a stage without plans keeps the invariant.                  *)
LEMMA NoStageInv == Inv /\ NoStage => Inv'
<1> SUFFICES ASSUME Inv, NoStage PROVE Inv'
  OBVIOUS
<1>1. UNCHANGED <<work, home, fin, sched, group, level>> /\ phase' = "aborted"
  BY DEF NoStage, graphVars, stageVars, pickVars
<1>2. Shape'
  BY <1>1, SameGraph DEF Inv, Shape
<1>3. Candidates'
  BY <1>1 DEF Candidates
<1>4. History'
  BY <1>1, HistoryKept DEF Inv
<1> QED
  BY <1>2, <1>3, <1>4 DEF Inv

----------------------------------------------------------------------------
(* The inductive invariant: what is open, what is planned with what, and    *)
(* the order of the stages, for every application and cost model.           *)
THEOREM Invariance == Spec => []Inv
<1>1. Inv /\ [Next]_vars => Inv'
  <2> SUFFICES ASSUME Inv, [Next]_vars PROVE Inv'
    OBVIOUS
  <2>1. CASE UNCHANGED vars
    <3>1. UNCHANGED <<work, home, phase, fin, sched, levels, level, cand, tot, group>>
      BY <2>1 DEF vars, graphVars, stageVars, pickVars
    <3>2. Shape'
      BY <3>1, SameGraph, SameProgress DEF Inv, Shape
    <3>3. Candidates'
      BY <3>1, SameGraph, SameProgress DEF Inv, Candidates, ModelsIn
    <3>4. History'
      BY <3>1, HistoryKept DEF Inv
    <3> QED
      BY <3>2, <3>3, <3>4 DEF Inv
  <2> QED
    BY <2>1, FuseInv, RoundInv, PassInv, VisitInv, PickInv, StageInv, NoStageInv DEF Next
<1> QED
  BY <1>1, InitInv, PTL DEF Spec

(* A schedule plans every model, and every model in time for its sources.   *)
THEOREM SourcesInTime == Spec => []InOrder
<1>1. Inv => InOrder
  <2> SUFFICES ASSUME Inv, phase = "done" PROVE InOrder
    BY DEF InOrder
  <2>1. Nodes = Closed
    BY DEF Inv, Shape, Open, Closed
  <2> QED
    BY <2>1 DEF Inv, History, WithSources, NotBefore, InOrder
<1> QED
  BY <1>1, Invariance, PTL

(* The search is never too deep, and returns with a schedule unless it is   *)
(* aborted (the test of _get_best_model_schedule on the number of stages).  *)
THEOREM EnoughStages == Spec => []NeverTooDeep
<1>1. Inv => NeverTooDeep
  <2> SUFFICES ASSUME Inv PROVE NeverTooDeep
    OBVIOUS
  <2>1. IsFiniteSet(Nodes) /\ Len(sched) <= Cardinality(Closed) /\ Len(sched) \in Nat
    BY DEF Inv, History, Shape
  <2>2. /\ Cardinality(Closed) <= Cardinality(Nodes)
        /\ Cardinality(Closed) \in Nat /\ Cardinality(Nodes) \in Nat
    BY <2>1, FS_Subset, FS_CardinalityType DEF Closed
  <2> QED
    BY <2>1, <2>2 DEF NeverTooDeep, TooDeep
<1> QED
  BY <1>1, Invariance, PTL

----------------------------------------------------------------------------
(* A plan takes a number of GPUs.                                           *)
LEMMA GpusType == \A p \in Plan : Gpus(p) \in Nat
<1> SUFFICES ASSUME NEW p \in Plan PROVE Gpus(p) \in Nat
  OBVIOUS
<1>1. p.workers \in Nat /\ p.dp \in Nat
  BY SearchAssumption DEF Plan
<1> QED
  BY <1>1 DEF Gpus

(* The GPUs of a set of plans are their sum, in any order.                  *)
LEMMA UsedIsSum ==
    ASSUME NEW S, IsFiniteSet(S), NEW h \in [S -> Nat], \A p \in S : h[p] = Gpus(p),
           NEW sum, Summing(h, S, sum)
    PROVE  Used(S) = sum[S]
<1> DEFINE Sums(f) == f = [s \in SUBSET S |->
                              IF s = {} THEN 0
                              ELSE Gpus(CHOOSE x \in s : TRUE) + f[s \ {CHOOSE x \in s : TRUE}]]
           iter == CHOOSE f : Sums(f)
<1>1. Used(S) = iter[S]
  BY DEF Used, MapThenSumSet, MapThenFoldSet
<1>2. \A s \in SUBSET S : s # {} => h[Some(s)] = Gpus(Some(s))
  BY SomeIn
<1>3. Summing(h, S, iter)
  <2>1. Sums(sum)
    BY <1>2 DEF Summing, Some
  <2>2. Sums(iter)
    <3> HIDE DEF Sums
    <3> QED
      BY <2>1
  <2> HIDE DEF iter
  <2> QED
    BY <1>2, <2>2 DEF Summing, Some
<1> HIDE DEF iter
<1>4. iter[S] = sum[S]
  BY <1>3, SumUnique
<1> QED
  BY <1>1, <1>4

(* With one plan more or less the GPUs change by those of the plan.         *)
LEMMA UsedStep ==
    ASSUME NEW S, IsFiniteSet(S), S \subseteq Plan
    PROVE  /\ Used(S) \in Nat
           /\ S = {} => Used(S) = 0
           /\ \A p \in S : Used(S) = Gpus(p) + Used(S \ {p})
<1> DEFINE h == [p \in S |-> Gpus(p)]
<1>1. h \in [S -> Nat] /\ \A p \in S : h[p] = Gpus(p)
  BY GpusType
<1> HIDE DEF h
<1>2. PICK sum : Summing(h, S, sum)
  BY <1>1, SumsExist
<1>3. Used(S) = sum[S]
  BY <1>1, <1>2, UsedIsSum
<1>4. /\ sum[S] \in Nat
      /\ S = {} => sum[S] = 0
      /\ \A p \in S : sum[S] = h[p] + sum[S \ {p}]
  BY <1>1, <1>2, SumStep
<1>5. ASSUME NEW p \in S
      PROVE  Used(S \ {p}) = sum[S \ {p}]
  <2> DEFINE A == S \ {p}
             g == [q \in A |-> Gpus(q)]
  <2>1. A \in SUBSET S /\ IsFiniteSet(A)
    BY FS_Subset
  <2>2. g \in [A -> Nat] /\ \A q \in A : g[q] = Gpus(q) /\ g[q] = h[q]
    BY <1>1, GpusType
  <2> HIDE DEF g, A
  <2>3. PICK asum : Summing(g, A, asum)
    BY <2>1, <2>2, SumsExist
  <2>4. Used(A) = asum[A]
    BY <2>1, <2>2, <2>3, UsedIsSum
  <2>5. asum[A] = sum[A]
    BY <1>1, <1>2, <2>1, <2>2, <2>3, SumUnique
  <2> QED
    BY <2>4, <2>5 DEF A
<1> QED
  BY <1>1, <1>3, <1>4, <1>5

(* A set of plans as a sequence, each plan once.                            *)
LEMMA InSequence ==
    ASSUME NEW S, IsFiniteSet(S)
    PROVE  /\ SetToSeq(S) \in [1 .. Cardinality(S) -> S] /\ Cardinality(S) \in Nat
           /\ \A i, j \in 1 .. Cardinality(S) : SetToSeq(S)[i] = SetToSeq(S)[j] => i = j
           /\ \A p \in S : \E i \in 1 .. Cardinality(S) : SetToSeq(S)[i] = p
<1> DEFINE n == Cardinality(S)
<1>1. n \in Nat /\ ExistsBijection(1 .. n, S)
  BY FS_CardinalityType
<1> HIDE DEF n
<1>2. PICK f : f \in Bijection(1 .. n, S)
  BY <1>1 DEF ExistsBijection
<1>3. f \in [1 .. n -> S] /\ IsInjective(f)
  BY <1>2 DEF Bijection, Injection, IsInjective
<1>4. SetToSeq(S) \in [1 .. n -> S] /\ IsInjective(SetToSeq(S))
  BY <1>3 DEF SetToSeq, n
<1>5. SetToSeq(S) \in Injection(1 .. n, S)
  BY <1>4 DEF Injection
<1>6. IsFiniteSet(1 .. n) /\ Cardinality(1 .. n) = n
  BY <1>1, FS_Interval
<1>7. SetToSeq(S) \in Surjection(1 .. n, S)
  BY <1>5, <1>6, FS_Injection DEF n
<1> QED
  BY <1>1, <1>4, <1>7 DEF n, IsInjective, Surjection

(* The GPUs of the sequence are those of the set.                           *)
LEMMA SameSum ==
    ASSUME NEW S, IsFiniteSet(S), S \subseteq Plan, NEW stage, stage = SetToSeq(S)
    PROVE  MapThenSumSet(LAMBDA j : Gpus(stage[j]), DOMAIN stage) = Used(S)
<1> DEFINE D == 1 .. Cardinality(S)
           h == [p \in S |-> Gpus(p)]
           g == [j \in D |-> Gpus(stage[j])]
           Sums(f) == f = [s \in SUBSET D |->
                              IF s = {} THEN 0
                              ELSE Gpus(stage[CHOOSE x \in s : TRUE])
                                     + f[s \ {CHOOSE x \in s : TRUE}]]
           iter == CHOOSE f : Sums(f)
<1>1. /\ stage \in [D -> S] /\ Cardinality(S) \in Nat
      /\ \A i, j \in D : stage[i] = stage[j] => i = j
      /\ \A p \in S : \E i \in D : stage[i] = p
  BY InSequence
<1>2. h \in [S -> Nat] /\ \A p \in S : h[p] = Gpus(p)
  BY GpusType
<1>3. g \in [D -> Nat] /\ \A j \in D : g[j] = Gpus(stage[j]) /\ g[j] = h[stage[j]]
  BY <1>1, GpusType
<1>4. MapThenSumSet(LAMBDA j : Gpus(stage[j]), DOMAIN stage) = iter[D]
  <2>1. DOMAIN stage = D
    BY <1>1
  <2>2. MapThenSumSet(LAMBDA j : Gpus(stage[j]), D) = iter[D]
    BY DEF MapThenSumSet, MapThenFoldSet
  <2> HIDE DEF D, iter
  <2> QED
    BY <2>1, <2>2
<1>5. IsFiniteSet(D)
  BY <1>1, FS_Interval
<1> HIDE DEF g, h
<1>6. PICK sum : Summing(h, S, sum)
  BY <1>2, SumsExist
<1>7. PICK dsum : Summing(g, D, dsum)
  <2> HIDE DEF D
  <2> QED
    BY <1>3, <1>5, SumsExist
<1>8. Summing(g, D, iter)
  <2>1. \A s \in SUBSET D : s # {} => g[Some(s)] = Gpus(stage[Some(s)])
    BY <1>3, SomeIn
  <2> HIDE DEF D
  <2>2. Sums(dsum)
    BY <1>7, <2>1 DEF Summing, Some
  <2>3. Sums(iter)
    <3> HIDE DEF Sums
    <3> QED
      BY <2>2
  <2> HIDE DEF iter
  <2> QED
    BY <2>1, <2>3 DEF Summing, Some
<1> HIDE DEF iter
<1>9. {stage[d] : d \in D} = S
  BY <1>1
<1> HIDE DEF D
<1>10. iter[D] = sum[S]
  <2>1. \A e \in SUBSET D : iter[e] = sum[{stage[d] : d \in e}]
    <3>1. /\ stage \in [D -> S] /\ \A a, b \in D : stage[a] = stage[b] => a = b
          /\ h \in [S -> Nat] /\ g \in [D -> Nat] /\ \A d \in D : g[d] = h[stage[d]]
      BY <1>1, <1>2, <1>3
    <3> QED
      BY ONLY IsFiniteSet(S), <1>5, <1>6, <1>8, <3>1, SumReindexed
  <2> QED
    BY <1>9, <2>1
<1>11. Used(S) = sum[S]
  BY <1>2, <1>6, UsedIsSum
<1> QED
  BY <1>4, <1>10, <1>11

(* The order of the chosen nodes is a sequence of nodes.                    *)
LEMMA OrderType ==
    ASSUME NEW S, NEW order \in Seq(S), NEW nodes \in Seq(S)
    PROVE  GiveOrder(order, nodes) \in Seq(S)
<1> DEFINE D == DOMAIN nodes
           After(o, n) == IF n \in ToSet(o) THEN o ELSE Append(o, n)
           step == [xo \in D \X Seq(S) |-> After(xo[2], nodes[xo[1]])]
           pick == [s \in SUBSET D |-> Max(s)]
           InTurn(f) == f = [s \in SUBSET D |->
                                IF s = {} THEN order ELSE After(f[s \ {Max(s)}], nodes[Max(s)])]
           iter == CHOOSE f : InTurn(f)
<1>1. GiveOrder(order, nodes) = iter[D]
  BY DEF GiveOrder, FoldLeft, MapThenFoldSet
<1>2. D = 1 .. Len(nodes) /\ Len(nodes) \in Nat /\ IsFiniteSet(D)
  BY FS_Interval
<1>3. \A s \in SUBSET D : s # {} => Max(s) \in s
  <2>1. D \subseteq 0 .. Len(nodes)
    BY <1>2
  <2> HIDE DEF D
  <2> QED
    BY <1>2, <2>1, MaxOf
<1>4. \A x \in D, o \in Seq(S) : /\ After(o, nodes[x]) \in Seq(S)
                                 /\ step[<<x, o>>] = After(o, nodes[x])
  <2>1. \A x \in D, o \in Seq(S) : After(o, nodes[x]) \in Seq(S)
    BY <1>2
  <2> QED
    BY <2>1
<1>5. PICK fold : Folding(order, step, pick, D, fold)
  <2>1. \A s \in SUBSET D : s # {} => pick[s] \in s
    BY <1>3
  <2> HIDE DEF D, step, pick
  <2> QED
    BY <1>2, <2>1, FoldExists
<1> HIDE DEF step, pick, After
<1>6. /\ fold = [s \in SUBSET D |-> fold[s]] /\ fold[{}] = order
      /\ \A s \in SUBSET D : s # {} => fold[s] = step[<<Max(s), fold[s \ {Max(s)}]>>]
  BY <1>5 DEF Folding, pick
<1>7. \A s \in SUBSET D : fold[s] \in Seq(S)
  <2>1. \A s \in SUBSET D : s # {} =>
           \E x \in s : fold[s \ {x}] \in Seq(S) => fold[s] \in Seq(S)
    <3> SUFFICES ASSUME NEW s \in SUBSET D, s # {}, fold[s \ {Max(s)}] \in Seq(S)
                 PROVE  fold[s] \in Seq(S)
      BY <1>3
    <3>1. Max(s) \in D /\ fold[s] = step[<<Max(s), fold[s \ {Max(s)}]>>]
      BY <1>3, <1>6
    <3> QED
      BY <1>4, <3>1
  <2> HIDE DEF D
  <2> QED
    BY <1>2, <1>6, <2>1, FoldStays
<1>8. \A s \in SUBSET D : s # {} => fold[s] = After(fold[s \ {Max(s)}], nodes[Max(s)])
  BY <1>3, <1>4, <1>6, <1>7
<1>9. InTurn(iter)
  <2>1. InTurn(fold)
    BY <1>6, <1>8
  <2> HIDE DEF InTurn
  <2> QED
    BY <2>1
<1>10. \A s \in SUBSET D : iter[s] \in Seq(S)
  <2> HIDE DEF iter
  <2>1. \A s \in SUBSET D : s # {} => iter[s] = After(iter[s \ {Max(s)}], nodes[Max(s)])
    BY <1>9 DEF After
  <2>2. \A s \in SUBSET D : s # {} =>
           \E x \in s : iter[s \ {x}] \in Seq(S) => iter[s] \in Seq(S)
    BY <1>3, <1>4, <2>1
  <2>3. iter[{}] = order
    BY <1>9
  <2> HIDE DEF D
  <2> QED
    BY <1>2, <2>2, <2>3, FoldStays
<1> QED
  BY <1>1, <1>10

----------------------------------------------------------------------------
(* Types, and what makes a schedule one that can be dealt to the machine:   *)
(* a stage has one plan for a node, in groups that lie in a unit, and the   *)
(* GPUs suffice.                                                            *)
Fits(plans) ==
    /\ IsFiniteSet(plans)
    /\ \A p \in plans : Unit % p.workers = 0
    /\ \A p, q \in plans : p.model = q.model => p = q
    /\ Used(plans) <= TotGpu

Forest == \A m \in DOMAIN home : home[m] \in Nodes
AllFit ==
    /\ Fits(group)
    /\ \A k \in DOMAIN sched : Fits(sched[k]) /\ ModelsIn(sched[k]) \subseteq Nodes
Unfused == IF phase = "fuse" THEN Len(home) < work.models /\ group = {} ELSE home # <<>>
TypeInv == TypeOK /\ Unfused /\ Forest /\ AllFit

(* What is assumed of the graph that is searched.                           *)
LEMMA GraphType ==
    ASSUME <<work, method>> \in Searches
    PROVE  /\ work.models \in Nat \ {0} /\ 1 .. work.models \subseteq Model
           /\ method \in [noPreemption : BOOLEAN, random : BOOLEAN]
           /\ \A m \in 1 .. work.models :
                 /\ work.srcs[m] \subseteq 1 .. m - 1
                 /\ \A k \in work.fits[work.name[m]] : k \in 1 .. Unit /\ Unit % k = 0
<1> DEFINE search == <<work, method>>
<1>1. search[1] = work /\ search[2] = method /\ search \in Searches
  OBVIOUS
<1> HIDE DEF search
<1>2. Cardinality(Model) \in Nat /\ Model = 1 .. Cardinality(Model)
  BY SearchAssumption, FS_CardinalityType
<1>3. /\ search[1].models \in Model
      /\ search[2] \in [noPreemption : BOOLEAN, random : BOOLEAN]
      /\ \A m \in 1 .. search[1].models :
            /\ search[1].srcs[m] \subseteq 1 .. m - 1
            /\ \A k \in search[1].fits[search[1].name[m]] : k \in 1 .. Unit /\ Unit % k = 0
  BY <1>1, SearchAssumption
<1>4. work.models \in 1 .. Cardinality(Model)
  BY <1>1, <1>2, <1>3
<1>5. work.models \in Nat \ {0} /\ 1 .. work.models \subseteq Model
  BY <1>2, <1>4
<1> QED
  BY <1>1, <1>3, <1>5

(* Nodes are models of the graph.                                           *)
LEMMA NodeType ==
    ASSUME TypeOK
    PROVE  /\ Nodes \subseteq DOMAIN home
           /\ DOMAIN home = 1 .. Len(home) /\ Len(home) \in Nat
           /\ DOMAIN home \subseteq Model /\ DOMAIN home \subseteq 1 .. work.models
<1>1. /\ home \in Seq(Model) /\ Len(home) <= work.models
      /\ work.models \in Nat /\ 1 .. work.models \subseteq Model
  BY GraphType DEF TypeOK
<1>2. DOMAIN home = 1 .. Len(home) /\ Len(home) \in Nat
  BY <1>1
<1>3. DOMAIN home \subseteq Model /\ DOMAIN home \subseteq 1 .. work.models
  BY <1>1, <1>2
<1> QED
  BY <1>2, <1>3 DEF Nodes

(* A stage without plans fits.                                              *)
LEMMA NoPlansFit == Fits({})
<1>1. IsFiniteSet({}) /\ Used({}) = 0
  BY UsedStep, FS_EmptySet
<1> QED
  BY <1>1, SearchAssumption DEF Fits

(* The types hold before anything is fused.                                 *)
LEMMA InitType == Init => TypeInv
<1> SUFFICES ASSUME Init PROVE TypeInv
  OBVIOUS
<1>1. <<work, method>> \in Searches
  <2>1. PICK search \in Searches : work = search[1] /\ method = search[2]
    BY DEF Init
  <2>2. search = <<search[1], search[2]>>
    BY SearchAssumption
  <2> QED
    BY <2>1, <2>2
<1>2. work.models \in Nat \ {0}
  BY <1>1, GraphType
<1>3. TypeOK
  BY <1>1, <1>2 DEF Init, TypeOK
<1>4. Forest
  BY DEF Init, Forest
<1>5. AllFit
  BY NoPlansFit DEF Init, AllFit
<1> QED
  BY <1>2, <1>3, <1>4, <1>5 DEF TypeInv, Unfused, Init

(* Steps that plan nothing and fuse nothing.                                *)
LEMMA FitKept ==
    ASSUME Forest, AllFit, UNCHANGED <<work, home, sched>>, group' = group \/ group' = {}
    PROVE  Forest' /\ AllFit'
<1>1. Forest'
  BY SameGraph DEF Forest
<1>2. Fits(group)'
  <2>1. Fits(group')
    BY NoPlansFit DEF AllFit
  <2> QED
    BY <2>1 DEF Fits, Used
<1>3. \A k \in DOMAIN sched : Fits(sched[k])'
  BY DEF AllFit, Fits, Used
<1> QED
  BY <1>1, <1>2, <1>3, SameGraph DEF AllFit, ModelsIn

(* Fusing keeps the types, and the first model of a chain a node.           *)
LEMMA FuseType == Inv /\ TypeInv /\ Fuse => TypeInv'
<1> SUFFICES ASSUME Inv, TypeInv, Fuse PROVE TypeInv'
  OBVIOUS
<1> DEFINE m == Len(home) + 1
           fits == {n \in Nodes : CanFollow(m, n)}
<1>1. PICK n \in IF fits = {} THEN {m} ELSE fits : home' = Append(home, n)
  BY DEF Fuse
<1>2. /\ UNCHANGED <<work, method, stageVars, pickVars>> /\ phase = "fuse"
      /\ phase' = IF m = work.models THEN "round" ELSE "fuse"
  BY DEF Fuse
<1>3. /\ TypeOK /\ Forest /\ Len(home) < work.models /\ group = {} /\ sched = <<>>
  BY <1>2 DEF TypeInv, Unfused, Inv, Shape
<1>4. /\ home \in Seq(Model) /\ Nodes \subseteq Model /\ Len(home) \in Nat
      /\ DOMAIN home = 1 .. Len(home)
      /\ work.models \in Nat \ {0} /\ 1 .. work.models \subseteq Model
  BY <1>3, NodeType, GraphType DEF TypeOK
<1>5. m \in Model /\ m <= work.models
  BY <1>3, <1>4
<1>6. n \in Model /\ (n = m \/ n \in Nodes)
  BY <1>1, <1>4, <1>5
<1> HIDE DEF fits, m
<1>7. /\ home' \in Seq(Model) /\ Len(home') = m /\ DOMAIN home' = DOMAIN home \cup {m}
      /\ home'[m] = n /\ \A x \in DOMAIN home : home'[x] = home[x]
  BY <1>1, <1>4, <1>6 DEF m
<1>8. TypeOK'
  <2>1. Len(home)' <= work'.models
    BY <1>2, <1>5, <1>7
  <2>2. home' \in Seq(Model) /\ phase' \in {"fuse", "round"}
    BY <1>2, <1>7
  <2> QED
    BY <1>2, <1>3, <2>1, <2>2 DEF TypeOK, stageVars, pickVars
<1>9. Unfused'
  BY <1>2, <1>3, <1>4, <1>5, <1>7 DEF Unfused, pickVars, m
<1>10. Forest'
  BY <1>3, <1>6, <1>7 DEF Forest, Nodes
<1>11. AllFit'
  <2>1. group' = {} /\ sched' = <<>>
    BY <1>2, <1>3 DEF stageVars, pickVars
  <2>2. Fits(group')
    BY <2>1, NoPlansFit
  <2>3. Fits(group)'
    BY <2>2 DEF Fits, Used
  <2> QED
    BY <2>1, <2>3 DEF AllFit
<1> QED
  BY <1>8, <1>9, <1>10, <1>11 DEF TypeInv

(* A round that starts keeps the types: nothing is planned yet.             *)
LEMMA RoundType == TypeInv /\ Round => TypeInv'
<1> SUFFICES ASSUME TypeInv, Round PROVE TypeInv'
  OBVIOUS
<1> USE DEF Round, graphVars, stageVars
<1>1. TypeOK'
  BY DEF TypeInv, TypeOK
<1>2. Unfused'
  BY DEF Unfused, TypeInv
<1>3. Forest' /\ AllFit'
  BY FitKept DEF TypeInv
<1> QED
  BY <1>1, <1>2, <1>3 DEF TypeInv

(* A pass makes a level of nodes.                                           *)
LEMMA PassType == TypeInv /\ Pass => TypeInv'
<1> SUFFICES ASSUME TypeInv, Pass PROVE TypeInv'
  OBVIOUS
<1> USE DEF Pass, graphVars, stageVars
<1> DEFINE rest == Nodes \ visited
           open == {n \in rest : ~Finished(n)}
           new == {n \in open : CanEnter(n)}
<1>1. /\ new \subseteq Nodes /\ Nodes \subseteq Model
      /\ visited' = visited \cup new \cup (rest \ open)
      /\ levels' = IF new = {} THEN levels ELSE Append(levels, new)
  BY NodeType DEF TypeInv
<1>2. visited' \subseteq Model
  BY <1>1 DEF TypeInv, TypeOK
<1> HIDE DEF new
<1>3. levels' \in Seq(SUBSET Model) /\ level' \in 0 .. Len(levels') + 1
  <2>1. levels \in Seq(SUBSET Model) /\ level \in 0 .. Len(levels) + 1 /\ level' = level
    BY DEF TypeInv, TypeOK
  <2>2. CASE new = {}
    BY <1>1, <2>1, <2>2
  <2>3. CASE new # {}
    <3>1. new \in SUBSET Model /\ levels' = Append(levels, new)
      BY <1>1, <2>3
    <3>2. levels' \in Seq(SUBSET Model) /\ Len(levels') = Len(levels) + 1 /\ Len(levels) \in Nat
      BY <2>1, <3>1
    <3> QED
      BY <2>1, <3>2
  <2> QED
    BY <2>2, <2>3
<1>4. phase' \in {"aborted", "pick", "levels"}
  OBVIOUS
<1>5. TypeOK'
  BY <1>2, <1>3, <1>4 DEF TypeInv, TypeOK
<1>6. Unfused'
  BY <1>4 DEF Unfused, TypeInv
<1>7. Forest' /\ AllFit'
  BY FitKept DEF TypeInv
<1> QED
  BY <1>5, <1>6, <1>7 DEF TypeInv

(* The candidates of a level are its nodes, in some order.                  *)
LEMMA VisitType == TypeInv /\ Visit /\ Inv' => TypeInv'
<1> SUFFICES ASSUME TypeInv, Visit, Inv' PROVE TypeInv'
  OBVIOUS
<1> USE DEF Visit, graphVars, stageVars
<1>1. cand' \in Seq(Model)
  <2>1. phase' = "pick" /\ cand' \in Seq(Open')
    BY DEF Inv, Candidates
  <2>2. Open' \subseteq Model
    BY SameGraph, NodeType DEF Open, TypeInv
  <2> QED
    BY <2>1, <2>2
<1>2. level' \in 0 .. Len(levels) + 1
  BY DEF TypeInv, TypeOK, IsLastLevel
<1>3. TypeOK'
  BY <1>1, <1>2 DEF TypeInv, TypeOK
<1>4. Unfused'
  BY DEF Unfused, TypeInv
<1>5. Forest' /\ AllFit'
  BY FitKept DEF TypeInv
<1> QED
  BY <1>3, <1>4, <1>5 DEF TypeInv

(* A choice never takes more than the machine has.                          *)
LEMMA OneMoreFits ==
    ASSUME TypeInv, NEW nodes \in SUBSET Open, NEW new \in Outcomes(Options(nodes))
    PROVE  new \subseteq Plan /\ Fits(new)
<1>1. group \subseteq Plan /\ Fits(group)
  BY DEF TypeInv, TypeOK, AllFit
<1>2. ASSUME NEW p \in Options(nodes), new = With(p)
      PROVE  new \subseteq Plan /\ Fits(new)
  <2>1. PICK n \in nodes : p \in Fitting(n)
    BY <1>2 DEF Options
  <2>2. n \in Model /\ n \in 1 .. work.models
    BY NodeType DEF Open, TypeInv
  <2>3. p \in PossiblePlans(n) /\ Gpus(p) <= TotGpu - Used(Others(n))
    BY <2>1 DEF Fitting, MorePlans
  <2>4. /\ p.model = n /\ p.workers \in work.fits[work.name[n]]
        /\ p \in [model : {n}, workers : work.fits[work.name[n]], dp : 1 .. TotGpu]
    BY <2>3 DEF PossiblePlans
  <2>5. p \in Plan /\ Unit % p.workers = 0
    <3>1. \A k \in work.fits[work.name[n]] : k \in 1 .. Unit /\ Unit % k = 0
      BY <2>2, GraphType DEF TypeInv, TypeOK
    <3> QED
      BY <2>2, <2>4, <3>1 DEF Plan
  <2> DEFINE others == Others(n)
  <2>6. new = others \cup {p} /\ p \notin others /\ new \ {p} = others
    BY <1>2, <2>4 DEF With, Others
  <2>7. others \subseteq group /\ \A q \in others : q.model # n
    BY DEF Others
  <2>8. IsFiniteSet(others) /\ IsFiniteSet(new) /\ new \subseteq Plan
    BY <1>1, <2>5, <2>6, <2>7, FS_Subset, FS_AddElement DEF Fits
  <2>9. Used(new) <= TotGpu
    <3>1. Used(new) = Gpus(p) + Used(others)
      <4>1. \A q \in new : Used(new) = Gpus(q) + Used(new \ {q})
        BY <2>8, UsedStep
      <4> QED
        BY <2>6, <4>1
    <3>2. Used(others) \in Nat /\ Gpus(p) \in Nat /\ TotGpu \in Nat
      BY <1>1, <2>5, <2>7, <2>8, UsedStep, GpusType, SearchAssumption
    <3> QED
      BY <2>3, <3>1, <3>2
  <2> HIDE DEF others
  <2>10. \A q \in new : Unit % q.workers = 0
    BY <1>1, <2>5, <2>6, <2>7 DEF Fits
  <2>11. \A q, r \in new : q.model = r.model => q = r
    BY <1>1, <2>4, <2>6, <2>7 DEF Fits
  <2> QED
    BY <2>8, <2>9, <2>10, <2>11 DEF Fits
<1>3. new = group \/ \E p \in Options(nodes) : new = With(p)
  BY DEF Outcomes, Forced, Sure
<1> QED
  BY <1>1, <1>2, <1>3

(* A greedy choice keeps the types, and a stage fits the machine.           *)
LEMMA PickType == Inv /\ TypeInv /\ Pick /\ Inv' => TypeInv'
<1> SUFFICES ASSUME Inv, TypeInv, Pick, Inv' PROVE TypeInv'
  OBVIOUS
<1> USE DEF graphVars, stageVars
<1> DEFINE tried == IF cand = <<>> THEN tot ELSE Append(tot, Head(cand))
<1>1. /\ UNCHANGED <<work, method, home, fin, sched, spent, checked, visited, levels, level>>
      /\ phase = "pick" /\ phase' \in {"pick", "stage"}
      /\ group' \in Outcomes(Options(ToSet(tried)))
  BY DEF Pick
<1>2. cand \in Seq(Open) /\ tot \in Seq(Open) /\ cand' \in Seq(Open') /\ tot' \in Seq(Open')
  BY <1>1 DEF Inv, Candidates
<1>3. tried \in Seq(Open)
  BY <1>2
<1>4. ToSet(tried) \in SUBSET Open
  <2> HIDE DEF tried
  <2> QED
    BY <1>3 DEF ToSet
<1> HIDE DEF tried
<1>5. group' \subseteq Plan /\ Fits(group')
  BY <1>1, <1>4, OneMoreFits
<1>6. cand' \in Seq(Model) /\ tot' \in Seq(Model)
  <2>1. Open' \subseteq Model
    BY <1>1, SameGraph, NodeType DEF Open, TypeInv
  <2> QED
    BY <1>2, <2>1
<1>7. TypeOK'
  BY <1>1, <1>5, <1>6 DEF TypeInv, TypeOK
<1>8. Unfused'
  BY <1>1 DEF Unfused, TypeInv
<1>9. Forest'
  BY <1>1, SameGraph DEF TypeInv, Forest
<1>10. AllFit'
  <2>1. Fits(group)'
    BY <1>5 DEF Fits, Used
  <2>2. \A k \in DOMAIN sched : Fits(sched[k])'
    BY <1>1 DEF TypeInv, AllFit, Fits, Used
  <2> QED
    BY <1>1, <2>1, <2>2, SameGraph DEF TypeInv, AllFit, ModelsIn
<1> QED
  BY <1>7, <1>8, <1>9, <1>10 DEF TypeInv

(* What a stage adds to the schedule, finishes and orders are plans and     *)
(* models.                                                                  *)
LEMMA StageType == Inv /\ TypeInv /\ Stage => TypeInv'
<1> SUFFICES ASSUME Inv, TypeInv, Stage PROVE TypeInv'
  OBVIOUS
<1> USE DEF graphVars
<1>1. PICK more \in StageEnds :
          /\ fin' = fin \cup more
          /\ phase' = IF StatesAccurate(fin \cup more) THEN "round" ELSE "aborted"
          /\ \E new \in SUBSET NewlySpent(fin \cup more) : spent' = spent \cup new
  BY DEF Stage
<1>2. /\ UNCHANGED <<work, method, home, visited, levels, level, cand, tot, group>>
      /\ phase = "stage" /\ sched' = Append(sched, group) /\ checked' = GiveOrder(checked, tot)
  BY DEF Stage, pickVars
<1>3. TypeOK /\ Forest /\ AllFit
  BY DEF TypeInv
<1>4. phase' \in {"round", "aborted"}
  BY <1>1
<1>5. more \subseteq Model
  <2>1. more \subseteq UNION {Bases(n) : n \in ModelsIn(group)}
    BY DEF StageEnds
  <2> QED
    BY <1>3, <2>1, NodeType DEF Bases
<1>6. checked' \in Seq(Model)
  BY <1>2, <1>3, OrderType DEF TypeOK
<1>7. /\ sched \in Seq(SUBSET Plan) /\ group \in SUBSET Plan /\ sched' \in Seq(SUBSET Plan)
      /\ DOMAIN sched = 1 .. Len(sched) /\ DOMAIN sched' = DOMAIN sched \cup {Len(sched) + 1}
      /\ \A k \in DOMAIN sched : sched'[k] = sched[k]
      /\ sched'[Len(sched) + 1] = group
  BY <1>2, <1>3 DEF TypeOK
<1>8. TypeOK'
  <2>1. spent' \subseteq Model \X Model
    <3>1. ModelsIn(group) \subseteq Model
      BY <1>7 DEF ModelsIn, Plan
    <3>2. PICK new \in SUBSET NewlySpent(fin \cup more) : spent' = spent \cup new
      BY <1>1
    <3> QED
      BY <1>3, <3>1, <3>2 DEF NewlySpent, TypeOK
  <2> QED
    BY <1>1, <1>2, <1>3, <1>4, <1>5, <1>6, <1>7, <2>1 DEF TypeOK
<1>9. Unfused'
  BY <1>2, <1>4 DEF Unfused, TypeInv
<1>10. Forest'
  BY <1>2, <1>3, SameGraph DEF Forest
<1>11. AllFit'
  <2>1. Fits(group) /\ \A k \in DOMAIN sched : Fits(sched[k]) /\ ModelsIn(sched[k]) \subseteq Nodes
    BY <1>3 DEF AllFit
  <2>2. ModelsIn(group) \subseteq Nodes
    BY <1>2 DEF Inv, Candidates, Open
  <2>3. \A k \in DOMAIN sched' : Fits(sched'[k]) /\ ModelsIn(sched'[k]) \subseteq Nodes
    BY <1>7, <2>1, <2>2
  <2>4. Fits(group)' /\ \A k \in DOMAIN sched' : Fits(sched[k])'
    BY <1>2, <2>1, <2>3 DEF Fits, Used
  <2>5. \A k \in DOMAIN sched' : ModelsIn(sched[k])' \subseteq Nodes'
    BY <1>2, <2>3, SameGraph DEF ModelsIn
  <2> QED
    BY <2>4, <2>5 DEF AllFit
<1> QED
  BY <1>8, <1>9, <1>10, <1>11 DEF TypeInv

(* Giving up on a stage without plans keeps the types.                      *)
LEMMA NoStageType == TypeInv /\ NoStage => TypeInv'
<1> SUFFICES ASSUME TypeInv, NoStage PROVE TypeInv'
  OBVIOUS
<1>1. /\ UNCHANGED <<work, method, home, fin, sched, spent, checked, visited, levels, level,
                     cand, tot, group>>
      /\ phase = "stage" /\ phase' = "aborted"
  BY DEF NoStage, graphVars, stageVars, pickVars
<1>2. Forest' /\ AllFit'
  BY <1>1, FitKept DEF TypeInv
<1>3. TypeOK' /\ Unfused'
  BY <1>1 DEF TypeInv, TypeOK, Unfused
<1> QED
  BY <1>2, <1>3 DEF TypeInv

(* The second inductive invariant: types, and what a stage may take of the  *)
(* machine.                                                                 *)
THEOREM Typing == Spec => []TypeInv
<1>1. Inv /\ TypeInv /\ [Next]_vars /\ Inv' => TypeInv'
  <2> SUFFICES ASSUME Inv, TypeInv, [Next]_vars, Inv' PROVE TypeInv'
    OBVIOUS
  <2>1. CASE UNCHANGED vars
    <3>1. UNCHANGED <<work, method, home, phase, fin, sched, spent, checked, visited, levels,
                      level, cand, tot, group>>
      BY <2>1 DEF vars, graphVars, stageVars, pickVars
    <3>2. Forest' /\ AllFit'
      BY <3>1, FitKept DEF TypeInv
    <3>3. TypeOK' /\ Unfused'
      BY <3>1 DEF TypeInv, TypeOK, Unfused
    <3> QED
      BY <3>2, <3>3 DEF TypeInv
  <2> QED
    BY <2>1, FuseType, RoundType, PassType, VisitType, PickType, StageType, NoStageType DEF Next
<1> QED
  BY <1>1, InitType, Invariance, PTL DEF Spec

----------------------------------------------------------------------------
(* The stages of a schedule as the scheduler reads them.                    *)
LEMMA StageOf ==
    ASSUME TypeInv, NEW i \in DOMAIN sched
    PROVE  /\ i \in DOMAIN Stages /\ Stages[i] \in Seq(Plan)
           /\ \A j \in DOMAIN Stages[i] : Stages[i][j] \in sched[i]
           /\ \A j, k \in DOMAIN Stages[i] : Stages[i][j] = Stages[i][k] => j = k
           /\ \A p \in sched[i] : \E j \in DOMAIN Stages[i] : Stages[i][j] = p
<1>1. IsFiniteSet(sched[i]) /\ sched[i] \subseteq Plan
  BY DEF TypeInv, TypeOK, AllFit, Fits
<1>2. Stages[i] = SetToSeq(sched[i]) /\ i \in DOMAIN Stages
  BY DEF Stages
<1> HIDE DEF Stages
<1>3. /\ Stages[i] \in [1 .. Cardinality(sched[i]) -> sched[i]] /\ Cardinality(sched[i]) \in Nat
      /\ \A j, k \in 1 .. Cardinality(sched[i]) : Stages[i][j] = Stages[i][k] => j = k
      /\ \A p \in sched[i] : \E j \in 1 .. Cardinality(sched[i]) : Stages[i][j] = p
  BY <1>1, <1>2, InSequence
<1>4. Stages[i] \in [1 .. Cardinality(sched[i]) -> Plan]
  BY <1>1, <1>3
<1>5. Stages[i] \in Seq(Plan)
  BY <1>3, <1>4
<1> QED
  BY <1>2, <1>3, <1>5

(* A stage has a plan for a node where the search planned it, and one at    *)
(* most.                                                                    *)
LEMMA PlanOf ==
    ASSUME TypeInv, NEW i \in DOMAIN sched, NEW m
    PROVE  /\ Plans(Stages, i, m) # {} <=> i \in PlannedIn(m)
           /\ Cardinality(Plans(Stages, i, m)) <= 1
<1> HIDE DEF Stages
<1>1. Plans(Stages, i, m) # {} <=> i \in PlannedIn(m)
  BY StageOf DEF Plans, PlannedIn, ModelsIn
<1>2. \A j, k \in Plans(Stages, i, m) : j = k
  BY StageOf DEF Plans, TypeInv, AllFit, Fits
<1>3. Cardinality(Plans(Stages, i, m)) <= 1
  <2>1. CASE Plans(Stages, i, m) = {}
    <3>1. Cardinality(Plans(Stages, i, m)) = 0
      BY <2>1, FS_EmptySet
    <3> QED
      BY <3>1
  <2>2. CASE Plans(Stages, i, m) # {}
    <3>1. PICK j : Plans(Stages, i, m) = {j}
      BY <1>2, <2>2
    <3>2. Cardinality(Plans(Stages, i, m)) = 1
      BY <3>1, FS_Singleton
    <3> QED
      BY <3>2
  <2> QED
    BY <2>1, <2>2
<1> QED
  BY <1>1, <1>3

(* The inputs of a node are nodes.                                          *)
LEMMA InputsAreNodes ==
    ASSUME TypeInv, NEW m \in Nodes, NEW n \in NodeInputs(m)
    PROVE  n \in Nodes
<1>1. PICK b \in Bases(m) : \E s \in work.srcs[b] : n = home[s]
  BY DEF NodeInputs
<1>2. TypeOK /\ Forest
  BY DEF TypeInv
<1>3. PICK s \in work.srcs[b] : n = home[s]
  BY <1>1
<1>4. b \in DOMAIN home /\ b \in 1 .. work.models
  BY <1>2, NodeType DEF Bases
<1>5. s \in 1 .. b - 1
  BY <1>3, <1>2, <1>4, GraphType DEF TypeOK
<1>6. s \in DOMAIN home
  BY <1>2, <1>4, <1>5, NodeType
<1> QED
  BY <1>2, <1>6, <1>3 DEF Forest

(* The last stage of a model is the last in which it is planned.            *)
LEMMA LastOf ==
    ASSUME TypeInv, NEW m, PlannedIn(m) # {}
    PROVE  /\ LastStage(Stages, m) \in PlannedIn(m)
           /\ \A k \in PlannedIn(m) : k <= LastStage(Stages, m)
<1>1. DOMAIN Stages = DOMAIN sched
  BY DEF Stages
<1> HIDE DEF Stages
<1>2. {i \in DOMAIN Stages : Plans(Stages, i, m) # {}} = PlannedIn(m)
  BY <1>1, PlanOf DEF PlannedIn
<1>3. Len(sched) \in Nat /\ PlannedIn(m) \subseteq 0 .. Len(sched)
  <2>1. sched \in Seq(SUBSET Plan)
    BY DEF TypeInv, TypeOK
  <2>2. Len(sched) \in Nat /\ DOMAIN sched = 1 .. Len(sched)
    BY <2>1
  <2> QED
    BY <2>2 DEF PlannedIn
<1>4. LastStage(Stages, m) = Max(PlannedIn(m))
  BY <1>2 DEF LastStage
<1> HIDE DEF PlannedIn
<1> QED
  BY <1>3, <1>4, MaxOf

(* A finished schedule is what the stage scheduler takes for granted.       *)
LEMMA SchedulesFeed == TypeInv /\ InOrder => FeedsTheScheduler
<1> DEFINE inputs == [n \in Model |-> IF n \in Nodes THEN NodeInputs(n) ELSE {}]
<1> SUFFICES ASSUME TypeInv, InOrder, phase = "done"
             PROVE  WellFormed(Stages, inputs) /\ Planned(Stages) = Nodes
  BY DEF FeedsTheScheduler
<1>1. Nodes \subseteq Model
  BY NodeType DEF TypeInv
<1>2. /\ sched \in Seq(SUBSET Plan) /\ DOMAIN sched = 1 .. Len(sched) /\ Len(sched) \in Nat
      /\ \A i \in DOMAIN sched : Fits(sched[i]) /\ ModelsIn(sched[i]) \subseteq Nodes
  BY DEF TypeInv, TypeOK, AllFit
<1>3. DOMAIN Stages = DOMAIN sched
  BY DEF Stages
<1>4. \A m \in Nodes :
         /\ PlannedIn(m) # {}
         /\ \A i \in NodeInputs(m) :
               /\ \A k \in PlannedIn(m) \ PlannedIn(i) : \A j \in PlannedIn(i) : j < k
               /\ \A j \in PlannedIn(i) : \E k \in PlannedIn(m) : j <= k
  BY DEF InOrder
<1>5. \A i \in DOMAIN sched :
         MapThenSumSet(LAMBDA j : Gpus(Stages[i][j]), DOMAIN Stages[i]) <= TotGpu
  <2> SUFFICES ASSUME NEW i \in DOMAIN sched
               PROVE  MapThenSumSet(LAMBDA j : Gpus(Stages[i][j]), DOMAIN Stages[i]) <= TotGpu
    OBVIOUS
  <2>1. IsFiniteSet(sched[i]) /\ sched[i] \subseteq Plan /\ Used(sched[i]) <= TotGpu
    BY <1>2 DEF Fits
  <2>2. Stages[i] = SetToSeq(sched[i])
    BY DEF Stages
  <2> HIDE DEF Stages
  <2>3. MapThenSumSet(LAMBDA j : Gpus(Stages[i][j]), DOMAIN Stages[i]) = Used(sched[i])
    BY <2>1, <2>2, SameSum
  <2> QED
    BY <2>1, <2>3
<1>6. Stages \in Seq(Seq(Plan))
  <2>1. Stages = [i \in 1 .. Len(sched) |-> Stages[i]]
    BY <1>2 DEF Stages
  <2> HIDE DEF Stages
  <2>2. \A i \in 1 .. Len(sched) : Stages[i] \in Seq(Plan)
    BY <1>2, StageOf
  <2>3. Stages \in [1 .. Len(sched) -> Seq(Plan)]
    BY <2>1, <2>2
  <2> QED
    BY <1>2, <2>3
<1> HIDE DEF Stages
<1>7. \A i \in DOMAIN sched : /\ \A m \in Model : Cardinality(Plans(Stages, i, m)) <= 1
                              /\ \A j \in DOMAIN Stages[i] : Unit % Stages[i][j].workers = 0
  BY <1>2, PlanOf, StageOf DEF Fits
<1>8. Planned(Stages) = Nodes
  <2>1. \A m \in Model : m \in Planned(Stages) <=> PlannedIn(m) # {}
    BY <1>3, PlanOf DEF Planned, PlannedIn
  <2>2. \A m : PlannedIn(m) # {} => m \in Nodes
    BY <1>2 DEF PlannedIn
  <2>3. Planned(Stages) \subseteq Model
    BY DEF Planned
  <2> QED
    BY <1>1, <1>4, <2>1, <2>2, <2>3
<1>9. ASSUME NEW m \in Nodes, NEW n \in inputs[m]
      PROVE  n \in Nodes /\ InTime(Stages, n, m)
  <2>1. n \in NodeInputs(m) /\ n \in Nodes
    BY <1>1, <1>9, InputsAreNodes
  <2>2. PlannedIn(m) # {} /\ PlannedIn(n) # {}
    BY <1>4, <2>1
  <2>3. PlannedIn(m) \subseteq DOMAIN sched /\ PlannedIn(n) \subseteq DOMAIN sched
    BY DEF PlannedIn
  <2> DEFINE lastm == LastStage(Stages, m)
             lastn == LastStage(Stages, n)
  <2>4. /\ lastm \in PlannedIn(m) /\ \A k \in PlannedIn(m) : k <= lastm
        /\ lastn \in PlannedIn(n) /\ \A k \in PlannedIn(n) : k <= lastn
    BY <2>2, LastOf
  <2> HIDE DEF lastm, lastn
  <2>5. lastn <= lastm
    <3>1. PICK k \in PlannedIn(m) : lastn <= k
      BY <1>4, <2>1, <2>4
    <3>2. k <= lastm /\ k \in Nat /\ lastn \in Nat /\ lastm \in Nat
      BY <1>2, <2>3, <2>4
    <3> QED
      BY <3>1, <3>2
  <2>6. \A k \in 1 .. lastn : k \in PlannedIn(m) => k \in PlannedIn(n)
    <3> SUFFICES ASSUME NEW k \in 1 .. lastn, k \in PlannedIn(m), k \notin PlannedIn(n)
                 PROVE  FALSE
      OBVIOUS
    <3>1. lastn < k
      BY <1>4, <2>1, <2>4
    <3>2. lastn \in Nat
      BY <1>2, <2>3, <2>4
    <3> QED
      BY <3>1, <3>2
  <2>7. \A k \in 1 .. lastn : Plans(Stages, k, m) # {} => Plans(Stages, k, n) # {}
    <3>1. lastn \in DOMAIN sched
      BY <2>3, <2>4
    <3>2. 1 .. lastn \subseteq DOMAIN sched
      BY <1>2, <3>1
    <3> QED
      BY <2>6, <3>2, PlanOf
  <2> QED
    BY <2>1, <2>5, <2>7 DEF InTime, lastm, lastn
<1> HIDE DEF inputs
<1>10. Stages # <<>>
  <2>1. home # <<>> /\ DOMAIN home = 1 .. Len(home) /\ Len(home) \in Nat /\ TypeOK
    BY NodeType DEF TypeInv, Unfused
  <2>2. 1 \in DOMAIN home
    BY <2>1 DEF TypeOK
  <2>3. Planned(Stages) # {}
    BY <1>8, <2>2 DEF TypeInv, Forest
  <2>4. DOMAIN Stages # {}
    BY <2>3 DEF Planned
  <2> QED
    BY <2>4
<1>11. WellFormed(Stages, inputs)
  BY <1>3, <1>5, <1>6, <1>7, <1>8, <1>9, <1>10 DEF WellFormed, Plan
<1> QED
  BY <1>8, <1>11

(* Every schedule is well formed: it fits the machine, and plans every      *)
(* model once in a stage and in time for its sources                        *)
(* (schedule_multi_model.py starts the stages of search_exec_plans.py       *)
(* without testing this).                                                   *)
THEOREM GoodSchedules == Spec => []FeedsTheScheduler
  BY Typing, SourcesInTime, SchedulesFeed, PTL
(* The variables of the search keep their types.                            *)
THEOREM SearchTypes == Spec => []TypeOK
<1>1. TypeInv => TypeOK
  BY DEF TypeInv
<1> QED
  BY <1>1, Typing, PTL

----------------------------------------------------------------------------
(* The third invariant: the levels, and in which order they are tried.      *)
Tried == ToSet(tot) \cup LastTried
NothingMore == IF method.random THEN Options(Tried) = {} ELSE Sure(Options(Tried)) = {}

OnLevel(n) == \E i \in DOMAIN levels : n \in levels[i]
Apart == \A i, j \in DOMAIN levels : i # j => levels[i] \cap levels[j] = {}
Deeper ==
    \A i \in DOMAIN levels : \A n \in levels[i] : ~work.indep[n] =>
        \A x \in NodeInputs(n) : Finished(x) \/ \E j \in DOMAIN levels : j < i /\ x \in levels[j]
Leveled == \A n \in Open : n \in visited <=> OnLevel(n)
LevelInv ==
    phase \in {"levels", "pick", "stage"} =>
        /\ Apart /\ Deeper /\ Leveled
        /\ phase # "levels" => Open \subseteq visited
        /\ phase = "levels" => level = 0 /\ cand = <<>> /\ tot = <<>> /\ group = {}

(* The candidates of a level are tried in turn, those that run first.       *)
Lower == \A i \in DOMAIN levels : i < level => levels[i] \subseteq ToSet(tot)
Here == level \in DOMAIN levels => levels[level] \subseteq ToSet(tot) \cup ToSet(cand)
FromHere == cand # <<>> => level \in DOMAIN levels /\ ToSet(cand) \subseteq levels[level]
NotAbove == \A n \in ToSet(tot) : \E i \in DOMAIN levels : i <= level /\ n \in levels[i]
Untried ==
    /\ \A i, j \in DOMAIN cand : cand[i] = cand[j] => i = j
    /\ ToSet(cand) \cap ToSet(tot) = {}
RunningFirst ==
    /\ \A i, j \in DOMAIN cand : i < j /\ Running(cand[j]) => Running(cand[i])
    /\ cand # <<>> =>
          \A n \in ToSet(tot) \cap levels[level] : \A j \in DOMAIN cand :
              Running(cand[j]) => Running(n)
TurnInv ==
    phase \in {"pick", "stage"} =>
        /\ ModelsIn(group) = ToSet(tot)
        /\ Lower /\ Here /\ FromHere /\ NotAbove /\ Untried /\ RunningFirst
        /\ phase = "stage" => (cand # <<>> \/ IsLastLevel) /\ NothingMore

(* Without preemption a running model has the plan it had.                  *)
KeptInv ==
    /\ \A p \in group : p \in PossiblePlans(p.model)
    /\ \A k \in DOMAIN sched : \A p \in sched[k] : p \in PossiblePlans(p.model)
    /\ phase \in {"levels", "pick", "stage"} /\ method.noPreemption =>
          \A p \in group : Running(p.model) => p \in LastPlans

OrderInv == LevelInv /\ TurnInv /\ KeptInv

(* A larger plan, or the first of a node, takes more GPUs.                  *)
LEMMA Taken ==
    ASSUME TypeInv, NEW nodes \in SUBSET Open, NEW p \in Options(nodes)
    PROVE  /\ p.model \in nodes /\ Runnable(p.model) /\ p \in PossiblePlans(p.model)
           /\ method.noPreemption /\ Running(p.model) => p \in LastPlans
           /\ ModelsIn(With(p)) = ModelsIn(group) \cup {p.model}
           /\ Used(With(p)) > Used(group)
           /\ IF p.model \in ModelsIn(group)
              THEN Cardinality(With(p)) = Cardinality(group)
              ELSE Cardinality(With(p)) = Cardinality(group) + 1
           /\ Cardinality(group) \in Nat
<1>1. PICK n \in nodes : Runnable(n) /\ p \in Fitting(n)
  BY DEF Options
<1>2. p \in MorePlans(n)
  BY <1>1 DEF Fitting
<1>3. /\ p \in PossiblePlans(n) /\ Gpus(p) > Used(group) - Used(Others(n))
      /\ method.noPreemption /\ Running(n) => p \in LastPlans
  BY <1>2 DEF MorePlans
<1>4. p.model = n
  BY <1>3 DEF PossiblePlans
<1>5. group \subseteq Plan /\ IsFiniteSet(group) /\ \A q, r \in group : q.model = r.model => q = r
  BY DEF TypeInv, TypeOK, AllFit, Fits
<1> DEFINE others == Others(n)
           new == With(p)
<1>6. /\ new = others \cup {p} /\ p \notin others /\ others \subseteq group
      /\ \A q \in group : q \in others <=> q.model # n
  BY <1>4 DEF With, Others
<1>7. p \in Plan
  <2>1. n \in Model /\ n \in 1 .. work.models
    BY NodeType DEF Open, TypeInv
  <2>2. \A k \in work.fits[work.name[n]] : k \in 1 .. Unit /\ Unit % k = 0
    BY <2>1, GraphType DEF TypeInv, TypeOK
  <2> QED
    BY <1>3, <2>1, <2>2 DEF PossiblePlans, Plan
<1> HIDE DEF others, new
<1>8. IsFiniteSet(others) /\ IsFiniteSet(new) /\ others \subseteq Plan /\ new \subseteq Plan
  BY <1>5, <1>6, <1>7, FS_Subset, FS_AddElement
<1>9. ModelsIn(new) = ModelsIn(group) \cup {n}
  BY <1>4, <1>6 DEF ModelsIn
<1>10. Used(new) > Used(group)
  <2>1. Used(new) = Gpus(p) + Used(new \ {p}) /\ new \ {p} = others
    BY <1>6, <1>8, UsedStep
  <2>2. Used(others) \in Nat /\ Used(group) \in Nat /\ Gpus(p) \in Nat
    BY <1>5, <1>7, <1>8, UsedStep, GpusType
  <2>3. Gpus(p) > Used(group) - Used(others)
    BY <1>3 DEF others
  <2>4. Used(new) = Gpus(p) + Used(others)
    BY <2>1
  <2> QED
    BY <2>2, <2>3, <2>4
<1>11. Cardinality(group) \in Nat
  BY <1>5, FS_CardinalityType
<1>12. Cardinality(new) = Cardinality(others) + 1
  BY <1>6, <1>8, FS_AddElement
<1>13. CASE n \in ModelsIn(group)
  <2>1. PICK q \in group : q.model = n
    BY <1>13 DEF ModelsIn
  <2>2. others = group \ {q}
    BY <1>5, <1>6, <2>1
  <2>3. Cardinality(others) = Cardinality(group) - 1
    BY <1>5, <2>1, <2>2, FS_RemoveElement
  <2> QED
    BY <1>1, <1>3, <1>4, <1>9, <1>10, <1>11, <1>12, <1>13, <2>3 DEF new
<1>14. CASE n \notin ModelsIn(group)
  <2>1. others = group
    BY <1>6, <1>14 DEF ModelsIn
  <2> QED
    BY <1>1, <1>3, <1>4, <1>9, <1>10, <1>11, <1>12, <1>14, <2>1 DEF new
<1> QED
  BY <1>13, <1>14

(* A round that leaves the GPUs as they are had nothing to take.            *)
LEMMA Untaken ==
    ASSUME TypeInv, NEW nodes \in SUBSET Open, NEW new \in Outcomes(Options(nodes)),
           Used(new) = Used(group)
    PROVE  /\ new = group
           /\ IF method.random THEN Options(nodes) = {} ELSE Sure(Options(nodes)) = {}
<1>1. Used(group) \in Nat
  BY UsedStep DEF TypeInv, TypeOK, AllFit, Fits
<1>2. \A p \in Options(nodes) : With(p) # new
  <2> SUFFICES ASSUME NEW p \in Options(nodes), With(p) = new PROVE FALSE
    OBVIOUS
  <2>1. Used(With(p)) > Used(group)
    BY Taken
  <2> QED
    BY <1>1, <2>1
<1> HIDE DEF Options
<1> QED
  BY <1>2 DEF Outcomes, Forced, Sure

(* Before anything is fused there is nothing in any order.                  *)
LEMMA InitOrder == Init => OrderInv
  BY DEF Init, OrderInv, LevelInv, TurnInv, KeptInv

(* The plans a node may have are a matter of the graph.                     *)
LEMMA SamePossible ==
    ASSUME UNCHANGED work
    PROVE  \A n : PossiblePlans(n)' = PossiblePlans(n)
  BY DEF PossiblePlans

(* The last stage stays the same until a stage is added.                    *)
LEMMA SameLast ==
    ASSUME UNCHANGED sched
    PROVE  LastPlans' = LastPlans /\ \A n : Running(n)' = Running(n)
  BY DEF LastPlans, Running, ModelsIn

(* The levels of what is not finished stay in order.                        *)
LEMMA SameLevels ==
    ASSUME UNCHANGED <<work, home, fin, levels>>
    PROVE  Apart' = Apart /\ Deeper' = Deeper /\ \A n : OnLevel(n)' = OnLevel(n)
  BY SameGraph, SameProgress DEF Apart, Deeper, OnLevel

(* A step that chooses no plan keeps the plans as they were.                *)
LEMMA KeptKept ==
    ASSUME KeptInv, UNCHANGED <<work, method, sched>>, group' = group \/ group' = {},
           phase \in {"levels", "pick", "stage"} \/ group' = {}
    PROVE  KeptInv'
<1>1. \A p \in group' : p \in PossiblePlans(p.model)'
  BY SamePossible DEF KeptInv
<1>2. \A k \in DOMAIN sched' : \A p \in sched'[k] : p \in PossiblePlans(p.model)'
  BY SamePossible DEF KeptInv
<1>3. method'.noPreemption /\ phase' \in {"levels", "pick", "stage"} =>
         \A p \in group' : Running(p.model)' => p \in LastPlans'
  BY SameLast DEF KeptInv
<1> QED
  BY <1>1, <1>2, <1>3 DEF KeptInv

(* Fusing starts no level.                                                  *)
LEMMA FuseOrder == Inv /\ TypeInv /\ OrderInv /\ Fuse => OrderInv'
<1> SUFFICES ASSUME Inv, TypeInv, OrderInv, Fuse PROVE OrderInv'
  OBVIOUS
<1>1. phase' \in {"fuse", "round"} /\ UNCHANGED <<work, method, sched, group>> /\ group = {}
  BY DEF Fuse, stageVars, pickVars, TypeInv, Unfused
<1>2. LevelInv' /\ TurnInv'
  BY <1>1 DEF LevelInv, TurnInv
<1>3. KeptInv'
  BY <1>1, KeptKept DEF OrderInv
<1> QED
  BY <1>2, <1>3 DEF OrderInv

(* A round starts without levels and plans.                                 *)
LEMMA RoundOrder == OrderInv /\ Round => OrderInv'
<1> SUFFICES ASSUME OrderInv, Round PROVE OrderInv'
  OBVIOUS
<1> USE DEF Round, graphVars, stageVars
<1>1. LevelInv'
  BY DEF LevelInv, Apart, Deeper, Leveled, OnLevel
<1>2. TurnInv'
  BY DEF TurnInv
<1>3. KeptInv'
  BY KeptKept DEF OrderInv
<1> QED
  BY <1>1, <1>2, <1>3 DEF OrderInv

(* A pass adds a level of nodes whose sources are finished or on the levels *)
(* before it; with independent sources, of one of them.                     *)
LEMMA PassOrder == Inv /\ TypeInv /\ OrderInv /\ Pass => OrderInv'
<1> SUFFICES ASSUME Inv, TypeInv, OrderInv, Pass PROVE OrderInv'
  OBVIOUS
<1> USE DEF graphVars, stageVars
<1> DEFINE rest == Nodes \ visited
           open == {n \in rest : ~Finished(n)}
           new == {n \in open : CanEnter(n)}
<1>1. /\ UNCHANGED <<work, home, method, fin, sched, level, cand, tot, group>> /\ phase = "levels"
      /\ visited' = visited \cup new \cup (rest \ open)
      /\ levels' = IF new = {} THEN levels ELSE Append(levels, new)
      /\ phase' \in {"aborted", "pick", "levels"}
      /\ phase' = "pick" => rest = new \cup (rest \ open)
  BY DEF Pass
<1>2. /\ Apart /\ Deeper /\ Leveled
      /\ level = 0 /\ cand = <<>> /\ tot = <<>> /\ group = {}
  BY <1>1 DEF OrderInv, LevelInv
<1>3. levels \in Seq(SUBSET Open)
  BY <1>1 DEF Inv, Candidates
<1>4. /\ new \subseteq Open /\ new \cap visited = {}
      /\ \A n \in Open : n \in visited' <=> n \in visited \/ n \in new
  BY <1>1 DEF Open
<1>5. \A n \in new : ~work.indep[n] => NodeInputs(n) \subseteq visited
  BY DEF CanEnter
<1> DEFINE last == Len(levels) + 1
<1> HIDE DEF new
<1>6. \/ new = {} /\ levels' = levels
      \/ /\ DOMAIN levels' = DOMAIN levels \cup {last} /\ levels'[last] = new
         /\ \A i \in DOMAIN levels : levels'[i] = levels[i] /\ i < last
         /\ last \notin DOMAIN levels
  <2>1. CASE new = {}
    BY <1>1, <2>1
  <2>2. CASE new # {}
    <3>1. levels' = Append(levels, new) /\ new \in SUBSET Open
      BY <1>1, <1>4, <2>2
    <3> QED
      BY <1>3, <3>1
  <2> QED
    BY <2>1, <2>2
<1>7. \A i \in DOMAIN levels : levels[i] \subseteq visited
  BY <1>2, <1>3 DEF Leveled, OnLevel
<1>8. Apart'
  BY <1>2, <1>4, <1>6, <1>7 DEF Apart
<1>9. \A n : OnLevel(n)' <=> OnLevel(n) \/ n \in new
  BY <1>6 DEF OnLevel
<1>10. Leveled'
  BY <1>1, <1>2, <1>4, <1>9, SameProgress DEF Leveled
<1>11. Deeper'
  <2> SUFFICES ASSUME NEW i \in DOMAIN levels', NEW n \in levels'[i], ~work.indep[n],
                      NEW x \in NodeInputs(n), ~Finished(x)
               PROVE  \E j \in DOMAIN levels' : j < i /\ x \in levels'[j]
    BY <1>1, SameGraph, SameProgress DEF Deeper
  <2>1. CASE i \in DOMAIN levels /\ n \in levels[i]
    <3>1. \E j \in DOMAIN levels : j < i /\ x \in levels[j]
      BY <1>2, <2>1 DEF Deeper
    <3> QED
      BY <1>6, <3>1
  <2>2. CASE i = last /\ n \in new /\ i \in DOMAIN levels'
    <3>1. x \in visited
      BY <1>5, <2>2
    <3>2. x \in Open
      BY <1>4, <2>2, InputsAreNodes DEF Open
    <3>3. \E j \in DOMAIN levels : x \in levels[j]
      BY <1>2, <3>1, <3>2 DEF Leveled, OnLevel
    <3> QED
      BY <1>6, <2>2, <3>3
  <2> QED
    BY <1>6, <2>1, <2>2
<1>12. phase' # "levels" => phase' = "aborted" \/ Open' \subseteq visited'
  <2> SUFFICES ASSUME phase' = "pick", NEW n \in Open PROVE n \in visited'
    BY <1>1, SameProgress
  <2> QED
    BY <1>1 DEF Open
<1>13. LevelInv'
  BY <1>1, <1>2, <1>8, <1>10, <1>11, <1>12 DEF LevelInv
<1>14. TurnInv'
  <2>1. ModelsIn(group)' = ToSet(tot)'
    BY <1>1, <1>2 DEF ModelsIn, ToSet
  <2>2. Lower' /\ Here' /\ FromHere'
    <3>1. level' = 0 /\ cand' = <<>> /\ DOMAIN levels' \subseteq Nat \ {0}
      BY <1>1, <1>2, <1>3, <1>6
    <3> QED
      BY <3>1 DEF Lower, Here, FromHere
  <2>3. NotAbove' /\ Untried' /\ RunningFirst'
    BY <1>1, <1>2 DEF NotAbove, Untried, RunningFirst, ToSet
  <2> QED
    BY <1>1, <2>1, <2>2, <2>3 DEF TurnInv
<1>15. KeptInv'
  BY <1>1, KeptKept DEF OrderInv
<1> QED
  BY <1>13, <1>14, <1>15 DEF OrderInv

(* An injective sequence of all elements of a set has each of them.         *)
LEMMA Arranged ==
    ASSUME NEW S, IsFiniteSet(S), NEW f \in SetToSeqs(S)
    PROVE  /\ DOMAIN f = 1 .. Cardinality(S) /\ Cardinality(S) \in Nat /\ ToSet(f) = S
           /\ \A i, j \in DOMAIN f : f[i] = f[j] => i = j
<1>1. /\ f \in [1 .. Cardinality(S) -> S] /\ Cardinality(S) \in Nat
      /\ \A i, j \in DOMAIN f : f[i] = f[j] => i = j
  BY FS_CardinalityType DEF SetToSeqs, IsInjective
<1>2. f \in Injection(1 .. Cardinality(S), S)
  BY <1>1 DEF Injection, IsInjective
<1>3. f \in Surjection(1 .. Cardinality(S), S)
  BY <1>1, <1>2, FS_Interval, FS_Injection
<1> QED
  BY <1>1, <1>3 DEF Surjection, ToSet

(* Going on to the next level, everything of the levels before it is        *)
(* planned, and its candidates are all still to be tried.                   *)
LEMMA VisitOrder == Inv /\ TypeInv /\ OrderInv /\ Visit => OrderInv'
<1> SUFFICES ASSUME Inv, TypeInv, OrderInv, Visit PROVE OrderInv'
  OBVIOUS
<1> USE DEF graphVars, stageVars
<1>1. /\ UNCHANGED <<work, home, method, fin, sched, visited, levels, tot, group>>
      /\ phase = "pick" /\ phase' = "pick" /\ cand = <<>>
      /\ level' = level + 1 /\ level <= Len(levels)
      /\ cand' \in IF level' > Len(levels) THEN {<<>>} ELSE Orders(levels[level'])
  BY DEF Visit, IsLastLevel, Inv, Shape, Candidates
<1>2. /\ Apart /\ Deeper /\ Leveled /\ Open \subseteq visited
      /\ ModelsIn(group) = ToSet(tot)
      /\ Lower /\ Here /\ FromHere /\ NotAbove /\ Untried /\ RunningFirst
  BY <1>1 DEF OrderInv, LevelInv, TurnInv
<1>3. /\ levels \in Seq(SUBSET Open) /\ DOMAIN levels = 1 .. Len(levels) /\ Len(levels) \in Nat
      /\ level \in Nat
  BY <1>1 DEF Inv, Candidates, Shape
<1>4. LevelInv'
  BY <1>1, <1>2, SameLevels, SameProgress DEF LevelInv, Leveled
<1>5. \/ level' > Len(levels) /\ cand' = <<>>
      \/ /\ level' \in DOMAIN levels /\ cand' \in Seq(Open)
         /\ ToSet(cand') = levels[level']
         /\ \A i, j \in DOMAIN cand' : cand'[i] = cand'[j] => i = j
         /\ \A i, j \in DOMAIN cand' : i < j /\ Running(cand'[j]) => Running(cand'[i])
  <2>1. CASE level' > Len(levels)
    BY <1>1, <2>1
  <2>2. CASE ~(level' > Len(levels))
    <3>1. level' \in DOMAIN levels /\ levels[level'] \subseteq Open
      BY <1>1, <1>3, <2>2
    <3>2. /\ cand' \in SetToSeqs(levels[level'])
          /\ \A i, j \in DOMAIN cand' : i < j => ~Before(cand'[j], cand'[i])
      BY <1>1, <2>2 DEF Orders
    <3>3. IsFiniteSet(levels[level'])
      BY <3>1, FS_Subset DEF Inv, History, Open
    <3>4. /\ cand' \in [1 .. Cardinality(levels[level']) -> levels[level']]
          /\ Cardinality(levels[level']) \in Nat /\ ToSet(cand') = levels[level']
          /\ \A i, j \in DOMAIN cand' : cand'[i] = cand'[j] => i = j
      BY <3>2, <3>3, Arranged DEF SetToSeqs
    <3>5. cand' \in Seq(Open)
      BY <3>1, <3>4
    <3> QED
      BY <3>1, <3>2, <3>4, <3>5 DEF Before
  <2> QED
    BY <2>1, <2>2
<1>6. level' \in DOMAIN levels => levels[level'] \cap ToSet(tot) = {}
  BY <1>1, <1>2, <1>3 DEF Apart, NotAbove
<1>7. Lower'
  <2> SUFFICES ASSUME NEW i \in DOMAIN levels, i < level' PROVE levels[i] \subseteq ToSet(tot)
    BY <1>1 DEF Lower
  <2>1. i < level \/ i = level
    BY <1>1, <1>3
  <2>2. ToSet(cand) = {}
    BY <1>1 DEF ToSet
  <2> QED
    BY <1>2, <2>1, <2>2 DEF Lower, Here
<1>8. Here' /\ FromHere'
  <2>1. level' > Len(levels) => level' \notin DOMAIN levels
    BY <1>1, <1>3
  <2> QED
    BY <1>1, <1>5, <2>1 DEF Here, FromHere
<1>9. NotAbove'
  <2> SUFFICES ASSUME NEW n \in ToSet(tot)
               PROVE  \E i \in DOMAIN levels : i <= level' /\ n \in levels[i]
    BY <1>1 DEF NotAbove
  <2>1. PICK i \in DOMAIN levels : i <= level /\ n \in levels[i]
    BY <1>2 DEF NotAbove
  <2>2. i <= level'
    BY <1>1, <1>3, <2>1
  <2> QED
    BY <2>1, <2>2
<1>10. Untried' /\ RunningFirst'
  <2>1. CASE cand' = <<>>
    BY <2>1 DEF Untried, RunningFirst, ToSet
  <2>2. CASE cand' # <<>>
    <3>1. /\ level' \in DOMAIN levels /\ ToSet(cand') = levels[level']
          /\ \A i, j \in DOMAIN cand' : cand'[i] = cand'[j] => i = j
          /\ \A i, j \in DOMAIN cand' : i < j /\ Running(cand'[j]) => Running(cand'[i])
      BY <1>5, <2>2
    <3>2. \A i, j \in DOMAIN cand' : i < j /\ Running(cand[j])' => Running(cand[i])'
      BY <1>1, <3>1, SameLast DEF Running, ModelsIn
    <3> QED
      BY <1>1, <1>6, <3>1, <3>2 DEF Untried, RunningFirst
  <2> QED
    BY <2>1, <2>2
<1>11. TurnInv'
  <2>1. ModelsIn(group)' = ToSet(tot)'
    BY <1>1, <1>2 DEF ModelsIn
  <2> QED
    BY <1>1, <1>7, <1>8, <1>9, <1>10, <2>1 DEF TurnInv
<1>12. KeptInv'
  BY <1>1, KeptKept DEF OrderInv
<1> QED
  BY <1>4, <1>11, <1>12 DEF OrderInv

(* A plan takes at least one GPU.                                           *)
LEMMA GpusPositive == \A p \in Plan : Gpus(p) > 0
<1> SUFFICES ASSUME NEW p \in Plan PROVE Gpus(p) > 0
  OBVIOUS
<1>1. \A a, b \in Nat : a > 0 /\ b > 0 => a * b > 0
  OBVIOUS
<1>2. p.workers \in Nat /\ p.dp \in Nat /\ p.workers > 0 /\ p.dp > 0
  BY SearchAssumption DEF Plan
<1> QED
  BY <1>1, <1>2 DEF Gpus

(* The rest of a sequence, and a sequence with one more.                    *)
LEMMA TailOf ==
    ASSUME NEW S, NEW s \in Seq(S), s # <<>>
    PROVE  /\ Head(s) = s[1] /\ Tail(s) \in Seq(S) /\ DOMAIN Tail(s) = 1 .. Len(s) - 1
           /\ \A i \in DOMAIN Tail(s) : Tail(s)[i] = s[i + 1] /\ i + 1 \in DOMAIN s
           /\ ToSet(s) = {Head(s)} \cup ToSet(Tail(s)) /\ 1 \in DOMAIN s /\ Len(s) \in Nat
<1>1. /\ Len(s) \in Nat /\ Len(s) >= 1 /\ DOMAIN s = 1 .. Len(s) /\ Head(s) = s[1]
      /\ Tail(s) \in Seq(S) /\ Len(Tail(s)) = Len(s) - 1
      /\ \A i \in 1 .. Len(s) - 1 : Tail(s)[i] = s[i + 1]
  BY HeadTailProperties
<1>2. DOMAIN Tail(s) = 1 .. Len(s) - 1
  BY <1>1
<1>3. \A i \in 1 .. Len(s) : i = 1 \/ (i - 1 \in 1 .. Len(s) - 1 /\ (i - 1) + 1 = i)
  BY <1>1
<1>4. \A i \in 1 .. Len(s) - 1 : i + 1 \in 1 .. Len(s)
  BY <1>1
<1>5. ToSet(s) = {Head(s)} \cup ToSet(Tail(s))
  <2>1. \A i \in 1 .. Len(s) : s[i] = Head(s) \/ s[i] \in ToSet(Tail(s))
    <3> SUFFICES ASSUME NEW i \in 1 .. Len(s), i # 1 PROVE s[i] \in ToSet(Tail(s))
      BY <1>1
    <3>1. i - 1 \in DOMAIN Tail(s) /\ Tail(s)[i - 1] = s[i]
      BY <1>1, <1>2, <1>3
    <3> QED
      BY <3>1 DEF ToSet
  <2>2. \A i \in DOMAIN Tail(s) : Tail(s)[i] \in ToSet(s)
    BY <1>1, <1>2, <1>4 DEF ToSet
  <2>3. Head(s) \in ToSet(s)
    BY <1>1 DEF ToSet
  <2> QED
    BY <1>1, <2>1, <2>2, <2>3 DEF ToSet
<1> QED
  BY <1>1, <1>2, <1>4, <1>5

(* The elements of a sequence with one more.                                *)
LEMMA AddedTo ==
    ASSUME NEW S, NEW s \in Seq(S), NEW x \in S
    PROVE  ToSet(Append(s, x)) = ToSet(s) \cup {x}
<1>1. /\ DOMAIN Append(s, x) = DOMAIN s \cup {Len(s) + 1} /\ Append(s, x)[Len(s) + 1] = x
      /\ \A i \in DOMAIN s : Append(s, x)[i] = s[i]
  OBVIOUS
<1> QED
  BY <1>1 DEF ToSet

(* Moving the next candidate to the chosen ones keeps the order.            *)
LEMMA Moved ==
    ASSUME LevelInv, cand \in Seq(Open), tot \in Seq(Open), cand # <<>>, Apart,
           Lower, Here, FromHere, NotAbove, Untried, RunningFirst,
           UNCHANGED <<levels, level, sched>>,
           tot' = Append(tot, Head(cand)), cand' = Tail(cand), level \in Nat
    PROVE  Lower' /\ Here' /\ FromHere' /\ NotAbove' /\ Untried' /\ RunningFirst'
<1>1. /\ Head(cand) = cand[1] /\ cand' \in Seq(Open) /\ DOMAIN cand' = 1 .. Len(cand) - 1
      /\ \A i \in DOMAIN cand' : cand'[i] = cand[i + 1] /\ i + 1 \in DOMAIN cand
      /\ ToSet(cand) = {Head(cand)} \cup ToSet(cand') /\ 1 \in DOMAIN cand /\ Len(cand) \in Nat
  BY TailOf
<1>2. Head(cand) \in Open
  BY <1>1
<1>3. ToSet(tot') = ToSet(tot) \cup {Head(cand)}
  BY <1>2, AddedTo
<1>4. /\ level \in DOMAIN levels /\ ToSet(cand) \subseteq levels[level]
  BY DEF FromHere
<1>5. Lower' /\ Here' /\ FromHere'
  BY <1>1, <1>3, <1>4 DEF Lower, Here, FromHere
<1>6. NotAbove'
  <2>1. level <= level
    OBVIOUS
  <2> QED
    BY <1>1, <1>3, <1>4, <2>1 DEF NotAbove
<1>7. Untried'
  <2>1. \A i, j \in DOMAIN cand' : cand'[i] = cand'[j] => i = j
    <3> SUFFICES ASSUME NEW i \in DOMAIN cand', NEW j \in DOMAIN cand', cand'[i] = cand'[j]
                 PROVE  i = j
      OBVIOUS
    <3>1. i \in Nat /\ j \in Nat /\ i + 1 = j + 1
      BY <1>1 DEF Untried
    <3> QED
      BY <3>1
  <2>2. \A i \in DOMAIN cand' : cand'[i] # Head(cand)
    <3> SUFFICES ASSUME NEW i \in DOMAIN cand', cand'[i] = Head(cand) PROVE FALSE
      OBVIOUS
    <3>1. i \in Nat \ {0} /\ i + 1 = 1
      BY <1>1 DEF Untried
    <3> QED
      BY <3>1
  <2>3. \A n \in ToSet(cand') : n # Head(cand) /\ n \notin ToSet(tot)
    <3>1. \A n \in ToSet(cand') : n # Head(cand)
      BY <2>2 DEF ToSet
    <3>2. \A n \in ToSet(cand') : n \notin ToSet(tot)
      BY <1>1 DEF Untried
    <3> QED
      BY <3>1, <3>2
  <2> QED
    BY <1>3, <2>1, <2>3 DEF Untried
<1>8. RunningFirst'
  <2>1. \A i, j \in DOMAIN cand' : i < j /\ Running(cand'[j]) => Running(cand'[i])
    <3> SUFFICES ASSUME NEW i \in DOMAIN cand', NEW j \in DOMAIN cand', i < j, Running(cand'[j])
                 PROVE  Running(cand'[i])
      OBVIOUS
    <3>1. /\ i + 1 \in DOMAIN cand /\ j + 1 \in DOMAIN cand /\ i + 1 < j + 1
          /\ cand'[i] = cand[i + 1] /\ cand'[j] = cand[j + 1]
      BY <1>1
    <3> QED
      BY <3>1 DEF RunningFirst
  <2>2. \A j \in DOMAIN cand' : Running(cand'[j]) => Running(Head(cand))
    <3> SUFFICES ASSUME NEW j \in DOMAIN cand', Running(cand'[j]) PROVE Running(Head(cand))
      OBVIOUS
    <3>1. j + 1 \in DOMAIN cand /\ 1 < j + 1 /\ cand'[j] = cand[j + 1]
      BY <1>1
    <3> QED
      BY <1>1, <3>1 DEF RunningFirst
  <2>3. \A n \in ToSet(tot) \cap levels[level] : \A j \in DOMAIN cand' :
           Running(cand'[j]) => Running(n)
    <3> SUFFICES ASSUME NEW n \in ToSet(tot) \cap levels[level], NEW j \in DOMAIN cand',
                        Running(cand'[j])
                 PROVE  Running(n)
      OBVIOUS
    <3>1. j + 1 \in DOMAIN cand /\ cand'[j] = cand[j + 1]
      BY <1>1
    <3> QED
      BY <3>1 DEF RunningFirst
  <2>4. \A n \in ToSet(tot') \cap levels[level] : \A j \in DOMAIN cand' :
           Running(cand'[j]) => Running(n)
    BY <1>3, <2>2, <2>3
  <2>5. /\ \A i, j \in DOMAIN cand' : i < j /\ Running(cand[j])' => Running(cand[i])'
        /\ \A n \in ToSet(tot') \cap levels[level] : \A j \in DOMAIN cand' :
              Running(cand[j])' => Running(n)'
    BY <2>1, <2>4, SameLast DEF Running, ModelsIn
  <2> QED
    BY <2>5 DEF RunningFirst
<1> QED
  BY <1>5, <1>6, <1>7, <1>8

(* A greedy choice keeps the order, and ends the stage only when there is   *)
(* nothing left to take.                                                    *)
LEMMA PickOrder == Inv /\ TypeInv /\ OrderInv /\ Pick => OrderInv'
<1> SUFFICES ASSUME Inv, TypeInv, OrderInv, Pick PROVE OrderInv'
  OBVIOUS
<1> USE DEF graphVars, stageVars
<1> DEFINE tried == IF cand = <<>> THEN tot ELSE Append(tot, Head(cand))
<1>1. /\ UNCHANGED <<work, method, home, fin, sched, checked, visited, levels, level>>
      /\ phase = "pick" /\ phase' = IF Used(group') = Used(group) THEN "stage" ELSE "pick"
      /\ cand # <<>> \/ IsLastLevel
      /\ group' \in Outcomes(Options(ToSet(tried)))
      /\ IF cand # <<>> /\ Cardinality(group') > Cardinality(group)
         THEN tot' = tried /\ cand' = Tail(cand)
         ELSE tot' = tot /\ cand' = cand
  BY DEF Pick
<1>2. cand \in Seq(Open) /\ tot \in Seq(Open) /\ level \in Nat
  BY <1>1 DEF Inv, Candidates, Shape
<1>3. cand # <<>> => Head(cand) \in Open
  BY <1>2
<1>4. tried \in Seq(Open)
  BY <1>2, <1>3
<1>5. ToSet(tried) = Tried
  BY <1>2, <1>3, AddedTo DEF Tried, LastTried
<1>6. Tried \in SUBSET Open
  <2> HIDE DEF tried
  <2> QED
    BY <1>4, <1>5 DEF ToSet
<1>7. /\ LevelInv /\ Apart /\ Deeper /\ Leveled /\ Open \subseteq visited
      /\ ModelsIn(group) = ToSet(tot)
      /\ Lower /\ Here /\ FromHere /\ NotAbove /\ Untried /\ RunningFirst
  BY <1>1 DEF OrderInv, LevelInv, TurnInv
<1>8. LevelInv'
  BY <1>1, <1>7, SameLevels, SameProgress DEF LevelInv, Leveled
<1>9. group' \in Outcomes(Options(Tried))
  BY <1>1, <1>5
<1>10. group' = group \/ \E p \in Options(Tried) : group' = With(p)
  BY <1>9 DEF Outcomes, Forced, Sure
<1>11. Used(group') = Used(group) =>
          /\ group' = group
          /\ IF method.random THEN Options(Tried) = {} ELSE Sure(Options(Tried)) = {}
  BY <1>6, <1>9, Untaken
<1>12. Cardinality(group) \in Nat
  BY FS_CardinalityType DEF TypeInv, AllFit, Fits
(* Either nothing moves, or the next candidate has got its first plan.      *)
<1>13. \/ tot' = tot /\ cand' = cand /\ ModelsIn(group') = ToSet(tot)
       \/ /\ cand # <<>> /\ tot' = Append(tot, Head(cand)) /\ cand' = Tail(cand)
          /\ ModelsIn(group') = ToSet(tot) \cup {Head(cand)}
  <2>1. CASE group' = group
    BY <1>1, <1>7, <1>12, <2>1
  <2>2. CASE group' # group
    <3>1. PICK p \in Options(Tried) : group' = With(p)
      BY <1>10, <2>2
    <3>2. /\ p.model \in Tried /\ ModelsIn(group') = ModelsIn(group) \cup {p.model}
          /\ IF p.model \in ModelsIn(group)
             THEN Cardinality(group') = Cardinality(group)
             ELSE Cardinality(group') = Cardinality(group) + 1
      BY <1>6, <3>1, Taken
    <3>3. p.model \in ToSet(tot) \/ (cand # <<>> /\ p.model = Head(cand))
      BY <3>2 DEF Tried, LastTried
    <3> QED
      BY <1>1, <1>7, <1>12, <3>2, <3>3
  <2> QED
    BY <2>1, <2>2
<1> HIDE DEF tried
<1>14. ModelsIn(group)' = ToSet(tot)'
  <2>1. ModelsIn(group') = ToSet(tot')
    <3>1. cand # <<>> => ToSet(Append(tot, Head(cand))) = ToSet(tot) \cup {Head(cand)}
      BY <1>2, <1>3, AddedTo
    <3> QED
      BY <1>13, <3>1
  <2> QED
    BY <2>1 DEF ModelsIn
<1>15. Lower' /\ Here' /\ FromHere' /\ NotAbove' /\ Untried' /\ RunningFirst'
  <2>1. CASE tot' = tot /\ cand' = cand
    <3>1. \A n : Running(n)' = Running(n)
      BY <1>1, SameLast
    <3>2. /\ \A i, j \in DOMAIN cand : i < j /\ Running(cand[j])' => Running(cand[i])'
          /\ cand # <<>> =>
                \A n \in ToSet(tot) \cap levels[level] : \A j \in DOMAIN cand :
                    Running(cand[j])' => Running(n)'
      BY <1>1, <1>7, <2>1, SameLast DEF RunningFirst, Running, ModelsIn, LastPlans
    <3> QED
      BY <1>1, <1>7, <2>1, <3>2 DEF Lower, Here, FromHere, NotAbove, Untried, RunningFirst
  <2>2. CASE cand # <<>> /\ tot' = Append(tot, Head(cand)) /\ cand' = Tail(cand)
    BY <1>1, <1>2, <1>7, <2>2, Moved
  <2> QED
    BY <1>13, <2>1, <2>2
<1>16. phase' = "stage" => (cand' # <<>> \/ IsLastLevel') /\ NothingMore'
  <2> SUFFICES ASSUME phase' = "stage"
               PROVE  (cand' # <<>> \/ IsLastLevel') /\ NothingMore'
    OBVIOUS
  <2>1. group' = group /\ NothingMore
    BY <1>1, <1>11 DEF NothingMore
  <2>2. tot' = tot /\ cand' = cand
    BY <1>1, <1>12, <2>1
  <2>3. NothingMore' = NothingMore
    BY <1>1, <2>1, <2>2 DEF NothingMore, Tried, LastTried, Options, Fitting, MorePlans, Others, Used,
       PossiblePlans, Runnable, NodeInputs, Sure, Running, LastPlans, ModelsIn, Finished, Bases
  <2> QED
    BY <1>1, <2>1, <2>2, <2>3 DEF IsLastLevel
<1>17. TurnInv'
  BY <1>14, <1>15, <1>16 DEF TurnInv
<1>18. KeptInv'
  <2>1. \A p \in group' : /\ p \in PossiblePlans(p.model)
                          /\ method.noPreemption => (Running(p.model) => p \in LastPlans)
    <3>1. \A p \in group : /\ p \in PossiblePlans(p.model)
                           /\ method.noPreemption => (Running(p.model) => p \in LastPlans)
      BY <1>1 DEF OrderInv, KeptInv
    <3>2. CASE group' = group
      BY <3>1, <3>2
    <3>3. CASE group' # group
      <4>1. PICK p \in Options(Tried) : group' = With(p)
        BY <1>10, <3>3
      <4>2. p \in PossiblePlans(p.model) /\ (method.noPreemption => (Running(p.model) => p \in LastPlans))
        BY <1>6, Taken
      <4>3. \A q \in group' : q = p \/ q \in group
        BY <4>1 DEF With, Others
      <4> QED
        BY <3>1, <4>2, <4>3
    <3> QED
      BY <3>2, <3>3
  <2>2. \A p \in group' : /\ p \in PossiblePlans(p.model)'
                          /\ method'.noPreemption => (Running(p.model)' => p \in LastPlans')
    BY <1>1, <2>1, SamePossible, SameLast
  <2>3. \A k \in DOMAIN sched' : \A p \in sched'[k] : p \in PossiblePlans(p.model)'
    BY <1>1, SamePossible DEF OrderInv, KeptInv
  <2> QED
    BY <2>2, <2>3 DEF KeptInv
<1> QED
  BY <1>8, <1>17, <1>18 DEF OrderInv

(* A stage that is added to the schedule has plans its nodes may have.      *)
LEMMA StageOrder == OrderInv /\ TypeInv /\ Stage => OrderInv'
<1> SUFFICES ASSUME OrderInv, TypeInv, Stage PROVE OrderInv'
  OBVIOUS
<1>1. /\ UNCHANGED <<work, method, home, group>> /\ phase' \in {"round", "aborted"}
      /\ sched' = Append(sched, group)
  BY DEF Stage, graphVars, pickVars
<1>2. LevelInv' /\ TurnInv'
  BY <1>1 DEF LevelInv, TurnInv
<1>3. KeptInv'
  <2>1. /\ sched \in Seq(SUBSET Plan) /\ group \in SUBSET Plan
        /\ DOMAIN sched' = DOMAIN sched \cup {Len(sched) + 1}
        /\ \A k \in DOMAIN sched : sched'[k] = sched[k]
        /\ sched'[Len(sched) + 1] = group
    BY <1>1 DEF TypeInv, TypeOK
  <2>2. \A k \in DOMAIN sched' : \A p \in sched'[k] : p \in PossiblePlans(p.model)
    BY <2>1 DEF OrderInv, KeptInv
  <2>3. \A k \in DOMAIN sched' : \A p \in sched'[k] : p \in PossiblePlans(p.model)'
    BY <1>1, <2>2, SamePossible
  <2>4. \A p \in group' : p \in PossiblePlans(p.model)'
    BY <1>1, SamePossible DEF OrderInv, KeptInv
  <2> QED
    BY <1>1, <2>3, <2>4 DEF KeptInv
<1> QED
  BY <1>2, <1>3 DEF OrderInv

(* Giving up on a stage without plans leaves the plans of the others.       *)
LEMMA NoStageOrder == OrderInv /\ NoStage => OrderInv'
<1> SUFFICES ASSUME OrderInv, NoStage PROVE OrderInv'
  OBVIOUS
<1>1. UNCHANGED <<work, method, sched, group>> /\ phase = "stage" /\ phase' = "aborted"
  BY DEF NoStage, graphVars, stageVars, pickVars
<1>2. LevelInv' /\ TurnInv'
  BY <1>1 DEF LevelInv, TurnInv
<1>3. KeptInv'
  BY <1>1, KeptKept DEF OrderInv
<1> QED
  BY <1>2, <1>3 DEF OrderInv

(* The third inductive invariant, on top of the other two: levels in order, *)
(* tried in order, and kept plans.                                          *)
THEOREM Ordering == Spec => []OrderInv
<1>1. Inv /\ TypeInv /\ OrderInv /\ [Next]_vars => OrderInv'
  <2> SUFFICES ASSUME Inv, TypeInv, OrderInv, [Next]_vars PROVE OrderInv'
    OBVIOUS
  <2>1. CASE UNCHANGED vars
    <3>1. UNCHANGED <<work, method, home, phase, fin, sched, visited, levels, level, cand, tot, group>>
      BY <2>1 DEF vars, graphVars, stageVars, pickVars
    <3>2. LevelInv'
      BY <3>1, SameLevels, SameProgress DEF OrderInv, LevelInv, Leveled
    <3>3. TurnInv'
      <4> USE <3>1
      <4>1. Lower' = Lower /\ Here' = Here /\ FromHere' = FromHere
        BY DEF Lower, Here, FromHere
      <4>2. NotAbove' = NotAbove /\ Untried' = Untried /\ RunningFirst' = RunningFirst
        BY DEF NotAbove, Untried, RunningFirst, Running, LastPlans, ModelsIn
      <4>3. NothingMore' = NothingMore
        BY DEF NothingMore, Tried, LastTried, Options, Fitting, MorePlans, Others, Used,
           PossiblePlans, Runnable, NodeInputs, Sure, Running, LastPlans, ModelsIn, Finished, Bases
      <4> QED
        BY <4>1, <4>2, <4>3 DEF OrderInv, TurnInv, IsLastLevel, ModelsIn
    <3>4. KeptInv'
      BY <3>1, SamePossible, SameLast DEF OrderInv, KeptInv
    <3> QED
      BY <3>2, <3>3, <3>4 DEF OrderInv
  <2> QED
    BY <2>1, FuseOrder, RoundOrder, PassOrder, VisitOrder, PickOrder, StageOrder, NoStageOrder DEF Next
<1> QED
  BY <1>1, InitOrder, Invariance, Typing, PTL DEF Spec

(* The level of a node.                                                     *)
LEMMA TheLevel ==
    ASSUME Apart, NEW i \in DOMAIN levels, NEW n \in levels[i]
    PROVE  LevelOf(n) = i
  BY DEF Apart, LevelOf

(* A set of plans of the last stage takes no more than the last stage.      *)
LEMMA Subsum ==
    ASSUME NEW S, S \subseteq Plan, IsFiniteSet(S)
    PROVE  \A R \in SUBSET S : Used(R) <= Used(S)
<1> DEFINE P == {D \in SUBSET S : Used(S \ D) <= Used(S)}
<1>1. \A D \in SUBSET S : (\A E \in SUBSET D : E # D => E \in P) => D \in P
  <2> SUFFICES ASSUME NEW D \in SUBSET S, \A E \in SUBSET D : E # D => E \in P
               PROVE  Used(S \ D) <= Used(S)
    OBVIOUS
  <2>1. \A R \in SUBSET S : IsFiniteSet(R) /\ R \subseteq Plan /\ Used(R) \in Nat
    BY FS_Subset, UsedStep
  <2>2. CASE D = {}
    <3>1. S \ D = S
      BY <2>2
    <3>2. Used(S \ D) = Used(S)
      BY <3>1
    <3>3. Used(S) \in Nat
      BY <2>1
    <3> QED
      BY <3>2, <3>3
  <2>3. CASE D # {}
    <3>1. PICK x \in D : TRUE
      BY <2>3
    <3> DEFINE R == S \ (D \ {x})
    <3>2. Used(R) <= Used(S)
      <4>1. D \ {x} \in P
        BY <3>1
      <4> QED
        BY <4>1
    <3>3. R \in SUBSET S /\ x \in R /\ R \ {x} = S \ D
      BY <3>1
    <3> HIDE DEF R
    <3>4. Used(R) = Gpus(x) + Used(S \ D)
      BY <2>1, <3>3, UsedStep
    <3>5. Gpus(x) \in Nat /\ Used(R) \in Nat /\ Used(S \ D) \in Nat /\ Used(S) \in Nat
      BY <2>1, <3>3, GpusType
    <3> QED
      BY <3>2, <3>4, <3>5
  <2> QED
    BY <2>2, <2>3
<1> HIDE DEF P
<1>2. \A D \in SUBSET S : D \in P
  BY <1>1, SubsetInduction
<1>3. \A R \in SUBSET S : S \ (S \ R) = R
  OBVIOUS
<1> QED
  BY <1>2, <1>3 DEF P

(* Without preemption a running model that loses its plan has lost it to a  *)
(* model that was tried on a lower level, or to one that waits.             *)
LEMMA WhoOvertakes == Inv /\ TypeInv /\ OrderInv => OvertakenOnlyFromBelow
<1> SUFFICES ASSUME Inv, TypeInv, OrderInv, phase = "stage", method.noPreemption, Waiting = {},
                    NEW p \in LastPlans, ~Finished(p.model), p \notin group,
                    \A n \in Tried : Running(n) \/ ~(LevelOf(n) < LevelOf(p.model))
             PROVE  FALSE
  BY DEF OvertakenOnlyFromBelow, Tried
<1> DEFINE m == p.model
<1>1. /\ Apart /\ Deeper /\ Leveled /\ Open \subseteq visited
      /\ ModelsIn(group) = ToSet(tot)
      /\ Lower /\ Here /\ FromHere /\ NotAbove /\ Untried /\ RunningFirst
      /\ cand # <<>> \/ IsLastLevel
      /\ NothingMore
  BY DEF OrderInv, LevelInv, TurnInv
<1>2. /\ levels \in Seq(SUBSET Open) /\ DOMAIN levels = 1 .. Len(levels) /\ Len(levels) \in Nat
      /\ level \in Nat /\ cand \in Seq(Open) /\ tot \in Seq(Open)
  BY DEF Inv, Candidates, Shape
<1>3. \A q \in group : Running(q.model) => q \in LastPlans
  BY DEF OrderInv, KeptInv
<1>4. /\ LastPlans \subseteq Plan /\ Fits(LastPlans) /\ ModelsIn(LastPlans) \subseteq Nodes
      /\ \A q \in LastPlans : q \in PossiblePlans(q.model)
  <2>1. PICK k \in DOMAIN sched : LastPlans = sched[k]
    <3>1. sched \in Seq(SUBSET Plan) /\ sched # <<>>
      BY DEF TypeInv, TypeOK, LastPlans
    <3>2. Len(sched) \in DOMAIN sched
      BY <3>1
    <3> QED
      BY <3>1, <3>2 DEF LastPlans
  <2> QED
    BY <2>1 DEF TypeInv, TypeOK, AllFit, OrderInv, KeptInv
<1>5. Running(m) /\ m \in Open
  BY <1>4 DEF Running, ModelsIn, Open
<1>6. m \notin ToSet(tot)
  <2> SUFFICES ASSUME m \in ModelsIn(group) PROVE FALSE
    BY <1>1
  <2>1. PICK q \in group : q.model = m
    BY DEF ModelsIn
  <2>2. q \in LastPlans
    BY <1>3, <1>5, <2>1
  <2> QED
    BY <1>4, <2>1, <2>2 DEF Fits
<1>7. PICK l \in DOMAIN levels : m \in levels[l]
  BY <1>1, <1>5 DEF Leveled, OnLevel
<1>8. LevelOf(m) = l
  BY <1>1, <1>7, TheLevel
<1>9. ~(l < level)
  BY <1>1, <1>6, <1>7 DEF Lower
<1>10. cand # <<>> /\ level \in DOMAIN levels /\ ToSet(cand) \subseteq levels[level]
  <2>1. cand # <<>>
    <3> SUFFICES ASSUME level > Len(levels) PROVE FALSE
      BY <1>1 DEF IsLastLevel
    <3> QED
      BY <1>2, <1>7, <1>9
  <2> QED
    BY <1>1, <2>1 DEF FromHere
<1> DEFINE h == Head(cand)
<1>11. /\ h \in ToSet(cand) /\ h = cand[1] /\ 1 \in DOMAIN cand /\ h \in levels[level]
       /\ DOMAIN cand = 1 .. Len(cand) /\ Len(cand) \in Nat /\ h \in Open
  BY <1>2, <1>10, TailOf
<1>12. h \notin ToSet(tot) /\ h \in Tried /\ LevelOf(h) = level
  BY <1>1, <1>10, <1>11, TheLevel DEF Untried, Tried, LastTried
(* If the plan was lost on the level that is being tried, the model is a    *)
(* candidate, and all that were tried on this level run.                    *)
<1>13. l = level => /\ Running(h)
                    /\ \A n \in ToSet(tot) \cap levels[level] : Running(n)
  <2> SUFFICES ASSUME l = level
               PROVE  Running(h) /\ \A n \in ToSet(tot) \cap levels[level] : Running(n)
    OBVIOUS
  <2>1. m \in ToSet(cand)
    BY <1>1, <1>6, <1>7, <1>10 DEF Here
  <2>2. PICK j \in DOMAIN cand : cand[j] = m
    BY <2>1 DEF ToSet
  <2>3. Running(cand[j])
    BY <1>5, <2>2
  <2>4. \A n \in ToSet(tot) \cap levels[level] : Running(n)
    BY <1>1, <1>10, <2>3 DEF RunningFirst
  <2>5. j = 1 \/ 1 < j
    BY <1>11
  <2> QED
    BY <1>1, <1>11, <2>3, <2>4, <2>5 DEF RunningFirst
(* So everything that was tried runs.                                       *)
<1>14. \A n \in Tried : Running(n)
  <2> SUFFICES ASSUME NEW n \in Tried, ~Running(n) PROVE FALSE
    OBVIOUS
  <2>1. ~(LevelOf(n) < l)
    BY <1>8
  <2>2. CASE n = h
    <3>1. l = level
      BY <1>2, <1>7, <1>9, <1>10, <1>12, <2>1, <2>2
    <3> QED
      BY <1>13, <2>2, <3>1
  <2>3. CASE n \in ToSet(tot)
    <3>1. PICK i \in DOMAIN levels : i <= level /\ n \in levels[i]
      BY <1>1, <2>3 DEF NotAbove
    <3>2. LevelOf(n) = i
      BY <1>1, <3>1, TheLevel
    <3>3. i = level /\ l = level
      BY <1>2, <1>7, <1>9, <1>10, <2>1, <3>1, <3>2
    <3> QED
      BY <1>13, <2>3, <3>1, <3>3
  <2> QED
    BY <2>2, <2>3 DEF Tried, LastTried
(* The candidate that ended the stage could have had its plan again.        *)
<1>15. PICK q \in LastPlans : q.model = h
  BY <1>12, <1>14 DEF Running, ModelsIn
<1>16. Runnable(h)
  <2>1. CASE work.indep[h]
    BY <1>10, <2>1 DEF Waiting, LastTried
  <2>2. CASE ~work.indep[h]
    <3> SUFFICES ASSUME NEW x \in NodeInputs(h), ~Finished(x) PROVE x \in ModelsIn(group)
      BY DEF Runnable
    <3>1. PICK j \in DOMAIN levels : j < level /\ x \in levels[j]
      BY <1>1, <1>10, <1>11, <2>2 DEF Deeper
    <3> QED
      BY <1>1, <3>1 DEF Lower
  <2> QED
    BY <2>1, <2>2
<1>17. group \subseteq LastPlans /\ q \notin group
  <2>1. \A r \in group : Running(r.model)
    BY <1>1, <1>14 DEF ModelsIn, Tried
  <2> QED
    BY <1>1, <1>3, <1>12, <1>15, <2>1 DEF ModelsIn
<1>18. Others(h) = group
  BY <1>1, <1>12 DEF Others, ModelsIn
<1>19. Gpus(q) > 0 /\ Gpus(q) \in Nat /\ Used(group) \in Nat /\ Gpus(q) <= TotGpu - Used(group)
  <2> DEFINE both == group \cup {q}
  <2>1. IsFiniteSet(LastPlans) /\ LastPlans \subseteq Plan /\ Used(LastPlans) <= TotGpu
    BY <1>4 DEF Fits
  <2>2. both \in SUBSET LastPlans /\ q \in both /\ both \ {q} = group /\ group \in SUBSET LastPlans
    BY <1>15, <1>17
  <2> HIDE DEF both
  <2>3. IsFiniteSet(both) /\ IsFiniteSet(group) /\ both \subseteq Plan /\ group \subseteq Plan
    BY <2>1, <2>2, FS_Subset
  <2>4. Used(both) = Gpus(q) + Used(group)
    BY <2>2, <2>3, UsedStep
  <2>5. Used(both) <= Used(LastPlans)
    BY <2>1, <2>2, Subsum
  <2>6. /\ Gpus(q) \in Nat /\ Gpus(q) > 0 /\ Used(group) \in Nat /\ Used(LastPlans) \in Nat
        /\ TotGpu \in Nat
    BY <2>1, <2>2, <2>3, UsedStep, GpusType, GpusPositive, SearchAssumption
  <2> QED
    BY <2>1, <2>4, <2>5, <2>6
<1>20. q \in Options(Tried)
  <2>1. Used(group) - Used(Others(h)) = 0
    BY <1>18, <1>19
  <2>2. q \in PossiblePlans(h) /\ Gpus(q) > Used(group) - Used(Others(h))
    BY <1>4, <1>15, <1>19, <2>1
  <2>3. q \in MorePlans(h)
    BY <2>2 DEF MorePlans
  <2>4. q \in Fitting(h)
    BY <1>18, <1>19, <2>3 DEF Fitting
  <2> QED
    BY <1>12, <1>16, <2>4 DEF Options
<1>21. q \in Sure(Options(Tried))
  BY <1>1, <1>12, <1>15, <1>20 DEF Sure
<1> QED
  BY <1>1, <1>20, <1>21 DEF NothingMore

(* With no_preemption a model that is not finished keeps its plan, unless a *)
(* model that did not run was tried on a lower level or the stage ended at  *)
(* one that waits for a source (the order of cand_models at                 *)
(* search_exec_plans.py:4475).                                              *)
THEOREM Overtaking == Spec => []OvertakenOnlyFromBelow
  BY Invariance, Typing, Ordering, WhoOvertakes, PTL
=============================================================================
