------------------------ MODULE Coordination_proofs ------------------------
(***************************************************************************)
(* Proofs about module Coordination, for every set of models and GPUs,      *)
(* every dataflow graph and both policies.  Types and the order of the two  *)
(* stages hold whatever the timing; that GPUs are exclusive, that the       *)
(* signal of a model means what it should and that plans are in force are   *)
(* proved from the timing assumptions Prompt and ~QuickRounds, without      *)
(* which the runs CoordStale and CoordClearedSignal refute them.            *)
(***************************************************************************)
EXTENDS CoordinationProperties, TLAPS

----------------------------------------------------------------------------
(* The invariants.                                                          *)

(* A model that is marked finished has answered its requests, and answers   *)
(* are given only at the end of a model's last round.                       *)
LastRound ==
    \A m \in Model :
        /\ finished[m] => answered[m]
        /\ answered[m] => pc[m] \in {"wrap", "report", "signal", "loop", "exit"}
        /\ answered[m] /\ pc[m] \in {"signal", "loop", "exit"} => finished[m]

(* stage1_started is set after the first stage, and lets Late models run.   *)
StageOrder ==
    /\ stage1 => \A n \in Model \ Late : finished[n]
    /\ \A m \in Late : pc[m] \in {"run", "wrap"} => stage1

StageInv == TypeOK /\ LastRound /\ StageOrder

(* The GPUs a process is on, or will be when it has read its plan.          *)
Held(m) ==
    CASE pc[m] = "plan" -> setting[m]
      [] pc[m] \in {"load", "run", "wrap", "unblock"} -> snap[m]
      [] OTHER -> {}

(* The models the scheduler stops in this round, and still waits for.       *)
Leaving == IF mpc \in {"stage1", "stop", "settle"} THEN todo ELSE {}

(* No process finds itself started but the one whose start is under way.    *)
StartedOnce ==
    \A m \in Model :
        started[m] =>
            /\ pc[m] \notin {"boot", "wait", "blocked", "check", "again"}
            /\ pc[m] \in {"wrap", "report", "signal", "loop"} => answered[m]

(* The event of a model is set only when the model is off its GPUs, except  *)
(* between the two statements of start_specific_models.                     *)
EventMeansOff ==
    \A m \in Model :
        event[m] /\ pc[m] \in {"boot", "plan", "load", "run", "wrap", "report", "signal", "unblock"}
            => mpc = "clear" /\ m \in current

(* Where the scheduler is when it starts a model.                           *)
Starting ==
    /\ mpc \notin {"set", "clear"} => current = {}
    /\ mpc = "set" => \A m \in current :
          /\ setting[m] = plan[m]
          /\ pc[m] \in {"blocked", "exit", "failed"}
    /\ \A m \in current : pc[m] \in {"blocked", "plan", "load", "run", "exit", "failed"}

(* Only processes with a plan have GPUs, and only ended ones are not        *)
(* pending.                                                                 *)
Bookkeeping ==
    \A m \in Model :
        /\ snap[m] # {} => pc[m] \in {"load", "run", "wrap", "unblock", "dying"}
        /\ m \notin pending => Ended(m)

(* HybridFlow: the plan is that of the models the modelsets run.            *)
ByColumns == ~Preemptive => plan = ColumnPlan(column)

(* What a process holds is its part of a disjoint plan, unless it is being  *)
(* stopped; and what two processes hold is disjoint even then.              *)
Holding ==
    /\ Disjoint(plan)
    /\ mpc \notin {"teardown", "end"} =>
          \A m \in Model \ Leaving :
             Held(m) # {} => Held(m) = plan[m] /\ setting[m] = plan[m]
    /\ \A m, n \in Model : m # n => Held(m) \cap Held(n) = {}

ExclusionInv ==
    StageInv /\ StartedOnce /\ EventMeansOff /\ Starting /\ Bookkeeping /\ ByColumns /\ Holding

----------------------------------------------------------------------------
(* Types.                                                                   *)

(* The HybridFlow plan gives each model GPUs of its modelsets.              *)
LEMMA ColumnPlanType ==
    ASSUME NEW col PROVE ColumnPlan(col) \in [Model -> SUBSET GPU]
BY ColumnAssumption DEF ColumnPlan

(* Every plan of the preemptive policy is a disjoint plan.                  *)
LEMMA PlansType ==
    ASSUME NEW over, NEW p \in Plans(over)
    PROVE  p \in [Model -> SUBSET GPU] /\ Disjoint(p)
BY DEF Plans

(* The columns that ReplanHybridFlow moves stay within their modelsets.     *)
LEMMA ReplanHybridFlowType ==
    ASSUME TypeOK, NEW over \in SUBSET Model, ReplanHybridFlow(over)
    PROVE  /\ plan' \in [Model -> SUBSET GPU]
           /\ plan' = ColumnPlan(column')
           /\ todo' \subseteq Model /\ toLaunch' \subseteq Model
           /\ DOMAIN column' = DOMAIN Columns /\ DOMAIN target' = DOMAIN Columns
           /\ \A k \in DOMAIN Columns :
                 /\ column'[k] \in DOMAIN Columns[k]
                 /\ target'[k] \in 2 .. Len(Columns[k]) + 1
<1> DEFINE overCols == {k \in DOMAIN Columns : Columns[k][column[k]] \in over}
           moving == {k \in overCols : target[k] <= Len(Columns[k])}
           next == [k \in DOMAIN Columns |-> IF k \in moving THEN target[k] ELSE column[k]]
<1>1. /\ column' = next
      /\ target' = [k \in DOMAIN Columns |-> IF k \in moving THEN NextTarget(k) ELSE target[k]]
      /\ plan' = ColumnPlan(next)
      /\ toLaunch' = {Columns[k][next[k]] : k \in moving}
      /\ todo' = {Columns[k][column[k]] : k \in overCols}
  BY DEF ReplanHybridFlow
<1>2. \A k \in DOMAIN Columns :
         /\ Columns[k] \in Seq(Model)
         /\ Len(Columns[k]) \in Nat
         /\ DOMAIN Columns[k] = 1 .. Len(Columns[k])
  BY ColumnAssumption
<1>3. \A k \in DOMAIN Columns : next[k] \in DOMAIN Columns[k]
  BY <1>2 DEF TypeOK
<1>4. \A k \in DOMAIN Columns : target'[k] \in 2 .. Len(Columns[k]) + 1
  BY <1>1, <1>2 DEF TypeOK, NextTarget
<1>5. plan' \in [Model -> SUBSET GPU]
  BY <1>1, ColumnPlanType
<1>6. \A k \in DOMAIN Columns : \A a \in DOMAIN Columns[k] : Columns[k][a] \in Model
  BY <1>2
<1>7. todo' \subseteq Model /\ toLaunch' \subseteq Model
  BY <1>1, <1>3, <1>6 DEF TypeOK
<1> QED
  BY <1>1, <1>3, <1>4, <1>5, <1>7

(* What the next round changes, whichever policy computes it.               *)
LEMMA ReplanType ==
    ASSUME TypeOK, Replan
    PROVE  /\ plan' \in [Model -> SUBSET GPU]
           /\ todo' \subseteq Model /\ toLaunch' \subseteq Model
           /\ DOMAIN column' = DOMAIN Columns /\ DOMAIN target' = DOMAIN Columns
           /\ \A k \in DOMAIN Columns :
                 /\ column'[k] \in DOMAIN Columns[k]
                 /\ target'[k] \in 2 .. Len(Columns[k]) + 1
<1>1. CASE Preemptive
  <2>1. PICK over \in SUBSET Model : ReplanPreemptive(over)
    BY <1>1 DEF Replan
  <2>2. plan' \in [Model -> SUBSET GPU]
    BY <2>1, PlansType DEF ReplanPreemptive
  <2>3. todo' \subseteq Model /\ toLaunch' \subseteq Model
    BY <2>1 DEF ReplanPreemptive
  <2> QED
    BY <2>1, <2>2, <2>3 DEF ReplanPreemptive, TypeOK
<1>2. CASE ~Preemptive
  <2>1. PICK over \in SUBSET Model : ReplanHybridFlow(over)
    BY <1>2 DEF Replan
  <2> QED
    BY <2>1, ReplanHybridFlowType
<1> QED
  BY <1>1, <1>2

(* Initially every variable has its type.                                  *)
LEMMA TypeInit == Init => TypeOK
<1> SUFFICES ASSUME Init PROVE TypeOK
  OBVIOUS
<1>1. plan \in [Model -> SUBSET GPU]
  BY ColumnPlanType, PlansType DEF Init, FirstPlans
<1>2. setting \in [Model -> SUBSET GPU]
  BY <1>1, ColumnAssumption DEF Init, AllColumns
<1>3. \A k \in DOMAIN Columns :
         /\ column[k] \in DOMAIN Columns[k]
         /\ target[k] \in 2 .. Len(Columns[k]) + 1
  BY ColumnAssumption DEF Init, FirstColumn
<1>4. snap \in [Model -> SUBSET GPU]
  BY DEF Init, NoModel
<1> QED
  BY <1>1, <1>2, <1>3, <1>4 DEF Init, TypeOK, FirstColumn, MainPoints, ProcPoints

(* Every step of the scheduler and of a model process keeps the types.      *)
LEMMA TypeStep == TypeOK /\ [Next]_vars => TypeOK'
<1> SUFFICES ASSUME TypeOK, [Next]_vars PROVE TypeOK'
  OBVIOUS
<1>1. ASSUME NEW m \in Model, Boot(m) PROVE TypeOK'
  BY <1>1 DEF Boot, sharedVars, procVars, TypeOK, MainPoints, ProcPoints
<1>2. ASSUME NEW m \in Model, WriteSetting(m) PROVE TypeOK'
  BY <1>2 DEF WriteSetting, Written, procVars, TypeOK, MainPoints, ProcPoints
<1>3. ASSUME NEW m \in Model, Settle(m) PROVE TypeOK'
  BY <1>3 DEF Settle, sharedVars, procVars, TypeOK, MainPoints, ProcPoints
<1>4. CASE Booted
  BY <1>4 DEF Booted, sharedVars, procVars, TypeOK, MainPoints, ProcPoints
<1>5. CASE SetStarted
  BY <1>5 DEF SetStarted, TypeOK, MainPoints, ProcPoints
<1>6. CASE ClearEvent
  BY <1>6 DEF ClearEvent, Cleared, procVars, TypeOK, MainPoints, ProcPoints
<1>7. CASE Launched
  BY <1>7 DEF Launched, sharedVars, procVars, TypeOK, MainPoints, ProcPoints
<1>8. CASE Replan
  BY <1>8, ReplanType DEF Replan, sharedVars, procVars, TypeOK, MainPoints, ProcPoints
<1>9. CASE StartStage1
  BY <1>9 DEF StartStage1, Stage1Due, procVars, TypeOK, MainPoints, ProcPoints
<1>10. CASE Stop
  BY <1>10 DEF Stop, Raised, Waited, procVars, TypeOK, MainPoints, ProcPoints
<1>11. CASE Settled
  BY <1>11 DEF Settled, sharedVars, procVars, TypeOK, MainPoints, ProcPoints
<1>12. CASE Teardown
  BY <1>12 DEF Teardown, sharedVars, procVars, TypeOK, MainPoints, ProcPoints
<1>13. ASSUME NEW m \in Model, Prepared(m) PROVE TypeOK'
  BY <1>13 DEF Prepared, Step, mainVars, TypeOK, MainPoints, ProcPoints
<1>14. ASSUME NEW m \in Model, WaitStarted(m) PROVE TypeOK'
  BY <1>14 DEF WaitStarted, Step, sharedVars, mainVars, TypeOK, MainPoints, ProcPoints
<1>15. ASSUME NEW m \in Model, ReadPlan(m) PROVE TypeOK'
  BY <1>15 DEF ReadPlan, Step, sharedVars, mainVars, TypeOK, MainPoints, ProcPoints
<1>16. ASSUME NEW m \in Model, Loaded(m) PROVE TypeOK'
  BY <1>16 DEF Loaded, Step, sharedVars, mainVars, TypeOK, MainPoints, ProcPoints
<1>17. ASSUME NEW m \in Model, Stopped(m) PROVE TypeOK'
  BY <1>17 DEF Stopped, Step, ShouldReschedule, RoundMayEnd, sharedVars, mainVars, TypeOK,
     MainPoints, ProcPoints
<1>18. ASSUME NEW m \in Model, Complete(m) PROVE TypeOK'
  BY <1>18 DEF Complete, Step, RoundMayEnd, mainVars, TypeOK, MainPoints, ProcPoints
<1>19. ASSUME NEW m \in Model, FreeGpus(m) PROVE TypeOK'
  BY <1>19 DEF FreeGpus, Step, sharedVars, mainVars, TypeOK, MainPoints, ProcPoints
<1>20. ASSUME NEW m \in Model, Report(m) PROVE TypeOK'
  BY <1>20 DEF Report, Step, FinishedNow, mainVars, TypeOK, MainPoints, ProcPoints
<1>21. ASSUME NEW m \in Model, Signal(m) PROVE TypeOK'
  BY <1>21 DEF Signal, Step, mainVars, TypeOK, MainPoints, ProcPoints
<1>22. ASSUME NEW m \in Model, Loop(m) PROVE TypeOK'
  BY <1>22 DEF Loop, Step, sharedVars, mainVars, TypeOK, MainPoints, ProcPoints
<1>23. ASSUME NEW m \in Model, CheckStarted(m) PROVE TypeOK'
  BY <1>23 DEF CheckStarted, Step, sharedVars, mainVars, TypeOK, MainPoints, ProcPoints
<1>24. ASSUME NEW m \in Model, SignalAgain(m) PROVE TypeOK'
  BY <1>24 DEF SignalAgain, Step, mainVars, TypeOK, MainPoints, ProcPoints
<1>25. ASSUME NEW m \in Model, Unblock(m) PROVE TypeOK'
  BY <1>25 DEF Unblock, Step, Unblocked, mainVars, TypeOK, MainPoints, ProcPoints
<1>26. ASSUME NEW m \in Model, Die(m) PROVE TypeOK'
  BY <1>26 DEF Die, Step, sharedVars, mainVars, TypeOK, MainPoints, ProcPoints
<1>27. ASSUME NEW m \in Model, Fail(m) PROVE TypeOK'
  BY <1>27 DEF Fail, RoundMayEnd, sharedVars, mainVars, TypeOK, MainPoints, ProcPoints
<1>28. CASE UNCHANGED vars
  BY <1>28 DEF vars, sharedVars, mainVars, procVars, TypeOK, MainPoints, ProcPoints
<1>29. CASE Awaken
  BY <1>29 DEF Awaken, sharedVars, procVars, TypeOK, MainPoints, ProcPoints
<1> QED
  BY <1>1, <1>2, <1>3, <1>4, <1>5, <1>6, <1>7, <1>8, <1>9, <1>10, <1>11, <1>12, <1>13, <1>14,
     <1>15, <1>16, <1>17, <1>18, <1>19, <1>20, <1>21, <1>22, <1>23, <1>24, <1>25, <1>26, <1>27,
     <1>28, <1>29 DEF Next, MainNext, ProcNext, Terminated

(* Every variable keeps its type (TypeOK), in every reachable state of      *)
(* every system and whatever the timing.                                    *)
THEOREM TypeCorrectness == Spec => []TypeOK
<1>1. TypeOK /\ [Next]_vars => TypeOK'
  BY TypeStep
<1> QED
  BY <1>1, TypeInit, PTL DEF Spec

----------------------------------------------------------------------------
(* The order of the stages.                                                 *)

(* Initially no model has finished and the second stage is not open.        *)
LEMMA StageInit == Init => StageInv
<1> SUFFICES ASSUME Init PROVE StageInv
  OBVIOUS
<1>1. TypeOK
  BY TypeInit
<1>2. LastRound
  BY DEF Init, LastRound
<1>3. StageOrder
  BY SystemAssumption DEF Init, StageOrder
<1> QED
  BY <1>1, <1>2, <1>3 DEF StageInv

(* Answers come in a model's last round, and then it is marked finished.    *)
LEMMA LastRoundStep ==
    ASSUME TypeOK, LastRound, [Next]_vars
    PROVE  LastRound'
<1>1. ASSUME NEW m \in Model, Boot(m) PROVE LastRound'
  BY <1>1 DEF Boot, sharedVars, procVars, TypeOK, LastRound, Ended
<1>2. ASSUME NEW m \in Model, WriteSetting(m) PROVE LastRound'
  BY <1>2 DEF WriteSetting, Written, procVars, TypeOK, LastRound, Ended
<1>3. ASSUME NEW m \in Model, Settle(m) PROVE LastRound'
  BY <1>3 DEF Settle, sharedVars, procVars, TypeOK, LastRound, Ended
<1>4. CASE Booted
  BY <1>4 DEF Booted, sharedVars, procVars, TypeOK, LastRound, Ended
<1>5. CASE SetStarted
  BY <1>5 DEF SetStarted, TypeOK, LastRound, Ended
<1>6. CASE ClearEvent
  BY <1>6 DEF ClearEvent, Cleared, procVars, TypeOK, LastRound, Ended
<1>7. CASE Launched
  BY <1>7 DEF Launched, sharedVars, procVars, TypeOK, LastRound, Ended
<1>8. CASE Replan
  BY <1>8 DEF Replan, sharedVars, procVars, TypeOK, LastRound, Ended
<1>9. CASE StartStage1
  BY <1>9 DEF StartStage1, Stage1Due, procVars, TypeOK, LastRound, Ended
<1>10. CASE Stop
  BY <1>10 DEF Stop, Raised, Waited, procVars, TypeOK, LastRound, Ended
<1>11. CASE Settled
  BY <1>11 DEF Settled, sharedVars, procVars, TypeOK, LastRound, Ended
<1>12. CASE Teardown
  BY <1>12 DEF Teardown, sharedVars, procVars, TypeOK, LastRound, Ended
<1>13. ASSUME NEW m \in Model, Prepared(m) PROVE LastRound'
  BY <1>13 DEF Prepared, Step, mainVars, TypeOK, LastRound, Ended
<1>14. ASSUME NEW m \in Model, WaitStarted(m) PROVE LastRound'
  BY <1>14 DEF WaitStarted, Step, sharedVars, mainVars, TypeOK, LastRound, Ended
<1>15. ASSUME NEW m \in Model, ReadPlan(m) PROVE LastRound'
  BY <1>15 DEF ReadPlan, Step, sharedVars, mainVars, TypeOK, LastRound, Ended
<1>16. ASSUME NEW m \in Model, Loaded(m) PROVE LastRound'
  BY <1>16 DEF Loaded, Step, sharedVars, mainVars, TypeOK, LastRound, Ended
<1>17. ASSUME NEW m \in Model, Stopped(m) PROVE LastRound'
  BY <1>17 DEF Stopped, Step, ShouldReschedule, RoundMayEnd, sharedVars, mainVars, TypeOK,
     LastRound, Ended
<1>18. ASSUME NEW m \in Model, Complete(m) PROVE LastRound'
  BY <1>18 DEF Complete, Step, RoundMayEnd, mainVars, TypeOK, LastRound, Ended
<1>19. ASSUME NEW m \in Model, FreeGpus(m) PROVE LastRound'
  BY <1>19 DEF FreeGpus, Step, sharedVars, mainVars, TypeOK, LastRound, Ended
<1>20. ASSUME NEW m \in Model, Report(m) PROVE LastRound'
  BY <1>20 DEF Report, Step, FinishedNow, mainVars, TypeOK, LastRound, Ended
<1>21. ASSUME NEW m \in Model, Signal(m) PROVE LastRound'
  BY <1>21 DEF Signal, Step, mainVars, TypeOK, LastRound, Ended
<1>22. ASSUME NEW m \in Model, Loop(m) PROVE LastRound'
  BY <1>22 DEF Loop, Step, sharedVars, mainVars, TypeOK, LastRound, Ended
<1>23. ASSUME NEW m \in Model, CheckStarted(m) PROVE LastRound'
  BY <1>23 DEF CheckStarted, Step, sharedVars, mainVars, TypeOK, LastRound, Ended
<1>24. ASSUME NEW m \in Model, SignalAgain(m) PROVE LastRound'
  BY <1>24 DEF SignalAgain, Step, mainVars, TypeOK, LastRound, Ended
<1>25. ASSUME NEW m \in Model, Unblock(m) PROVE LastRound'
  BY <1>25 DEF Unblock, Step, Unblocked, mainVars, TypeOK, LastRound, Ended
<1>26. ASSUME NEW m \in Model, Die(m) PROVE LastRound'
  BY <1>26 DEF Die, Step, sharedVars, mainVars, TypeOK, LastRound, Ended
<1>27. ASSUME NEW m \in Model, Fail(m) PROVE LastRound'
  BY <1>27 DEF Fail, RoundMayEnd, sharedVars, mainVars, TypeOK, LastRound, Ended
<1>28. CASE UNCHANGED vars
  BY <1>28 DEF vars, sharedVars, mainVars, procVars, TypeOK, LastRound, Ended
<1>29. CASE Awaken
  BY <1>29 DEF Awaken, sharedVars, procVars, TypeOK, LastRound, Ended
<1> QED
  BY <1>1, <1>2, <1>3, <1>4, <1>5, <1>6, <1>7, <1>8, <1>9, <1>10, <1>11, <1>12, <1>13, <1>14,
     <1>15, <1>16, <1>17, <1>18, <1>19, <1>20, <1>21, <1>22, <1>23, <1>24, <1>25, <1>26, <1>27,
     <1>28, <1>29 DEF Next, MainNext, ProcNext, Terminated

(* A model that is finished stays finished.                                 *)
LEMMA FinishedStays ==
    ASSUME TypeOK, LastRound, [Next]_vars, NEW n \in Model, finished[n]
    PROVE  finished'[n]
<1>1. ASSUME NEW m \in Model, Boot(m) PROVE finished'[n]
  BY <1>1 DEF Boot, sharedVars, procVars, TypeOK, LastRound
<1>2. ASSUME NEW m \in Model, WriteSetting(m) PROVE finished'[n]
  BY <1>2 DEF WriteSetting, Written, procVars, TypeOK, LastRound
<1>3. ASSUME NEW m \in Model, Settle(m) PROVE finished'[n]
  BY <1>3 DEF Settle, sharedVars, procVars, TypeOK, LastRound
<1>4. CASE Booted
  BY <1>4 DEF Booted, sharedVars, procVars, TypeOK, LastRound
<1>5. CASE SetStarted
  BY <1>5 DEF SetStarted, TypeOK, LastRound
<1>6. CASE ClearEvent
  BY <1>6 DEF ClearEvent, Cleared, procVars, TypeOK, LastRound
<1>7. CASE Launched
  BY <1>7 DEF Launched, sharedVars, procVars, TypeOK, LastRound
<1>8. CASE Replan
  BY <1>8 DEF Replan, sharedVars, procVars, TypeOK, LastRound
<1>9. CASE StartStage1
  BY <1>9 DEF StartStage1, Stage1Due, procVars, TypeOK, LastRound
<1>10. CASE Stop
  BY <1>10 DEF Stop, Raised, Waited, procVars, TypeOK, LastRound
<1>11. CASE Settled
  BY <1>11 DEF Settled, sharedVars, procVars, TypeOK, LastRound
<1>12. CASE Teardown
  BY <1>12 DEF Teardown, sharedVars, procVars, TypeOK, LastRound
<1>13. ASSUME NEW m \in Model, Prepared(m) PROVE finished'[n]
  BY <1>13 DEF Prepared, Step, mainVars, TypeOK, LastRound
<1>14. ASSUME NEW m \in Model, WaitStarted(m) PROVE finished'[n]
  BY <1>14 DEF WaitStarted, Step, sharedVars, mainVars, TypeOK, LastRound
<1>15. ASSUME NEW m \in Model, ReadPlan(m) PROVE finished'[n]
  BY <1>15 DEF ReadPlan, Step, sharedVars, mainVars, TypeOK, LastRound
<1>16. ASSUME NEW m \in Model, Loaded(m) PROVE finished'[n]
  BY <1>16 DEF Loaded, Step, sharedVars, mainVars, TypeOK, LastRound
<1>17. ASSUME NEW m \in Model, Stopped(m) PROVE finished'[n]
  BY <1>17 DEF Stopped, Step, ShouldReschedule, RoundMayEnd, sharedVars, mainVars, TypeOK,
     LastRound
<1>18. ASSUME NEW m \in Model, Complete(m) PROVE finished'[n]
  BY <1>18 DEF Complete, Step, RoundMayEnd, mainVars, TypeOK, LastRound
<1>19. ASSUME NEW m \in Model, FreeGpus(m) PROVE finished'[n]
  BY <1>19 DEF FreeGpus, Step, sharedVars, mainVars, TypeOK, LastRound
<1>20. ASSUME NEW m \in Model, Report(m) PROVE finished'[n]
  BY <1>20 DEF Report, Step, FinishedNow, mainVars, TypeOK, LastRound
<1>21. ASSUME NEW m \in Model, Signal(m) PROVE finished'[n]
  BY <1>21 DEF Signal, Step, mainVars, TypeOK, LastRound
<1>22. ASSUME NEW m \in Model, Loop(m) PROVE finished'[n]
  BY <1>22 DEF Loop, Step, sharedVars, mainVars, TypeOK, LastRound
<1>23. ASSUME NEW m \in Model, CheckStarted(m) PROVE finished'[n]
  BY <1>23 DEF CheckStarted, Step, sharedVars, mainVars, TypeOK, LastRound
<1>24. ASSUME NEW m \in Model, SignalAgain(m) PROVE finished'[n]
  BY <1>24 DEF SignalAgain, Step, mainVars, TypeOK, LastRound
<1>25. ASSUME NEW m \in Model, Unblock(m) PROVE finished'[n]
  BY <1>25 DEF Unblock, Step, Unblocked, mainVars, TypeOK, LastRound
<1>26. ASSUME NEW m \in Model, Die(m) PROVE finished'[n]
  BY <1>26 DEF Die, Step, sharedVars, mainVars, TypeOK, LastRound
<1>27. ASSUME NEW m \in Model, Fail(m) PROVE finished'[n]
  BY <1>27 DEF Fail, RoundMayEnd, sharedVars, mainVars, TypeOK, LastRound
<1>28. CASE UNCHANGED vars
  BY <1>28 DEF vars, sharedVars, mainVars, procVars, TypeOK, LastRound
<1>29. CASE Awaken
  BY <1>29 DEF Awaken, sharedVars, procVars, TypeOK, LastRound
<1> QED
  BY <1>1, <1>2, <1>3, <1>4, <1>5, <1>6, <1>7, <1>8, <1>9, <1>10, <1>11, <1>12, <1>13, <1>14,
     <1>15, <1>16, <1>17, <1>18, <1>19, <1>20, <1>21, <1>22, <1>23, <1>24, <1>25, <1>26, <1>27,
     <1>28, <1>29 DEF Next, MainNext, ProcNext, Terminated

(* start_stage1_if_possible opens the second stage after the first, and     *)
(* wait_for_stage1_to_start keeps Late models from running before it.       *)
LEMMA StageOrderStep ==
    ASSUME TypeOK, LastRound, StageOrder, [Next]_vars
    PROVE  StageOrder'
<1>1. stage1' => \A n \in Model \ Late : finished'[n]
  <2>1. ASSUME stage1, NEW n \in Model \ Late PROVE finished'[n]
    BY <2>1, FinishedStays DEF StageOrder
  <2>2. ASSUME ~stage1, stage1' PROVE StartStage1
    BY <2>2 DEF Next, MainNext, ProcNext, Terminated, Boot, WriteSetting, Settle, Booted,
       SetStarted, ClearEvent, Launched, Awaken, Replan, Stop, Settled, Teardown, Prepared,
       WaitStarted, ReadPlan, Loaded, Stopped, Complete, FreeGpus, Report, Signal, Loop,
       CheckStarted, SignalAgain, Unblock, Die, Fail, vars, sharedVars
  <2>3. ASSUME ~stage1, stage1', NEW n \in Model \ Late PROVE finished'[n]
    BY <2>2, <2>3 DEF StartStage1, Stage1Due
  <2> QED
    BY <2>1, <2>3
<1>2. \A m \in Late : pc'[m] \in {"run", "wrap"} => stage1'
  <2>1. ASSUME NEW p \in Model, Boot(p) PROVE \A m \in Late : pc'[m] \in {"run", "wrap"} => stage1'
    BY <2>1, SystemAssumption DEF Boot, sharedVars, procVars, TypeOK, StageOrder
  <2>2. ASSUME NEW p \in Model, WriteSetting(p) PROVE \A m \in Late : pc'[m] \in {"run", "wrap"} => stage1'
    BY <2>2, SystemAssumption DEF WriteSetting, Written, procVars, TypeOK, StageOrder
  <2>3. ASSUME NEW p \in Model, Settle(p) PROVE \A m \in Late : pc'[m] \in {"run", "wrap"} => stage1'
    BY <2>3, SystemAssumption DEF Settle, sharedVars, procVars, TypeOK, StageOrder
  <2>4. CASE Booted
    BY <2>4, SystemAssumption DEF Booted, sharedVars, procVars, TypeOK, StageOrder
  <2>5. CASE SetStarted
    BY <2>5, SystemAssumption DEF SetStarted, TypeOK, StageOrder
  <2>6. CASE ClearEvent
    BY <2>6, SystemAssumption DEF ClearEvent, Cleared, procVars, TypeOK, StageOrder
  <2>7. CASE Launched
    BY <2>7, SystemAssumption DEF Launched, sharedVars, procVars, TypeOK, StageOrder
  <2>8. CASE Replan
    BY <2>8, SystemAssumption DEF Replan, sharedVars, procVars, TypeOK, StageOrder
  <2>9. CASE StartStage1
    BY <2>9, SystemAssumption DEF StartStage1, Stage1Due, procVars, TypeOK, StageOrder
  <2>10. CASE Stop
    BY <2>10, SystemAssumption DEF Stop, Raised, Waited, procVars, TypeOK, StageOrder
  <2>11. CASE Settled
    BY <2>11, SystemAssumption DEF Settled, sharedVars, procVars, TypeOK, StageOrder
  <2>12. CASE Teardown
    BY <2>12, SystemAssumption DEF Teardown, sharedVars, procVars, TypeOK, StageOrder
  <2>13. ASSUME NEW p \in Model, Prepared(p) PROVE \A m \in Late : pc'[m] \in {"run", "wrap"} => stage1'
    BY <2>13, SystemAssumption DEF Prepared, Step, mainVars, TypeOK, StageOrder
  <2>14. ASSUME NEW p \in Model, WaitStarted(p) PROVE \A m \in Late : pc'[m] \in {"run", "wrap"} => stage1'
    BY <2>14, SystemAssumption DEF WaitStarted, Step, sharedVars, mainVars, TypeOK, StageOrder
  <2>15. ASSUME NEW p \in Model, ReadPlan(p) PROVE \A m \in Late : pc'[m] \in {"run", "wrap"} => stage1'
    BY <2>15, SystemAssumption DEF ReadPlan, Step, sharedVars, mainVars, TypeOK, StageOrder
  <2>16. ASSUME NEW p \in Model, Loaded(p) PROVE \A m \in Late : pc'[m] \in {"run", "wrap"} => stage1'
    BY <2>16, SystemAssumption DEF Loaded, Step, sharedVars, mainVars, TypeOK, StageOrder
  <2>17. ASSUME NEW p \in Model, Stopped(p) PROVE \A m \in Late : pc'[m] \in {"run", "wrap"} => stage1'
    BY <2>17, SystemAssumption DEF Stopped, Step, ShouldReschedule, RoundMayEnd, sharedVars,
       mainVars, TypeOK, StageOrder
  <2>18. ASSUME NEW p \in Model, Complete(p) PROVE \A m \in Late : pc'[m] \in {"run", "wrap"} => stage1'
    BY <2>18, SystemAssumption DEF Complete, Step, RoundMayEnd, mainVars, TypeOK, StageOrder
  <2>19. ASSUME NEW p \in Model, FreeGpus(p) PROVE \A m \in Late : pc'[m] \in {"run", "wrap"} => stage1'
    BY <2>19, SystemAssumption DEF FreeGpus, Step, sharedVars, mainVars, TypeOK, StageOrder
  <2>20. ASSUME NEW p \in Model, Report(p) PROVE \A m \in Late : pc'[m] \in {"run", "wrap"} => stage1'
    BY <2>20, SystemAssumption DEF Report, Step, FinishedNow, mainVars, TypeOK, StageOrder
  <2>21. ASSUME NEW p \in Model, Signal(p) PROVE \A m \in Late : pc'[m] \in {"run", "wrap"} => stage1'
    BY <2>21, SystemAssumption DEF Signal, Step, mainVars, TypeOK, StageOrder
  <2>22. ASSUME NEW p \in Model, Loop(p) PROVE \A m \in Late : pc'[m] \in {"run", "wrap"} => stage1'
    BY <2>22, SystemAssumption DEF Loop, Step, sharedVars, mainVars, TypeOK, StageOrder
  <2>23. ASSUME NEW p \in Model, CheckStarted(p) PROVE \A m \in Late : pc'[m] \in {"run", "wrap"} => stage1'
    BY <2>23, SystemAssumption DEF CheckStarted, Step, sharedVars, mainVars, TypeOK, StageOrder
  <2>24. ASSUME NEW p \in Model, SignalAgain(p) PROVE \A m \in Late : pc'[m] \in {"run", "wrap"} => stage1'
    BY <2>24, SystemAssumption DEF SignalAgain, Step, mainVars, TypeOK, StageOrder
  <2>25. ASSUME NEW p \in Model, Unblock(p) PROVE \A m \in Late : pc'[m] \in {"run", "wrap"} => stage1'
    BY <2>25, SystemAssumption DEF Unblock, Step, Unblocked, mainVars, TypeOK, StageOrder
  <2>26. ASSUME NEW p \in Model, Die(p) PROVE \A m \in Late : pc'[m] \in {"run", "wrap"} => stage1'
    BY <2>26, SystemAssumption DEF Die, Step, sharedVars, mainVars, TypeOK, StageOrder
  <2>27. ASSUME NEW p \in Model, Fail(p) PROVE \A m \in Late : pc'[m] \in {"run", "wrap"} => stage1'
    BY <2>27, SystemAssumption DEF Fail, RoundMayEnd, sharedVars, mainVars, TypeOK, StageOrder
  <2>28. CASE UNCHANGED vars
    BY <2>28, SystemAssumption DEF vars, sharedVars, mainVars, procVars, TypeOK, StageOrder
  <2>29. CASE Awaken
    BY <2>29, SystemAssumption DEF Awaken, sharedVars, procVars, TypeOK, StageOrder
  <2> QED
    BY <2>1, <2>2, <2>3, <2>4, <2>5, <2>6, <2>7, <2>8, <2>9, <2>10, <2>11, <2>12, <2>13, <2>14,
       <2>15, <2>16, <2>17, <2>18, <2>19, <2>20, <2>21, <2>22, <2>23, <2>24, <2>25, <2>26, <2>27,
       <2>28, <2>29 DEF Next, MainNext, ProcNext, Terminated
<1> QED
  BY <1>1, <1>2 DEF StageOrder

(* Every step keeps the invariant of the two stages.                        *)
LEMMA StageStep == StageInv /\ [Next]_vars => StageInv'
<1> SUFFICES ASSUME StageInv, [Next]_vars PROVE StageInv'
  OBVIOUS
<1>1. TypeOK'
  BY TypeStep DEF StageInv
<1>2. LastRound'
  BY LastRoundStep DEF StageInv
<1>3. StageOrder'
  BY StageOrderStep DEF StageInv
<1> QED
  BY <1>1, <1>2, <1>3 DEF StageInv

(* LateAfterFirstStage: a model that waits for the second stage runs only   *)
(* when every model of the first has finished (start_stage1_if_possible,    *)
(* wait_for_stage1_to_start, set_finished).                                 *)
THEOREM SecondStageWaits == Spec => []LateAfterFirstStage
<1>1. StageInv => LateAfterFirstStage
  BY DEF StageInv, StageOrder, LateAfterFirstStage
<1> QED
  BY <1>1, StageInit, StageStep, PTL DEF Spec

----------------------------------------------------------------------------
(* Exclusive GPUs.                                                          *)

(* No two modelsets share a GPU, so the HybridFlow plan is disjoint.        *)
LEMMA ColumnPlanDisjoint ==
    ASSUME NEW col,
           \A k \in DOMAIN Columns : col[k] \in DOMAIN Columns[k]
    PROVE  Disjoint(ColumnPlan(col))
<1> SUFFICES ASSUME NEW m \in Model, NEW n \in Model, m # n,
                    NEW g \in ColumnPlan(col)[m] \cap ColumnPlan(col)[n]
             PROVE  FALSE
  BY DEF Disjoint
<1>1. PICK j \in DOMAIN Columns : Columns[j][col[j]] = m /\ g \in GpusOf[j]
  BY DEF ColumnPlan
<1>2. PICK k \in DOMAIN Columns : Columns[k][col[k]] = n /\ g \in GpusOf[k]
  BY DEF ColumnPlan
<1>3. j # k
  BY <1>1, <1>2
<1> QED
  BY <1>1, <1>2, <1>3, ColumnAssumption

(* A running model that the next HybridFlow round does not stop keeps its   *)
(* GPUs: only its own modelset could give it others.                        *)
LEMMA HybridFlowKeeps ==
    ASSUME TypeOK, NEW over \in SUBSET Model, ReplanHybridFlow(over),
           plan = ColumnPlan(column),
           NEW m \in Model \ todo', plan[m] # {}
    PROVE  plan'[m] = plan[m]
<1> DEFINE overCols == {k \in DOMAIN Columns : Columns[k][column[k]] \in over}
           moving == {k \in overCols : target[k] <= Len(Columns[k])}
           next == [k \in DOMAIN Columns |-> IF k \in moving THEN target[k] ELSE column[k]]
<1>1. /\ plan' = ColumnPlan(next)
      /\ todo' = {Columns[k][column[k]] : k \in overCols}
  BY DEF ReplanHybridFlow
<1>2. PICK j \in DOMAIN Columns : Columns[j][column[j]] = m
  BY DEF ColumnPlan
<1>3. j \notin moving
  BY <1>1, <1>2
<1>4. \A k \in DOMAIN Columns : next[k] \in DOMAIN Columns[k] /\ column[k] \in DOMAIN Columns[k]
  <2>1. \A k \in DOMAIN Columns : DOMAIN Columns[k] = 1 .. Len(Columns[k]) /\ Len(Columns[k]) \in Nat
    BY ColumnAssumption
  <2> QED
    BY <2>1 DEF TypeOK
<1>5. \A k \in DOMAIN Columns : Columns[k][next[k]] = m <=> k = j
  BY <1>2, <1>3, <1>4, ColumnAssumption
<1>6. \A k \in DOMAIN Columns : Columns[k][column[k]] = m <=> k = j
  BY <1>2, <1>4, ColumnAssumption
<1> HIDE DEF next
<1>7. {k \in DOMAIN Columns : Columns[k][next[k]] = m}
        = {k \in DOMAIN Columns : Columns[k][column[k]] = m}
  BY <1>5, <1>6
<1> QED
  BY <1>1, <1>7 DEF ColumnPlan

(* Under both policies the next plan is disjoint, and a model that has GPUs *)
(* and is not stopped keeps them.                                           *)
LEMMA ReplanKeeps ==
    ASSUME TypeOK, ByColumns, Replan
    PROVE  /\ Disjoint(plan')
           /\ ByColumns'
           /\ \A m \in Model \ todo' : plan[m] # {} => plan'[m] = plan[m]
<1>1. CASE Preemptive
  <2>1. PICK over \in SUBSET Model : ReplanPreemptive(over)
    BY <1>1 DEF Replan
  <2>2. Disjoint(plan')
    BY <2>1, PlansType DEF ReplanPreemptive
  <2>3. \A m \in Model \ todo' : plan[m] # {} => plan'[m] = plan[m]
    BY <2>1 DEF ReplanPreemptive
  <2> QED
    BY <1>1, <2>2, <2>3 DEF ByColumns
<1>2. CASE ~Preemptive
  <2>1. PICK over \in SUBSET Model : ReplanHybridFlow(over)
    BY <1>2 DEF Replan
  <2>2. plan' = ColumnPlan(column') /\ \A k \in DOMAIN Columns : column'[k] \in DOMAIN Columns[k]
    BY <2>1, ReplanHybridFlowType
  <2>3. Disjoint(ColumnPlan(column'))
    BY <2>2, ColumnPlanDisjoint
  <2>4. \A m \in Model \ todo' : plan[m] # {} => plan'[m] = plan[m]
    BY <1>2, <2>1, HybridFlowKeeps DEF ByColumns
  <2> QED
    BY <2>2, <2>3, <2>4 DEF ByColumns
<1> QED
  BY <1>1, <1>2

(* Initially no process holds a GPU.                                        *)
LEMMA ExclusionInit == Init => ExclusionInv
<1> SUFFICES ASSUME Init PROVE ExclusionInv
  OBVIOUS
<1>1. StageInv
  BY StageInit
<1>2. StartedOnce /\ EventMeansOff /\ Starting /\ Bookkeeping
  BY DEF Init, StartedOnce, EventMeansOff, Starting, Bookkeeping, NoModel
<1>3. ByColumns
  BY DEF Init, ByColumns, FirstPlans
<1>4. Disjoint(plan)
  <2>1. CASE Preemptive
    BY <2>1, PlansType DEF Init, FirstPlans
  <2>2. CASE ~Preemptive
    <3>1. \A k \in DOMAIN Columns : FirstColumn[k] \in DOMAIN Columns[k]
      BY ColumnAssumption DEF FirstColumn
    <3> QED
      BY <2>2, <3>1, ColumnPlanDisjoint DEF Init, FirstPlans
  <2> QED
    BY <2>1, <2>2
<1>5. \A m \in Model : Held(m) = {}
  BY DEF Init, Held
<1> QED
  BY <1>1, <1>2, <1>3, <1>4, <1>5 DEF ExclusionInv, Holding

(* Only start_specific_models starts a process, and the process takes note  *)
(* before it can wait to be started again.                                  *)
LEMMA StartedOnceStep ==
    ASSUME StageInv, StartedOnce, Starting, Prompt, ~QuickRounds, [Next]_vars
    PROVE  StartedOnce'
<1> USE DEF StageInv
<1>1. ASSUME NEW m \in Model, Boot(m) PROVE StartedOnce'
  BY <1>1 DEF Boot, sharedVars, procVars, TypeOK, LastRound, StartedOnce, Starting
<1>2. ASSUME NEW m \in Model, WriteSetting(m) PROVE StartedOnce'
  BY <1>2 DEF WriteSetting, Written, procVars, TypeOK, LastRound, StartedOnce, Starting
<1>3. ASSUME NEW m \in Model, Settle(m) PROVE StartedOnce'
  BY <1>3 DEF Settle, sharedVars, procVars, TypeOK, LastRound, StartedOnce, Starting
<1>4. CASE Booted
  BY <1>4 DEF Booted, sharedVars, procVars, TypeOK, LastRound, StartedOnce, Starting
<1>5. CASE SetStarted
  BY <1>5 DEF SetStarted, TypeOK, LastRound, StartedOnce, Starting
<1>6. CASE ClearEvent
  BY <1>6 DEF ClearEvent, Cleared, procVars, TypeOK, LastRound, StartedOnce, Starting
<1>7. CASE Launched
  BY <1>7 DEF Launched, sharedVars, procVars, TypeOK, LastRound, StartedOnce, Starting
<1>8. CASE Replan
  BY <1>8 DEF Replan, sharedVars, procVars, TypeOK, LastRound, StartedOnce, Starting
<1>9. CASE StartStage1
  BY <1>9 DEF StartStage1, Stage1Due, procVars, TypeOK, LastRound, StartedOnce, Starting
<1>10. CASE Stop
  BY <1>10 DEF Stop, Raised, Waited, procVars, TypeOK, LastRound, StartedOnce, Starting
<1>11. CASE Settled
  BY <1>11 DEF Settled, sharedVars, procVars, TypeOK, LastRound, StartedOnce, Starting
<1>12. CASE Teardown
  BY <1>12 DEF Teardown, sharedVars, procVars, TypeOK, LastRound, StartedOnce, Starting
<1>13. ASSUME NEW m \in Model, Prepared(m) PROVE StartedOnce'
  BY <1>13 DEF Prepared, Step, mainVars, TypeOK, LastRound, StartedOnce, Starting
<1>14. ASSUME NEW m \in Model, WaitStarted(m) PROVE StartedOnce'
  BY <1>14 DEF WaitStarted, Step, sharedVars, mainVars, TypeOK, LastRound, StartedOnce, Starting
<1>15. ASSUME NEW m \in Model, ReadPlan(m) PROVE StartedOnce'
  BY <1>15 DEF ReadPlan, Step, sharedVars, mainVars, TypeOK, LastRound, StartedOnce, Starting
<1>16. ASSUME NEW m \in Model, Loaded(m) PROVE StartedOnce'
  BY <1>16 DEF Loaded, Step, sharedVars, mainVars, TypeOK, LastRound, StartedOnce, Starting
<1>17. ASSUME NEW m \in Model, Stopped(m) PROVE StartedOnce'
  BY <1>17 DEF Stopped, Step, ShouldReschedule, RoundMayEnd, sharedVars, mainVars, TypeOK,
     LastRound, StartedOnce, Starting
<1>18. ASSUME NEW m \in Model, Complete(m) PROVE StartedOnce'
  BY <1>18 DEF Complete, Step, RoundMayEnd, mainVars, TypeOK, LastRound, StartedOnce, Starting
<1>19. ASSUME NEW m \in Model, FreeGpus(m) PROVE StartedOnce'
  BY <1>19 DEF FreeGpus, Step, sharedVars, mainVars, TypeOK, LastRound, StartedOnce, Starting
<1>20. ASSUME NEW m \in Model, Report(m) PROVE StartedOnce'
  BY <1>20 DEF Report, Step, FinishedNow, mainVars, TypeOK, LastRound, StartedOnce, Starting
<1>21. ASSUME NEW m \in Model, Signal(m) PROVE StartedOnce'
  BY <1>21 DEF Signal, Step, mainVars, TypeOK, LastRound, StartedOnce, Starting
<1>22. ASSUME NEW m \in Model, Loop(m) PROVE StartedOnce'
  BY <1>22 DEF Loop, Step, sharedVars, mainVars, TypeOK, LastRound, StartedOnce, Starting
<1>23. ASSUME NEW m \in Model, CheckStarted(m) PROVE StartedOnce'
  BY <1>23 DEF CheckStarted, Step, sharedVars, mainVars, TypeOK, LastRound, StartedOnce,
     Starting
<1>24. ASSUME NEW m \in Model, SignalAgain(m) PROVE StartedOnce'
  BY <1>24 DEF SignalAgain, Step, mainVars, TypeOK, LastRound, StartedOnce, Starting
<1>25. ASSUME NEW m \in Model, Unblock(m) PROVE StartedOnce'
  BY <1>25 DEF Unblock, Step, Unblocked, mainVars, TypeOK, LastRound, StartedOnce, Starting
<1>26. ASSUME NEW m \in Model, Die(m) PROVE StartedOnce'
  BY <1>26 DEF Die, Step, sharedVars, mainVars, TypeOK, LastRound, StartedOnce, Starting
<1>27. ASSUME NEW m \in Model, Fail(m) PROVE StartedOnce'
  BY <1>27 DEF Fail, RoundMayEnd, sharedVars, mainVars, TypeOK, LastRound, StartedOnce, Starting
<1>28. CASE UNCHANGED vars
  BY <1>28 DEF vars, sharedVars, mainVars, procVars, TypeOK, LastRound, StartedOnce, Starting
<1>29. CASE Awaken
  BY <1>29 DEF Awaken, sharedVars, procVars, TypeOK, LastRound, StartedOnce, Starting
<1> QED
  BY <1>1, <1>2, <1>3, <1>4, <1>5, <1>6, <1>7, <1>8, <1>9, <1>10, <1>11, <1>12, <1>13, <1>14,
     <1>15, <1>16, <1>17, <1>18, <1>19, <1>20, <1>21, <1>22, <1>23, <1>24, <1>25, <1>26, <1>27,
     <1>28, <1>29 DEF Next, MainNext, ProcNext, Terminated

(* A process sets its event when it has given up its GPUs, and the event is *)
(* cleared before the process, started again, can signal (~QuickRounds).    *)
LEMMA EventStep ==
    ASSUME TypeOK, StartedOnce, EventMeansOff, Starting, ~QuickRounds, [Next]_vars
    PROVE  EventMeansOff'
<1>1. ASSUME NEW m \in Model, Boot(m) PROVE EventMeansOff'
  BY <1>1 DEF Boot, sharedVars, procVars, TypeOK, EventMeansOff, Starting
<1>2. ASSUME NEW m \in Model, WriteSetting(m) PROVE EventMeansOff'
  BY <1>2 DEF WriteSetting, Written, procVars, TypeOK, EventMeansOff, Starting
<1>3. ASSUME NEW m \in Model, Settle(m) PROVE EventMeansOff'
  BY <1>3 DEF Settle, sharedVars, procVars, TypeOK, EventMeansOff, Starting
<1>4. CASE Booted
  BY <1>4 DEF Booted, sharedVars, procVars, TypeOK, EventMeansOff, Starting
<1>5. CASE SetStarted
  BY <1>5 DEF SetStarted, TypeOK, EventMeansOff, Starting
<1>6. CASE ClearEvent
  BY <1>6 DEF ClearEvent, Cleared, procVars, TypeOK, EventMeansOff, Starting
<1>7. CASE Launched
  BY <1>7 DEF Launched, sharedVars, procVars, TypeOK, EventMeansOff, Starting
<1>8. CASE Replan
  BY <1>8 DEF Replan, sharedVars, procVars, TypeOK, EventMeansOff, Starting
<1>9. CASE StartStage1
  BY <1>9 DEF StartStage1, Stage1Due, procVars, TypeOK, EventMeansOff, Starting
<1>10. CASE Stop
  BY <1>10 DEF Stop, Raised, Waited, procVars, TypeOK, EventMeansOff, Starting
<1>11. CASE Settled
  BY <1>11 DEF Settled, sharedVars, procVars, TypeOK, EventMeansOff, Starting
<1>12. CASE Teardown
  BY <1>12 DEF Teardown, sharedVars, procVars, TypeOK, EventMeansOff, Starting
<1>13. ASSUME NEW m \in Model, Prepared(m) PROVE EventMeansOff'
  BY <1>13 DEF Prepared, Step, mainVars, TypeOK, EventMeansOff, Starting
<1>14. ASSUME NEW m \in Model, WaitStarted(m) PROVE EventMeansOff'
  BY <1>14 DEF WaitStarted, Step, sharedVars, mainVars, TypeOK, StartedOnce, EventMeansOff
<1>15. ASSUME NEW m \in Model, ReadPlan(m) PROVE EventMeansOff'
  BY <1>15 DEF ReadPlan, Step, sharedVars, mainVars, TypeOK, EventMeansOff, Starting
<1>16. ASSUME NEW m \in Model, Loaded(m) PROVE EventMeansOff'
  BY <1>16 DEF Loaded, Step, sharedVars, mainVars, TypeOK, EventMeansOff, Starting
<1>17. ASSUME NEW m \in Model, Stopped(m) PROVE EventMeansOff'
  BY <1>17 DEF Stopped, Step, ShouldReschedule, RoundMayEnd, sharedVars, mainVars, TypeOK,
     EventMeansOff, Starting
<1>18. ASSUME NEW m \in Model, Complete(m) PROVE EventMeansOff'
  BY <1>18 DEF Complete, Step, RoundMayEnd, mainVars, TypeOK, EventMeansOff, Starting
<1>19. ASSUME NEW m \in Model, FreeGpus(m) PROVE EventMeansOff'
  BY <1>19 DEF FreeGpus, Step, sharedVars, mainVars, TypeOK, EventMeansOff, Starting
<1>20. ASSUME NEW m \in Model, Report(m) PROVE EventMeansOff'
  BY <1>20 DEF Report, Step, FinishedNow, mainVars, TypeOK, EventMeansOff, Starting
<1>21. ASSUME NEW m \in Model, Signal(m) PROVE EventMeansOff'
  BY <1>21 DEF Signal, Step, mainVars, TypeOK, EventMeansOff, Starting
<1>22. ASSUME NEW m \in Model, Loop(m) PROVE EventMeansOff'
  BY <1>22 DEF Loop, Step, sharedVars, mainVars, TypeOK, EventMeansOff, Starting
<1>23. ASSUME NEW m \in Model, CheckStarted(m) PROVE EventMeansOff'
  BY <1>23 DEF CheckStarted, Step, sharedVars, mainVars, TypeOK, EventMeansOff, Starting
<1>24. ASSUME NEW m \in Model, SignalAgain(m) PROVE EventMeansOff'
  BY <1>24 DEF SignalAgain, Step, mainVars, TypeOK, EventMeansOff, Starting
<1>25. ASSUME NEW m \in Model, Unblock(m) PROVE EventMeansOff'
  BY <1>25 DEF Unblock, Step, Unblocked, mainVars, TypeOK, EventMeansOff, Starting
<1>26. ASSUME NEW m \in Model, Die(m) PROVE EventMeansOff'
  BY <1>26 DEF Die, Step, sharedVars, mainVars, TypeOK, EventMeansOff, Starting
<1>27. ASSUME NEW m \in Model, Fail(m) PROVE EventMeansOff'
  BY <1>27 DEF Fail, RoundMayEnd, sharedVars, mainVars, TypeOK, EventMeansOff, Starting
<1>28. CASE UNCHANGED vars
  BY <1>28 DEF vars, sharedVars, mainVars, procVars, TypeOK, EventMeansOff, Starting
<1>29. CASE Awaken
  BY <1>29 DEF Awaken, sharedVars, procVars, TypeOK, EventMeansOff, Starting
<1> QED
  BY <1>1, <1>2, <1>3, <1>4, <1>5, <1>6, <1>7, <1>8, <1>9, <1>10, <1>11, <1>12, <1>13, <1>14,
     <1>15, <1>16, <1>17, <1>18, <1>19, <1>20, <1>21, <1>22, <1>23, <1>24, <1>25, <1>26, <1>27,
     <1>28, <1>29 DEF Next, MainNext, ProcNext, Terminated

(* The process that start_specific_models starts waits to be started, or    *)
(* has ended (Prompt).                                                      *)
LEMMA StartingStep ==
    ASSUME TypeOK, StartedOnce, Starting, Prompt, ~QuickRounds, [Next]_vars
    PROVE  Starting'
<1>1. ASSUME NEW m \in Model, Boot(m) PROVE Starting'
  BY <1>1 DEF Boot, sharedVars, procVars, TypeOK, StartedOnce, Starting, Ended
<1>2. ASSUME NEW m \in Model, WriteSetting(m) PROVE Starting'
  BY <1>2 DEF WriteSetting, Written, procVars, TypeOK, StartedOnce, Starting, Ended
<1>3. ASSUME NEW m \in Model, Settle(m) PROVE Starting'
  BY <1>3 DEF Settle, sharedVars, procVars, TypeOK, StartedOnce, Starting, Ended
<1>4. CASE Booted
  BY <1>4 DEF Booted, sharedVars, procVars, TypeOK, StartedOnce, Starting, Ended
<1>5. CASE SetStarted
  BY <1>5 DEF SetStarted, TypeOK, StartedOnce, Starting, Ended
<1>6. CASE ClearEvent
  BY <1>6 DEF ClearEvent, Cleared, procVars, TypeOK, StartedOnce, Starting, Ended
<1>7. CASE Launched
  BY <1>7 DEF Launched, sharedVars, procVars, TypeOK, StartedOnce, Starting, Ended
<1>8. CASE Replan
  BY <1>8 DEF Replan, sharedVars, procVars, TypeOK, StartedOnce, Starting, Ended
<1>9. CASE StartStage1
  BY <1>9 DEF StartStage1, Stage1Due, procVars, TypeOK, StartedOnce, Starting, Ended
<1>10. CASE Stop
  BY <1>10 DEF Stop, Raised, Waited, procVars, TypeOK, StartedOnce, Starting, Ended
<1>11. CASE Settled
  BY <1>11 DEF Settled, sharedVars, procVars, TypeOK, StartedOnce, Starting, Ended
<1>12. CASE Teardown
  BY <1>12 DEF Teardown, sharedVars, procVars, TypeOK, StartedOnce, Starting, Ended
<1>13. ASSUME NEW m \in Model, Prepared(m) PROVE Starting'
  BY <1>13 DEF Prepared, Step, mainVars, TypeOK, StartedOnce, Starting, Ended
<1>14. ASSUME NEW m \in Model, WaitStarted(m) PROVE Starting'
  BY <1>14 DEF WaitStarted, Step, sharedVars, mainVars, TypeOK, StartedOnce, Starting, Ended
<1>15. ASSUME NEW m \in Model, ReadPlan(m) PROVE Starting'
  BY <1>15 DEF ReadPlan, Step, sharedVars, mainVars, TypeOK, StartedOnce, Starting, Ended
<1>16. ASSUME NEW m \in Model, Loaded(m) PROVE Starting'
  BY <1>16 DEF Loaded, Step, sharedVars, mainVars, TypeOK, StartedOnce, Starting, Ended
<1>17. ASSUME NEW m \in Model, Stopped(m) PROVE Starting'
  BY <1>17 DEF Stopped, Step, ShouldReschedule, RoundMayEnd, sharedVars, mainVars, TypeOK,
     StartedOnce, Starting, Ended
<1>18. ASSUME NEW m \in Model, Complete(m) PROVE Starting'
  BY <1>18 DEF Complete, Step, RoundMayEnd, mainVars, TypeOK, StartedOnce, Starting, Ended
<1>19. ASSUME NEW m \in Model, FreeGpus(m) PROVE Starting'
  BY <1>19 DEF FreeGpus, Step, sharedVars, mainVars, TypeOK, StartedOnce, Starting, Ended
<1>20. ASSUME NEW m \in Model, Report(m) PROVE Starting'
  BY <1>20 DEF Report, Step, FinishedNow, mainVars, TypeOK, StartedOnce, Starting, Ended
<1>21. ASSUME NEW m \in Model, Signal(m) PROVE Starting'
  BY <1>21 DEF Signal, Step, mainVars, TypeOK, StartedOnce, Starting, Ended
<1>22. ASSUME NEW m \in Model, Loop(m) PROVE Starting'
  BY <1>22 DEF Loop, Step, sharedVars, mainVars, TypeOK, StartedOnce, Starting, Ended
<1>23. ASSUME NEW m \in Model, CheckStarted(m) PROVE Starting'
  BY <1>23 DEF CheckStarted, Step, sharedVars, mainVars, TypeOK, StartedOnce, Starting, Ended
<1>24. ASSUME NEW m \in Model, SignalAgain(m) PROVE Starting'
  BY <1>24 DEF SignalAgain, Step, mainVars, TypeOK, StartedOnce, Starting, Ended
<1>25. ASSUME NEW m \in Model, Unblock(m) PROVE Starting'
  BY <1>25 DEF Unblock, Step, Unblocked, mainVars, TypeOK, StartedOnce, Starting, Ended
<1>26. ASSUME NEW m \in Model, Die(m) PROVE Starting'
  BY <1>26 DEF Die, Step, sharedVars, mainVars, TypeOK, StartedOnce, Starting, Ended
<1>27. ASSUME NEW m \in Model, Fail(m) PROVE Starting'
  BY <1>27 DEF Fail, RoundMayEnd, sharedVars, mainVars, TypeOK, StartedOnce, Starting, Ended
<1>28. CASE UNCHANGED vars
  BY <1>28 DEF vars, sharedVars, mainVars, procVars, TypeOK, StartedOnce, Starting, Ended
<1>29. CASE Awaken
  BY <1>29 DEF Awaken, sharedVars, procVars, TypeOK, StartedOnce, Starting, Ended
<1> QED
  BY <1>1, <1>2, <1>3, <1>4, <1>5, <1>6, <1>7, <1>8, <1>9, <1>10, <1>11, <1>12, <1>13, <1>14,
     <1>15, <1>16, <1>17, <1>18, <1>19, <1>20, <1>21, <1>22, <1>23, <1>24, <1>25, <1>26, <1>27,
     <1>28, <1>29 DEF Next, MainNext, ProcNext, Terminated

(* A process without a plan has no GPUs, and only an ended one is done.     *)
LEMMA BookkeepingStep ==
    ASSUME TypeOK, Bookkeeping, [Next]_vars
    PROVE  Bookkeeping'
<1>1. ASSUME NEW m \in Model, Boot(m) PROVE Bookkeeping'
  BY <1>1 DEF Boot, sharedVars, procVars, TypeOK, Bookkeeping, Ended
<1>2. ASSUME NEW m \in Model, WriteSetting(m) PROVE Bookkeeping'
  BY <1>2 DEF WriteSetting, Written, procVars, TypeOK, Bookkeeping, Ended
<1>3. ASSUME NEW m \in Model, Settle(m) PROVE Bookkeeping'
  BY <1>3 DEF Settle, sharedVars, procVars, TypeOK, Bookkeeping, Ended
<1>4. CASE Booted
  BY <1>4 DEF Booted, sharedVars, procVars, TypeOK, Bookkeeping, Ended
<1>5. CASE SetStarted
  BY <1>5 DEF SetStarted, TypeOK, Bookkeeping, Ended
<1>6. CASE ClearEvent
  BY <1>6 DEF ClearEvent, Cleared, procVars, TypeOK, Bookkeeping, Ended
<1>7. CASE Launched
  BY <1>7 DEF Launched, sharedVars, procVars, TypeOK, Bookkeeping, Ended
<1>8. CASE Replan
  BY <1>8 DEF Replan, sharedVars, procVars, TypeOK, Bookkeeping, Ended
<1>9. CASE StartStage1
  BY <1>9 DEF StartStage1, Stage1Due, procVars, TypeOK, Bookkeeping, Ended
<1>10. CASE Stop
  BY <1>10 DEF Stop, Raised, Waited, procVars, TypeOK, Bookkeeping, Ended
<1>11. CASE Settled
  BY <1>11 DEF Settled, sharedVars, procVars, TypeOK, Bookkeeping, Ended
<1>12. CASE Teardown
  BY <1>12 DEF Teardown, sharedVars, procVars, TypeOK, Bookkeeping, Ended
<1>13. ASSUME NEW m \in Model, Prepared(m) PROVE Bookkeeping'
  BY <1>13 DEF Prepared, Step, mainVars, TypeOK, Bookkeeping, Ended
<1>14. ASSUME NEW m \in Model, WaitStarted(m) PROVE Bookkeeping'
  BY <1>14 DEF WaitStarted, Step, sharedVars, mainVars, TypeOK, Bookkeeping, Ended
<1>15. ASSUME NEW m \in Model, ReadPlan(m) PROVE Bookkeeping'
  BY <1>15 DEF ReadPlan, Step, sharedVars, mainVars, TypeOK, Bookkeeping, Ended
<1>16. ASSUME NEW m \in Model, Loaded(m) PROVE Bookkeeping'
  BY <1>16 DEF Loaded, Step, sharedVars, mainVars, TypeOK, Bookkeeping, Ended
<1>17. ASSUME NEW m \in Model, Stopped(m) PROVE Bookkeeping'
  BY <1>17 DEF Stopped, Step, ShouldReschedule, RoundMayEnd, sharedVars, mainVars, TypeOK,
     Bookkeeping, Ended
<1>18. ASSUME NEW m \in Model, Complete(m) PROVE Bookkeeping'
  BY <1>18 DEF Complete, Step, RoundMayEnd, mainVars, TypeOK, Bookkeeping, Ended
<1>19. ASSUME NEW m \in Model, FreeGpus(m) PROVE Bookkeeping'
  BY <1>19 DEF FreeGpus, Step, sharedVars, mainVars, TypeOK, Bookkeeping, Ended
<1>20. ASSUME NEW m \in Model, Report(m) PROVE Bookkeeping'
  BY <1>20 DEF Report, Step, FinishedNow, mainVars, TypeOK, Bookkeeping, Ended
<1>21. ASSUME NEW m \in Model, Signal(m) PROVE Bookkeeping'
  BY <1>21 DEF Signal, Step, mainVars, TypeOK, Bookkeeping, Ended
<1>22. ASSUME NEW m \in Model, Loop(m) PROVE Bookkeeping'
  BY <1>22 DEF Loop, Step, sharedVars, mainVars, TypeOK, Bookkeeping, Ended
<1>23. ASSUME NEW m \in Model, CheckStarted(m) PROVE Bookkeeping'
  BY <1>23 DEF CheckStarted, Step, sharedVars, mainVars, TypeOK, Bookkeeping, Ended
<1>24. ASSUME NEW m \in Model, SignalAgain(m) PROVE Bookkeeping'
  BY <1>24 DEF SignalAgain, Step, mainVars, TypeOK, Bookkeeping, Ended
<1>25. ASSUME NEW m \in Model, Unblock(m) PROVE Bookkeeping'
  BY <1>25 DEF Unblock, Step, Unblocked, mainVars, TypeOK, Bookkeeping, Ended
<1>26. ASSUME NEW m \in Model, Die(m) PROVE Bookkeeping'
  BY <1>26 DEF Die, Step, sharedVars, mainVars, TypeOK, Bookkeeping, Ended
<1>27. ASSUME NEW m \in Model, Fail(m) PROVE Bookkeeping'
  BY <1>27 DEF Fail, RoundMayEnd, sharedVars, mainVars, TypeOK, Bookkeeping, Ended
<1>28. CASE UNCHANGED vars
  BY <1>28 DEF vars, sharedVars, mainVars, procVars, TypeOK, Bookkeeping, Ended
<1>29. CASE Awaken
  BY <1>29 DEF Awaken, sharedVars, procVars, TypeOK, Bookkeeping, Ended
<1> QED
  BY <1>1, <1>2, <1>3, <1>4, <1>5, <1>6, <1>7, <1>8, <1>9, <1>10, <1>11, <1>12, <1>13, <1>14,
     <1>15, <1>16, <1>17, <1>18, <1>19, <1>20, <1>21, <1>22, <1>23, <1>24, <1>25, <1>26, <1>27,
     <1>28, <1>29 DEF Next, MainNext, ProcNext, Terminated

(* HybridFlow always computes the plan from the columns it runs.            *)
LEMMA ByColumnsStep ==
    ASSUME TypeOK, ByColumns, [Next]_vars
    PROVE  ByColumns'
<1>1. ASSUME NEW m \in Model, Boot(m) PROVE ByColumns'
  BY <1>1 DEF Boot, sharedVars, procVars, ByColumns
<1>2. ASSUME NEW m \in Model, WriteSetting(m) PROVE ByColumns'
  BY <1>2 DEF WriteSetting, Written, procVars, ByColumns
<1>3. ASSUME NEW m \in Model, Settle(m) PROVE ByColumns'
  BY <1>3 DEF Settle, sharedVars, procVars, ByColumns
<1>4. CASE Booted
  BY <1>4 DEF Booted, sharedVars, procVars, ByColumns
<1>5. CASE SetStarted
  BY <1>5 DEF SetStarted, ByColumns
<1>6. CASE ClearEvent
  BY <1>6 DEF ClearEvent, Cleared, procVars, ByColumns
<1>7. CASE Launched
  BY <1>7 DEF Launched, sharedVars, procVars, ByColumns
<1>8. CASE Replan
  BY <1>8, ReplanKeeps DEF Replan, sharedVars, procVars, ByColumns
<1>9. CASE StartStage1
  BY <1>9 DEF StartStage1, Stage1Due, procVars, ByColumns
<1>10. CASE Stop
  BY <1>10 DEF Stop, Raised, Waited, procVars, ByColumns
<1>11. CASE Settled
  BY <1>11 DEF Settled, sharedVars, procVars, ByColumns
<1>12. CASE Teardown
  BY <1>12 DEF Teardown, sharedVars, procVars, ByColumns
<1>13. ASSUME NEW m \in Model, Prepared(m) PROVE ByColumns'
  BY <1>13 DEF Prepared, Step, mainVars, ByColumns
<1>14. ASSUME NEW m \in Model, WaitStarted(m) PROVE ByColumns'
  BY <1>14 DEF WaitStarted, Step, sharedVars, mainVars, ByColumns
<1>15. ASSUME NEW m \in Model, ReadPlan(m) PROVE ByColumns'
  BY <1>15 DEF ReadPlan, Step, sharedVars, mainVars, ByColumns
<1>16. ASSUME NEW m \in Model, Loaded(m) PROVE ByColumns'
  BY <1>16 DEF Loaded, Step, sharedVars, mainVars, ByColumns
<1>17. ASSUME NEW m \in Model, Stopped(m) PROVE ByColumns'
  BY <1>17 DEF Stopped, Step, ShouldReschedule, RoundMayEnd, sharedVars, mainVars, ByColumns
<1>18. ASSUME NEW m \in Model, Complete(m) PROVE ByColumns'
  BY <1>18 DEF Complete, Step, RoundMayEnd, mainVars, ByColumns
<1>19. ASSUME NEW m \in Model, FreeGpus(m) PROVE ByColumns'
  BY <1>19 DEF FreeGpus, Step, sharedVars, mainVars, ByColumns
<1>20. ASSUME NEW m \in Model, Report(m) PROVE ByColumns'
  BY <1>20 DEF Report, Step, FinishedNow, mainVars, ByColumns
<1>21. ASSUME NEW m \in Model, Signal(m) PROVE ByColumns'
  BY <1>21 DEF Signal, Step, mainVars, ByColumns
<1>22. ASSUME NEW m \in Model, Loop(m) PROVE ByColumns'
  BY <1>22 DEF Loop, Step, sharedVars, mainVars, ByColumns
<1>23. ASSUME NEW m \in Model, CheckStarted(m) PROVE ByColumns'
  BY <1>23 DEF CheckStarted, Step, sharedVars, mainVars, ByColumns
<1>24. ASSUME NEW m \in Model, SignalAgain(m) PROVE ByColumns'
  BY <1>24 DEF SignalAgain, Step, mainVars, ByColumns
<1>25. ASSUME NEW m \in Model, Unblock(m) PROVE ByColumns'
  BY <1>25 DEF Unblock, Step, Unblocked, mainVars, ByColumns
<1>26. ASSUME NEW m \in Model, Die(m) PROVE ByColumns'
  BY <1>26 DEF Die, Step, sharedVars, mainVars, ByColumns
<1>27. ASSUME NEW m \in Model, Fail(m) PROVE ByColumns'
  BY <1>27 DEF Fail, RoundMayEnd, sharedVars, mainVars, ByColumns
<1>28. CASE UNCHANGED vars
  BY <1>28 DEF vars, sharedVars, mainVars, procVars, ByColumns
<1>29. CASE Awaken
  BY <1>29 DEF Awaken, sharedVars, procVars, ByColumns
<1> QED
  BY <1>1, <1>2, <1>3, <1>4, <1>5, <1>6, <1>7, <1>8, <1>9, <1>10, <1>11, <1>12, <1>13, <1>14,
     <1>15, <1>16, <1>17, <1>18, <1>19, <1>20, <1>21, <1>22, <1>23, <1>24, <1>25, <1>26, <1>27,
     <1>28, <1>29 DEF Next, MainNext, ProcNext, Terminated

(* What a process holds grows only when it is started, and then it is what  *)
(* shared_setting has for it.                                               *)
LEMMA HeldShrinks ==
    ASSUME TypeOK, StartedOnce, Bookkeeping, Prompt, [Next]_vars, ~SetStarted,
           NEW n \in Model
    PROVE  Held(n)' \in {{}, Held(n)}
<1>1. ASSUME NEW m \in Model, Boot(m) PROVE Held(n)' \in {{}, Held(n)}
  BY <1>1 DEF Boot, sharedVars, procVars, Held, TypeOK
<1>2. ASSUME NEW m \in Model, WriteSetting(m) PROVE Held(n)' \in {{}, Held(n)}
  BY <1>2 DEF WriteSetting, Ended, procVars, Held, TypeOK
<1>3. ASSUME NEW m \in Model, Settle(m) PROVE Held(n)' \in {{}, Held(n)}
  BY <1>3 DEF Settle, sharedVars, procVars, Held, TypeOK
<1>4. CASE Booted
  BY <1>4 DEF Booted, sharedVars, procVars, Held, TypeOK
<1>5. CASE SetStarted
  BY <1>5
<1>6. CASE ClearEvent
  BY <1>6 DEF ClearEvent, Cleared, procVars, Held, TypeOK
<1>7. CASE Launched
  BY <1>7 DEF Launched, sharedVars, procVars, Held, TypeOK
<1>8. CASE Replan
  BY <1>8 DEF Replan, sharedVars, procVars, Held, TypeOK
<1>9. CASE StartStage1
  BY <1>9 DEF StartStage1, Stage1Due, procVars, Held, TypeOK
<1>10. CASE Stop
  BY <1>10 DEF Stop, Raised, Waited, procVars, Held, TypeOK
<1>11. CASE Settled
  BY <1>11 DEF Settled, sharedVars, procVars, Held, TypeOK
<1>12. CASE Teardown
  BY <1>12 DEF Teardown, sharedVars, procVars, Held, TypeOK
<1>13. ASSUME NEW m \in Model, Prepared(m) PROVE Held(n)' \in {{}, Held(n)}
  BY <1>13 DEF Prepared, Step, mainVars, Held, TypeOK
<1>14. ASSUME NEW m \in Model, WaitStarted(m) PROVE Held(n)' \in {{}, Held(n)}
  BY <1>14 DEF WaitStarted, Step, sharedVars, mainVars, Held, TypeOK, StartedOnce
<1>15. ASSUME NEW m \in Model, ReadPlan(m) PROVE Held(n)' \in {{}, Held(n)}
  BY <1>15 DEF ReadPlan, Step, sharedVars, mainVars, Held, TypeOK
<1>16. ASSUME NEW m \in Model, Loaded(m) PROVE Held(n)' \in {{}, Held(n)}
  BY <1>16 DEF Loaded, Step, sharedVars, mainVars, Held, TypeOK
<1>17. ASSUME NEW m \in Model, Stopped(m) PROVE Held(n)' \in {{}, Held(n)}
  BY <1>17 DEF Stopped, Step, ShouldReschedule, RoundMayEnd, sharedVars, mainVars, Held, TypeOK
<1>18. ASSUME NEW m \in Model, Complete(m) PROVE Held(n)' \in {{}, Held(n)}
  BY <1>18 DEF Complete, Step, RoundMayEnd, mainVars, Held, TypeOK
<1>19. ASSUME NEW m \in Model, FreeGpus(m) PROVE Held(n)' \in {{}, Held(n)}
  BY <1>19 DEF FreeGpus, Step, sharedVars, mainVars, Held, TypeOK
<1>20. ASSUME NEW m \in Model, Report(m) PROVE Held(n)' \in {{}, Held(n)}
  BY <1>20 DEF Report, Step, FinishedNow, mainVars, Held, TypeOK
<1>21. ASSUME NEW m \in Model, Signal(m) PROVE Held(n)' \in {{}, Held(n)}
  BY <1>21 DEF Signal, Step, mainVars, Held, TypeOK
<1>22. ASSUME NEW m \in Model, Loop(m) PROVE Held(n)' \in {{}, Held(n)}
  BY <1>22 DEF Loop, Step, sharedVars, mainVars, Held, TypeOK
<1>23. ASSUME NEW m \in Model, CheckStarted(m) PROVE Held(n)' \in {{}, Held(n)}
  BY <1>23 DEF CheckStarted, Step, sharedVars, mainVars, Held, TypeOK
<1>24. ASSUME NEW m \in Model, SignalAgain(m) PROVE Held(n)' \in {{}, Held(n)}
  BY <1>24 DEF SignalAgain, Step, mainVars, Held, TypeOK
<1>25. ASSUME NEW m \in Model, Unblock(m) PROVE Held(n)' \in {{}, Held(n)}
  BY <1>25 DEF Unblock, Step, Unblocked, mainVars, Held, TypeOK
<1>26. ASSUME NEW m \in Model, Die(m) PROVE Held(n)' \in {{}, Held(n)}
  BY <1>26 DEF Die, Step, sharedVars, mainVars, Held, TypeOK
<1>27. ASSUME NEW m \in Model, Fail(m) PROVE Held(n)' \in {{}, Held(n)}
  BY <1>27 DEF Fail, sharedVars, mainVars, Held, TypeOK, Bookkeeping
<1>28. CASE UNCHANGED vars
  BY <1>28 DEF vars, sharedVars, mainVars, procVars, Held, TypeOK
<1>29. CASE Awaken
  BY <1>29 DEF Awaken, sharedVars, procVars, Held, TypeOK
<1> QED
  BY <1>1, <1>2, <1>3, <1>4, <1>5, <1>6, <1>7, <1>8, <1>9, <1>10, <1>11, <1>12, <1>13, <1>14,
     <1>15, <1>16, <1>17, <1>18, <1>19, <1>20, <1>21, <1>22, <1>23, <1>24, <1>25, <1>26, <1>27,
     <1>28, <1>29 DEF Next, MainNext, ProcNext, Terminated

(* Only the next round changes the plan.                                    *)
LEMMA PlanStays ==
    ASSUME [Next]_vars, ~Replan PROVE plan' = plan
BY DEF Next, MainNext, ProcNext, Terminated, Boot, WriteSetting, Settle, Booted,
   SetStarted, ClearEvent, Launched, Awaken, StartStage1, Stop, Settled, Teardown, Prepared,
   WaitStarted, ReadPlan, Loaded, Stopped, Complete, FreeGpus, Report, Signal, Loop,
   CheckStarted, SignalAgain, Unblock, Die, Fail, vars, mainVars

(* A started process gets the GPUs of the plan.                             *)
LEMMA HeldOfStarted ==
    ASSUME TypeOK, Starting, SetStarted, NEW n \in Model
    PROVE  \/ Held(n)' \in {{}, Held(n)}
           \/ n \in current /\ Held(n)' = plan[n] /\ setting[n] = plan[n]
BY DEF SetStarted, Starting, Held, TypeOK

(* A model leaves the list of those being stopped only when it is off its   *)
(* GPUs: its task is done, or the scheduler has seen its event.             *)
LEMMA LeavingIsOff ==
    ASSUME TypeOK, EventMeansOff, Bookkeeping, [Next]_vars,
           mpc' \notin {"teardown", "end"},
           NEW n \in Model, n \notin Leaving', Held(n) # {}
    PROVE  mpc \notin {"teardown", "end"} /\ n \notin Leaving
<1>1. ASSUME NEW m \in Model, Boot(m) PROVE mpc \notin {"teardown", "end"} /\ n \notin Leaving
  BY <1>1 DEF Boot, sharedVars, procVars, Leaving
<1>2. ASSUME NEW m \in Model, WriteSetting(m) PROVE mpc \notin {"teardown", "end"} /\ n \notin Leaving
  BY <1>2 DEF WriteSetting, Written, procVars, Leaving
<1>3. ASSUME NEW m \in Model, Settle(m) PROVE mpc \notin {"teardown", "end"} /\ n \notin Leaving
  BY <1>3 DEF Settle, Leaving, EventMeansOff, Held
<1>4. CASE Booted
  BY <1>4 DEF Booted, sharedVars, procVars, Leaving
<1>5. CASE SetStarted
  BY <1>5 DEF SetStarted, Leaving
<1>6. CASE ClearEvent
  BY <1>6 DEF ClearEvent, Cleared, procVars, Leaving
<1>7. CASE Launched
  BY <1>7 DEF Launched, sharedVars, procVars, Leaving
<1>8. CASE Replan
  BY <1>8 DEF Replan, sharedVars, procVars, Leaving
<1>9. CASE StartStage1
  BY <1>9 DEF StartStage1, Stage1Due, procVars, Leaving
<1>10. CASE Stop
  BY <1>10 DEF Stop, Waited, Leaving, Bookkeeping, Ended, Held
<1>11. CASE Settled
  BY <1>11 DEF Settled, sharedVars, procVars, Leaving
<1>12. CASE Teardown
  BY <1>12 DEF Teardown, sharedVars, procVars, Leaving
<1>13. ASSUME NEW m \in Model, Prepared(m) PROVE mpc \notin {"teardown", "end"} /\ n \notin Leaving
  BY <1>13 DEF Prepared, Step, mainVars, Leaving
<1>14. ASSUME NEW m \in Model, WaitStarted(m) PROVE mpc \notin {"teardown", "end"} /\ n \notin Leaving
  BY <1>14 DEF WaitStarted, Step, sharedVars, mainVars, Leaving
<1>15. ASSUME NEW m \in Model, ReadPlan(m) PROVE mpc \notin {"teardown", "end"} /\ n \notin Leaving
  BY <1>15 DEF ReadPlan, Step, sharedVars, mainVars, Leaving
<1>16. ASSUME NEW m \in Model, Loaded(m) PROVE mpc \notin {"teardown", "end"} /\ n \notin Leaving
  BY <1>16 DEF Loaded, Step, sharedVars, mainVars, Leaving
<1>17. ASSUME NEW m \in Model, Stopped(m) PROVE mpc \notin {"teardown", "end"} /\ n \notin Leaving
  BY <1>17 DEF Stopped, Step, ShouldReschedule, RoundMayEnd, sharedVars, mainVars, Leaving
<1>18. ASSUME NEW m \in Model, Complete(m) PROVE mpc \notin {"teardown", "end"} /\ n \notin Leaving
  BY <1>18 DEF Complete, Step, RoundMayEnd, mainVars, Leaving
<1>19. ASSUME NEW m \in Model, FreeGpus(m) PROVE mpc \notin {"teardown", "end"} /\ n \notin Leaving
  BY <1>19 DEF FreeGpus, Step, sharedVars, mainVars, Leaving
<1>20. ASSUME NEW m \in Model, Report(m) PROVE mpc \notin {"teardown", "end"} /\ n \notin Leaving
  BY <1>20 DEF Report, Step, FinishedNow, mainVars, Leaving
<1>21. ASSUME NEW m \in Model, Signal(m) PROVE mpc \notin {"teardown", "end"} /\ n \notin Leaving
  BY <1>21 DEF Signal, Step, mainVars, Leaving
<1>22. ASSUME NEW m \in Model, Loop(m) PROVE mpc \notin {"teardown", "end"} /\ n \notin Leaving
  BY <1>22 DEF Loop, Step, sharedVars, mainVars, Leaving
<1>23. ASSUME NEW m \in Model, CheckStarted(m) PROVE mpc \notin {"teardown", "end"} /\ n \notin Leaving
  BY <1>23 DEF CheckStarted, Step, sharedVars, mainVars, Leaving
<1>24. ASSUME NEW m \in Model, SignalAgain(m) PROVE mpc \notin {"teardown", "end"} /\ n \notin Leaving
  BY <1>24 DEF SignalAgain, Step, mainVars, Leaving
<1>25. ASSUME NEW m \in Model, Unblock(m) PROVE mpc \notin {"teardown", "end"} /\ n \notin Leaving
  BY <1>25 DEF Unblock, Step, Unblocked, mainVars, Leaving
<1>26. ASSUME NEW m \in Model, Die(m) PROVE mpc \notin {"teardown", "end"} /\ n \notin Leaving
  BY <1>26 DEF Die, Step, sharedVars, mainVars, Leaving
<1>27. ASSUME NEW m \in Model, Fail(m) PROVE mpc \notin {"teardown", "end"} /\ n \notin Leaving
  BY <1>27 DEF Fail, RoundMayEnd, sharedVars, mainVars, Leaving
<1>28. CASE UNCHANGED vars
  BY <1>28 DEF vars, sharedVars, mainVars, procVars, Leaving
<1>29. CASE Awaken
  BY <1>29 DEF Awaken, sharedVars, procVars, Leaving
<1> QED
  BY <1>1, <1>2, <1>3, <1>4, <1>5, <1>6, <1>7, <1>8, <1>9, <1>10, <1>11, <1>12, <1>13, <1>14,
     <1>15, <1>16, <1>17, <1>18, <1>19, <1>20, <1>21, <1>22, <1>23, <1>24, <1>25, <1>26, <1>27,
     <1>28, <1>29 DEF Next, MainNext, ProcNext, Terminated

(* The plan a process reads is rewritten only while it holds no GPU.        *)
LEMMA SettingStays ==
    ASSUME TypeOK, Prompt, [Next]_vars, NEW n \in Model, Held(n) # {}
    PROVE  setting'[n] = setting[n]
<1>1. ASSUME NEW m \in Model, Boot(m) PROVE setting'[n] = setting[n]
  BY <1>1 DEF Boot, sharedVars, procVars, TypeOK
<1>2. ASSUME NEW m \in Model, WriteSetting(m) PROVE setting'[n] = setting[n]
  BY <1>2 DEF WriteSetting, Ended, Held, TypeOK
<1>3. ASSUME NEW m \in Model, Settle(m) PROVE setting'[n] = setting[n]
  BY <1>3 DEF Settle, sharedVars, procVars, TypeOK
<1>4. CASE Booted
  BY <1>4 DEF Booted, sharedVars, procVars, TypeOK
<1>5. CASE SetStarted
  BY <1>5 DEF SetStarted, TypeOK
<1>6. CASE ClearEvent
  BY <1>6 DEF ClearEvent, Cleared, procVars, TypeOK
<1>7. CASE Launched
  BY <1>7 DEF Launched, sharedVars, procVars, TypeOK
<1>8. CASE Replan
  BY <1>8 DEF Replan, sharedVars, procVars, TypeOK
<1>9. CASE StartStage1
  BY <1>9 DEF StartStage1, Stage1Due, procVars, TypeOK
<1>10. CASE Stop
  BY <1>10 DEF Stop, Raised, Waited, procVars, TypeOK
<1>11. CASE Settled
  BY <1>11 DEF Settled, sharedVars, procVars, TypeOK
<1>12. CASE Teardown
  BY <1>12 DEF Teardown, sharedVars, procVars, TypeOK
<1>13. ASSUME NEW m \in Model, Prepared(m) PROVE setting'[n] = setting[n]
  BY <1>13 DEF Prepared, Step, mainVars, TypeOK
<1>14. ASSUME NEW m \in Model, WaitStarted(m) PROVE setting'[n] = setting[n]
  BY <1>14 DEF WaitStarted, Step, sharedVars, mainVars, TypeOK
<1>15. ASSUME NEW m \in Model, ReadPlan(m) PROVE setting'[n] = setting[n]
  BY <1>15 DEF ReadPlan, Step, sharedVars, mainVars, TypeOK
<1>16. ASSUME NEW m \in Model, Loaded(m) PROVE setting'[n] = setting[n]
  BY <1>16 DEF Loaded, Step, sharedVars, mainVars, TypeOK
<1>17. ASSUME NEW m \in Model, Stopped(m) PROVE setting'[n] = setting[n]
  BY <1>17 DEF Stopped, Step, ShouldReschedule, RoundMayEnd, sharedVars, mainVars, TypeOK
<1>18. ASSUME NEW m \in Model, Complete(m) PROVE setting'[n] = setting[n]
  BY <1>18 DEF Complete, Step, RoundMayEnd, mainVars, TypeOK
<1>19. ASSUME NEW m \in Model, FreeGpus(m) PROVE setting'[n] = setting[n]
  BY <1>19 DEF FreeGpus, Step, sharedVars, mainVars, TypeOK
<1>20. ASSUME NEW m \in Model, Report(m) PROVE setting'[n] = setting[n]
  BY <1>20 DEF Report, Step, FinishedNow, mainVars, TypeOK
<1>21. ASSUME NEW m \in Model, Signal(m) PROVE setting'[n] = setting[n]
  BY <1>21 DEF Signal, Step, mainVars, TypeOK
<1>22. ASSUME NEW m \in Model, Loop(m) PROVE setting'[n] = setting[n]
  BY <1>22 DEF Loop, Step, sharedVars, mainVars, TypeOK
<1>23. ASSUME NEW m \in Model, CheckStarted(m) PROVE setting'[n] = setting[n]
  BY <1>23 DEF CheckStarted, Step, sharedVars, mainVars, TypeOK
<1>24. ASSUME NEW m \in Model, SignalAgain(m) PROVE setting'[n] = setting[n]
  BY <1>24 DEF SignalAgain, Step, mainVars, TypeOK
<1>25. ASSUME NEW m \in Model, Unblock(m) PROVE setting'[n] = setting[n]
  BY <1>25 DEF Unblock, Step, Unblocked, mainVars, TypeOK
<1>26. ASSUME NEW m \in Model, Die(m) PROVE setting'[n] = setting[n]
  BY <1>26 DEF Die, Step, sharedVars, mainVars, TypeOK
<1>27. ASSUME NEW m \in Model, Fail(m) PROVE setting'[n] = setting[n]
  BY <1>27 DEF Fail, RoundMayEnd, sharedVars, mainVars, TypeOK
<1>28. CASE UNCHANGED vars
  BY <1>28 DEF vars, sharedVars, mainVars, procVars, TypeOK
<1>29. CASE Awaken
  BY <1>29 DEF Awaken, sharedVars, procVars, TypeOK
<1> QED
  BY <1>1, <1>2, <1>3, <1>4, <1>5, <1>6, <1>7, <1>8, <1>9, <1>10, <1>11, <1>12, <1>13, <1>14,
     <1>15, <1>16, <1>17, <1>18, <1>19, <1>20, <1>21, <1>22, <1>23, <1>24, <1>25, <1>26, <1>27,
     <1>28, <1>29 DEF Next, MainNext, ProcNext, Terminated

(* Whatever a process holds, and does not have to give up, is in the plan.  *)
LEMMA HoldingInPlan ==
    ASSUME TypeOK, StartedOnce, EventMeansOff, Starting, Bookkeeping, ByColumns, Holding,
           Prompt, ~QuickRounds, [Next]_vars,
           mpc' \notin {"teardown", "end"},
           NEW n \in Model, n \notin Leaving', Held(n)' # {}
    PROVE  Held(n)' = plan'[n] /\ setting'[n] = plan'[n]
<1>1. CASE SetStarted /\ n \in current
  BY <1>1, HeldOfStarted DEF SetStarted, Starting, Held, TypeOK
<1>2. CASE ~(SetStarted /\ n \in current)
  <2>1. Held(n)' = Held(n) /\ Held(n) # {}
    <3>1. CASE SetStarted
      BY <1>2, <3>1, HeldOfStarted
    <3>2. CASE ~SetStarted
      BY <3>2, HeldShrinks
    <3> QED
      BY <3>1, <3>2
  <2>2. mpc \notin {"teardown", "end"} /\ n \notin Leaving
    BY <2>1, LeavingIsOff
  <2>3. Held(n) = plan[n] /\ setting[n] = plan[n]
    BY <2>1, <2>2 DEF Holding
  <2>4. plan'[n] = plan[n]
    <3>1. CASE Replan
      BY <2>1, <2>3, <3>1, ReplanKeeps DEF Replan, Leaving
    <3>2. CASE ~Replan
      BY <3>2, PlanStays
    <3> QED
      BY <3>1, <3>2
  <2>5. setting'[n] = setting[n]
    BY <2>1, SettingStays
  <2> QED
    BY <2>1, <2>3, <2>4, <2>5
<1> QED
  BY <1>1, <1>2

(* Every step keeps what processes hold within the plan, and apart.         *)
LEMMA HoldingStep ==
    ASSUME TypeOK, StartedOnce, EventMeansOff, Starting, Bookkeeping, ByColumns, Holding,
           Prompt, ~QuickRounds, [Next]_vars
    PROVE  Holding'
<1>1. Disjoint(plan')
  <2>1. CASE Replan
    BY <2>1, ReplanKeeps
  <2>2. CASE ~Replan
    BY <2>2, PlanStays DEF Holding
  <2> QED
    BY <2>1, <2>2
<1>2. mpc' \notin {"teardown", "end"} =>
         \A n \in Model \ Leaving' :
            Held(n)' # {} => Held(n)' = plan'[n] /\ setting'[n] = plan'[n]
  BY HoldingInPlan
<1>3. \A m, n \in Model : m # n => Held(m)' \cap Held(n)' = {}
  <2>1. CASE SetStarted
    <3>1. \A n \in Model : Held(n)' # {} => Held(n)' = plan[n]
      BY <2>1, HeldOfStarted DEF Holding, Leaving, SetStarted
    <3> QED
      BY <3>1 DEF Holding, Disjoint
  <2>2. CASE ~SetStarted
    <3>1. \A n \in Model : Held(n)' \in {{}, Held(n)}
      BY <2>2, HeldShrinks
    <3> QED
      BY <3>1 DEF Holding
  <2> QED
    BY <2>1, <2>2
<1> QED
  BY <1>1, <1>2, <1>3 DEF Holding

(* Every step keeps the invariant of the hand-over of GPUs.                 *)
LEMMA ExclusionStep ==
    ASSUME Prompt, ~QuickRounds, ExclusionInv, [Next]_vars
    PROVE  ExclusionInv'
<1> USE DEF ExclusionInv
<1>1. StageInv'
  BY StageStep
<1>2. StartedOnce' /\ EventMeansOff' /\ Starting'
  BY StartedOnceStep, EventStep, StartingStep DEF StageInv
<1>3. Bookkeeping' /\ ByColumns'
  BY BookkeepingStep, ByColumnsStep DEF StageInv
<1>4. Holding'
  BY HoldingStep DEF StageInv
<1> QED
  BY <1>1, <1>2, <1>3, <1>4

(* The inductive invariant of the hand-over of GPUs.                        *)
THEOREM HandOver ==
    ASSUME Prompt, ~QuickRounds
    PROVE  Spec => []ExclusionInv
<1>1. ExclusionInv /\ [Next]_vars => ExclusionInv'
  BY ExclusionStep
<1> QED
  BY <1>1, ExclusionInit, PTL DEF Spec

(* ExclusiveGPUs: two models are never on the same GPU, for any models,     *)
(* GPUs and plans and both policies, if rounds outlast two statements of    *)
(* the scheduler and a model has reached wait_to_be_started before it is    *)
(* started.                                                                 *)
THEOREM Exclusion ==
    ASSUME Prompt, ~QuickRounds
    PROVE  Spec => []ExclusiveGPUs
<1>1. ExclusionInv => ExclusiveGPUs
  <2>1. ASSUME ExclusionInv, NEW m \in Model, OnGpus(m) PROVE snap[m] = Held(m)
    BY <2>1 DEF ExclusionInv, Bookkeeping, OnGpus, Using, Held
  <2> QED
    BY <2>1 DEF ExclusionInv, Holding, ExclusiveGPUs
<1> QED
  BY <1>1, HandOver, PTL

(* PlansAreInForce: while the scheduler waits for a model to finish, every  *)
(* model is on the GPUs of the scheduler's plan, and shared_setting, which  *)
(* its workers read again at every poll, is the plan they were launched on. *)
THEOREM PlansInForce ==
    ASSUME Prompt, ~QuickRounds
    PROVE  Spec => []PlansAreInForce
<1>1. ExclusionInv => PlansAreInForce
  <2>1. ASSUME ExclusionInv, NEW m \in Model, OnGpus(m) PROVE snap[m] = Held(m) /\ Held(m) # {}
    BY <2>1 DEF ExclusionInv, Bookkeeping, OnGpus, Using, Held
  <2> QED
    BY <2>1 DEF ExclusionInv, Holding, PlansAreInForce, Leaving
<1> QED
  BY <1>1, HandOver, PTL

(* SignalledIsReady: the scheduler goes on after waiting for a model only   *)
(* when the model has given up its GPUs.                                    *)
THEOREM SignalsAreHonest ==
    ASSUME Prompt, ~QuickRounds
    PROVE  Spec => SignalledIsReady
<1>1. ASSUME ExclusionInv, [Next]_vars, mpc = "settle", NEW m \in Model, m \in todo \ todo'
      PROVE  ~OnGpus(m)
  <2>1. event[m]
    BY <1>1 DEF Next, MainNext, ProcNext, Terminated, Boot, WriteSetting, Settle, Booted,
       SetStarted, ClearEvent, Launched, Awaken, Replan, StartStage1, Stop, Settled, Teardown, Prepared,
       WaitStarted, ReadPlan, Loaded, Stopped, Complete, FreeGpus, Report, Signal, Loop,
       CheckStarted, SignalAgain, Unblock, Die, Fail, vars, mainVars
  <2> QED
    BY <1>1, <2>1 DEF ExclusionInv, EventMeansOff, Bookkeeping, OnGpus, Using
<1>2. ExclusionInv /\ [Next]_vars
        => [\A m \in Model : mpc = "settle" /\ m \in todo \ todo' => ~OnGpus(m)]_vars
  BY <1>1
<1> QED
  BY <1>2, HandOver, PTL DEF Spec, SignalledIsReady
=============================================================================
