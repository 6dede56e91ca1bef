---------------------- MODULE StageSchedulerProperties ----------------------
(***************************************************************************)
(* What the rounds of the stage scheduler must achieve, whatever finishes   *)
(* while they are computed.                                                 *)
(***************************************************************************)
EXTENDS StageScheduler

Points == {"wait", "keep", "adopt", "load", "reload", "place", "start",
           "end", "failed", "noUnit"}

(* Type invariant of the main loop and of the lists of a round.             *)
TypeOK ==
    /\ stages \in Schedules /\ setting \in Settings
    /\ returned \subseteq finished /\ finished \subseteq Model
    /\ target \in 2 .. Len(stages) + Cardinality(Model) + 1
    /\ pc \in Points
    /\ nextStage \in BOOLEAN
    /\ \A list \in {running, cands, launched, rest, keep, older, newer, left} :
          list \in Seq(UNION {{<<i, j>> : j \in DOMAIN stages[i]} : i \in DOMAIN stages})
    /\ \A p \in States(stages) : gpus[p] \in Seq(GPU)
    /\ flagged \subseteq States(stages)
    /\ avail \in Seq(GPU)
    /\ toStop \subseteq Model /\ newLaunch \subseteq ToSet(running)

(* Every new plan gets as many GPUs as it was planned with: the assertion   *)
(* of start_exec_plans.                                                     *)
EnoughGpus == pc # "failed"

(* When the models run, each has one plan, and no two of them have been     *)
(* given the same GPU.                                                      *)
GpusAreExclusive ==
    pc = "wait" =>
        \A k, h \in DOMAIN running : k # h =>
            /\ ModelOf(running[k]) # ModelOf(running[h])
            /\ ToSet(gpus[running[k]]) \cap ToSet(gpus[running[h]]) = {}

(* A model that is not stopped goes on with the plan and the GPUs it has.   *)
UnstoppedIsUntouched ==
    [][pc = "place" /\ pc' = "start" =>
        \A k \in DOMAIN running : ModelOf(running[k]) \notin toStop' =>
            \E h \in DOMAIN running' :
                /\ Plan(running'[h]) = Plan(running[k])
                /\ gpus'[running'[h]] = gpus[running[k]]
                /\ running'[h] \notin newLaunch']_vars

(* What the code asserts or takes for granted while a round is computed:    *)
(* the GPUs of new plans suffice; a candidate that needs no preparation is found in launched_plan_gpus; a  *)
(* plan that keeps its GPUs because it fills units fills whole units        *)
(* (_adjust_comp_gpus_for_current_launched_exec_plans); and without runtime *)
(* adjustment a stage starts when nothing of the one before has to go on,   *)
(* and then as a whole.                                                     *)
AdoptionIsFound ==
    pc = "adopt" /\ rest # <<>> =>
        ModelOf(Head(rest)) \in finished \/ NeedsPrepare(Head(rest)) \/ Sames(Head(rest)) # {}
UnitsAreWhole ==
    pc = "place" =>
        \A p \in Fixed : \A g \in ToSet(OldGpus(p)) :
            \A h \in GPU : h \div Unit = g \div Unit => h \in ToSet(OldGpus(p))
StageByStage ==
    setting.barrier =>
        /\ pc = "adopt" /\ ~nextStage => \A k \in DOMAIN keep : keep[k][1] < target
        /\ pc = "load" /\ rest = <<>> /\ nextStage => left = <<>>
AssertionsHold == EnoughGpus /\ AdoptionIsFound /\ UnitsAreWhole /\ StageByStage

(* The GPUs of a worker group are in one unit.                              *)
GroupsAreConnected ==
    pc = "wait" => \A k \in DOMAIN running : InUnits(running[k], gpus[running[k]])

(* The main loop does not wait for ever: some task is about to return, or a *)
(* running model needs nothing from a model that does not run.              *)
SomeModelCanFinish ==
    pc = "wait" =>
        \/ finished # returned
        \/ \E m \in ModelsIn(running) : Inputs[m] \subseteq finished
=============================================================================
