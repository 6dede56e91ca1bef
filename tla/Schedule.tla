------------------------------ MODULE Schedule ------------------------------
(***************************************************************************)
(* Planned stages: what the search of benchmarks/search_exec_plans.py hands *)
(* to the stage scheduler of benchmarks/schedule_multi_model.py.            *)
(*                                                                         *)
(* A schedule is a sequence of stages, a stage a sequence of plans          *)
(* [model, workers, dp]: num_worker GPUs for each of dp_size copies.        *)
(***************************************************************************)
EXTENDS Integers, Sequences, FiniteSets, FiniteSetsExt

CONSTANTS
    Model,
    TotGpu,     \* tot_gpu_num
    Unit        \* fully_connected_gpu_unit: neighbouring GPUs with fast links

Gpus(plan) == plan.workers * plan.dp
Plans(sched, i, m) == {j \in DOMAIN sched[i] : sched[i][j].model = m}
Planned(sched) == {m \in Model : \E i \in DOMAIN sched : Plans(sched, i, m) # {}}
LastStage(sched, m) == Max({i \in DOMAIN sched : Plans(sched, i, m) # {}})

(* A model is planned when its input n is complete or planned with it.      *)
InTime(sched, n, m) ==
    /\ LastStage(sched, n) <= LastStage(sched, m)
    /\ \A i \in 1 .. LastStage(sched, n) : Plans(sched, i, m) # {} => Plans(sched, i, n) # {}

(* What the scheduler takes for granted: a stage has one plan for a model   *)
(* and fits the machine, a tensor parallel group lies in a unit, and a      *)
(* model is planned in time for the models inputs[m] it reads from.         *)
WellFormed(sched, inputs) ==
    /\ sched \in Seq(Seq([model : Model, workers : 1 .. Unit, dp : 1 .. TotGpu]))
    /\ sched # <<>>
    /\ \A i \in DOMAIN sched :
          /\ MapThenSumSet(LAMBDA j : Gpus(sched[i][j]), DOMAIN sched[i]) <= TotGpu
          /\ \A m \in Model : Cardinality(Plans(sched, i, m)) <= 1
          /\ \A j \in DOMAIN sched[i] : Unit % sched[i][j].workers = 0
    /\ \A m \in Planned(sched) : \A n \in inputs[m] :
          n \in Planned(sched) /\ InTime(sched, n, m)
=============================================================================
