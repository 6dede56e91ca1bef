----------------------------- MODULE PlanSearch -----------------------------
(***************************************************************************)
(* The search for a schedule in benchmarks/search_exec_plans.py, with the   *)
(* methods greedy_saturn_LPT, greedy_saturn_LPT_no_preemption and their     *)
(* randomCost variant: models of one name in a chain are fused, and then    *)
(* one stage after the other is planned greedily, level by level of the     *)
(* graph of what is not finished yet, and its execution simulated.          *)
(*                                                                         *)
(* What the cost model decides is left open: latencies, loading costs and   *)
(* throughputs only choose among the plans the search may take, and say     *)
(* which models a stage finishes.                                           *)
(*                                                                         *)
(* An operator Op_Something in front of Op is Op with a fault seeded in it; *)
(* no definition uses it.                                                   *)
(***************************************************************************)
EXTENDS Schedule, SequencesExt

CONSTANTS
    Searches    \* pairs of a graph
                \*   [models: how many, srcs: model -> models, name, fits: name ->
                \*    sizes of a worker group that can hold it, indep: independent_srcs]
                \* and a method
                \*   [noPreemption, random]: substrings of search_method_baseline

(* Base models are numbered in the order in which get_all_level_models      *)
(* visits them, so that a model comes after the models it reads from.       *)
ASSUME SearchAssumption ==
    /\ TotGpu \in Nat \ {0} /\ Unit \in Nat \ {0} /\ TotGpu % Unit = 0
    /\ IsFiniteSet(Model) /\ Model = 1 .. Cardinality(Model)
    /\ \A search \in Searches :
          /\ search = <<search[1], search[2]>> /\ search[1].models \in Model
          /\ search[2] \in [noPreemption : BOOLEAN, random : BOOLEAN]
          /\ \A m \in 1 .. search[1].models :
                /\ search[1].srcs[m] \subseteq 1 .. m - 1
                /\ search[1].indep[m] \in BOOLEAN
                /\ search[1].fits[search[1].name[m]] # {}
                /\ \A k \in search[1].fits[search[1].name[m]] :
                      k \in {2 ^ i : i \in 0 .. TotGpu} /\ k \in 1 .. Unit /\ Unit % k = 0

VARIABLES
    work,       \* the graph of the application
    method,
    phase,      \* "fuse", "round", "levels", "pick", "stage", "done", "aborted"
    home,       \* node_mapping: base model -> first base model of its node
    fin,        \* the base models without remaining requests
    sched,      \* plan_group_seq: the stages so far, sets of plans
    spent,      \* pairs of a node with independent sources and a source that
                \* none of its remaining requests (inp_seq_ids) reads from
    checked,    \* the nodes with a check_order, in that order
    visited,    \* by the passes of get_all_level_models
    levels,     \* all_level_model_ids: sets of unfinished nodes
    level,      \* visit_model_level
    cand,       \* cand_models: the nodes of the level not yet tried
    tot,        \* tot_cand_models
    group       \* best_plan_group: the plans of the stage so far

graphVars == <<work, method, home>>
stageVars == <<fin, sched, spent, checked>>
pickVars == <<visited, levels, level, cand, tot, group>>
vars == <<graphVars, phase, stageVars, pickVars>>

----------------------------------------------------------------------------
(* Nodes of the graph: base models, or chains of them fused into one.       *)
Nodes == {n \in DOMAIN home : home[n] = n}
Bases(n) == {m \in DOMAIN home : home[m] = n}
NodeInputs(n) == {home[s] : s \in UNION {work.srcs[m] : m \in Bases(n)}} \ {n}
Finished(n) == Bases(n) \subseteq fin

(* _meet_vertical_fuse_condition: the model reads from the last of a chain  *)
(* only, or from all of it and from what its first model reads.             *)
MeetsFuse_LastOfMany(inps, chain, firstInps) == Max(chain) \in inps
MeetsFuse(inps, chain, firstInps) == inps = {Max(chain)} \/ inps = firstInps \cup chain

CanFollow(m, n) ==
    work.name[n] = work.name[m] /\ MeetsFuse(work.srcs[m], Bases(n), work.srcs[n])

(* One more base model joins the first chain it fits, or starts one.        *)
Fuse ==
    /\ phase = "fuse"
    /\ LET m == Len(home) + 1
           fits == {n \in Nodes : CanFollow(m, n)}
       IN  /\ \E n \in IF fits = {} THEN {m} ELSE fits :
                 /\ \A k \in fits : n <= k
                 /\ home' = Append(home, n)
           /\ phase' = IF m = work.models THEN "round" ELSE "fuse"
    /\ UNCHANGED <<work, method, stageVars, pickVars>>

----------------------------------------------------------------------------
(* _get_best_model_schedule: the schedule is complete or a stage is planned.*)
(* More stages than nodes end the search without a schedule.                *)
TooDeep == Len(sched) > Cardinality(Nodes)
AllDone == \A n \in Nodes : Finished(n)
Round ==
    /\ phase = "round" /\ ~TooDeep
    /\ phase' = IF AllDone THEN "done" ELSE "levels"
    /\ visited' = {} /\ levels' = <<>>
    /\ level' = 0 /\ cand' = <<>> /\ tot' = <<>> /\ group' = {}
    /\ UNCHANGED <<graphVars, stageVars>>

(* get_all_level_models, one pass over the graph: the unfinished nodes      *)
(* whose inputs earlier passes have visited make a level.  A node that      *)
(* takes its requests from each source on its own needs only one of the     *)
(* unfinished sources that its remaining requests read from.                *)
UnfinishedSrcs(n) == {i \in NodeInputs(n) : ~Finished(i) /\ <<n, i>> \notin spent}
CanEnter_Anytime(n) == work.indep[n] \/ NodeInputs(n) \subseteq visited
CanEnter(n) ==
    IF work.indep[n]
    THEN UnfinishedSrcs(n) = {} \/ UnfinishedSrcs(n) \cap visited # {}
    ELSE NodeInputs(n) \subseteq visited
(* get_unfinished_srcs looks for the requests of a fused model, which are   *)
(* kept with its base models only: the search ends with a TypeError.        *)
NoRequests(n) == work.indep[n] /\ Cardinality(Bases(n)) > 1

Pass ==
    /\ phase = "levels"
    /\ LET rest == Nodes \ visited
           open == {n \in rest : ~Finished(n)}
           new == {n \in open : CanEnter(n)}
       IN  /\ visited' = visited \cup new \cup (rest \ open)
           /\ levels' = IF new = {} THEN levels ELSE Append(levels, new)
           /\ phase' = IF \E n \in open : NoRequests(n) THEN "aborted"
                       ELSE IF rest = new \cup (rest \ open) THEN "pick" ELSE "levels"
    /\ UNCHANGED <<graphVars, stageVars, level, cand, tot, group>>

----------------------------------------------------------------------------
(* The plans of the last stage, and of a node in a set of plans.            *)
LastPlans == IF sched = <<>> THEN {} ELSE sched[Len(sched)]
ModelsIn(plans) == {p.model : p \in plans}
Used(plans) == MapThenSumSet(Gpus, plans)
Running(n) == n \in ModelsIn(LastPlans)

(* The order in which the nodes of a level are tried: those of the last     *)
(* stage first, then those chosen earlier, then by latency.                 *)
Rank(n) ==
    IF n \in ToSet(checked) THEN SelectInSeq(checked, LAMBDA c : c = n) ELSE work.models + 1
Before(a, b) ==
    \/ Running(a) /\ ~Running(b)
    \/ (Running(a) <=> Running(b)) /\ Rank(a) < Rank(b)
Orders(nodes) ==
    {s \in SetToSeqs(nodes) : \A i, j \in DOMAIN s : i < j => ~Before(s[j], s[i])}

(* The next level; without one, more GPUs for the models already chosen.    *)
IsLastLevel_OneMore == level > Len(levels) + 1
IsLastLevel == level > Len(levels)
Visit ==
    /\ phase = "pick" /\ cand = <<>> /\ ~IsLastLevel
    /\ level' = level + 1
    /\ cand' \in IF level' > Len(levels) THEN {<<>>} ELSE Orders(levels[level'])
    /\ UNCHANGED <<graphVars, phase, stageVars, visited, levels, tot, group>>

----------------------------------------------------------------------------
(* _get_possible_exec_plans.                                                *)
PossiblePlans(n) ==
    {p \in [model : {n}, workers : work.fits[work.name[n]], dp : 1 .. TotGpu] :
        Gpus(p) <= TotGpu}

(* _gen_cand_exec_plans_using_more_gpus.                                    *)
Others(n) == {p \in group : p.model # n}
MorePlans_AnyKey(n) ==
    LET more == Used(group) - Used(Others(n))
    IN  {p \in PossiblePlans(n) : Gpus(p) > more}
MorePlans(n) ==
    LET now == Used(group) - Used(Others(n))
    IN  {p \in PossiblePlans(n) :
            Gpus(p) > now /\ (method.noPreemption /\ Running(n) => p \in LastPlans)}

(* get_runnable_plans_from_cand_plans.                                      *)
Runnable_Anytime(n) == TRUE
Runnable(n) == \A i \in NodeInputs(n) : Finished(i) \/ i \in ModelsIn(group)

(* The plans to weigh: one node gets its first plan, or a larger one.       *)
Fitting(n) ==
    LET available == TotGpu - Used(Others(n))
    IN  {p \in MorePlans(n) : Gpus(p) <= available}
Options(nodes) == UNION {Fitting(n) : n \in {m \in nodes : Runnable(m)}}
With(p) == Others(p.model) \cup {p}

(* The plan that is taken is the one with the best score.  Larger plans may *)
(* all be rejected, and so may a plan that reloads a running model; the     *)
(* first plan of a node that does not is never.  Without preemption such a  *)
(* plan of a running model is taken before any other.                       *)
Sure(options) ==
    {p \in options : p.model \notin ModelsIn(group) /\ (Running(p.model) => p \in LastPlans)}
Forced(options) == {p \in Sure(options) : method.noPreemption /\ Running(p.model)}
Outcomes(options) ==
    IF method.random
    THEN IF options = {} THEN {group} ELSE {With(p) : p \in options}
    ELSE IF Forced(options) # {}
    THEN {With(p) : p \in Forced(options)}
    ELSE {With(p) : p \in options} \cup (IF Sure(options) = {} THEN {group} ELSE {})

(* A node that got no plan is put back, to be tried again.  The stage is    *)
(* complete when a round takes no more GPUs.                                *)
Pick ==
    /\ phase = "pick" /\ (cand # <<>> \/ IsLastLevel)
    /\ LET tried == IF cand = <<>> THEN tot ELSE Append(tot, Head(cand))
       IN  \E new \in Outcomes(Options(ToSet(tried))) :
              /\ group' = new
              /\ IF cand # <<>> /\ Cardinality(new) > Cardinality(group)
                 THEN tot' = tried /\ cand' = Tail(cand)
                 ELSE UNCHANGED <<tot, cand>>
              /\ phase' = IF Used(new) = Used(group) THEN "stage" ELSE "pick"
    /\ UNCHANGED <<graphVars, stageVars, visited, levels, level>>

----------------------------------------------------------------------------
(* Pairs of a chain of the last stage and a planned node that could follow  *)
(* it: the search would fuse them and take a step back.                     *)
Key(p) == <<p.workers, p.dp>>
VerticalPairs ==
    {pq \in LastPlans \X group : CanFollow(pq[2].model, pq[1].model) /\ Key(pq[1]) = Key(pq[2])}

(* A stage ends when a node that reads from no other node of the stage has  *)
(* finished.  A model that needs only some of the outputs of another may    *)
(* finish before it.                                                        *)
Roots == {n \in ModelsIn(group) : NodeInputs(n) \cap ModelsIn(group) = {}}
StageEnds ==
    {more \in SUBSET (UNION {Bases(n) : n \in ModelsIn(group)} \ fin) :
        \E n \in Roots : Bases(n) \subseteq fin \cup more}

(* Nor need the requests it has left read from every source any more.       *)
NewlySpent(done) ==
    {ni \in ModelsIn(group) \X ModelsIn(group) :
        /\ work.indep[ni[1]] /\ ni[2] \in NodeInputs(ni[1])
        /\ \A k \in {1, 2} : ~(Bases(ni[k]) \subseteq done)}

(* check_finish_states_accuracy asserts that the inputs of a finished node  *)
(* are finished.                                                            *)
StatesAccurate(done) ==
    \A n \in Nodes : Bases(n) \subseteq done =>
        \A i \in NodeInputs(n) : Bases(i) \subseteq done

(* The chosen nodes without a check_order get the next ones.                *)
GiveOrder(order, nodes) ==
    FoldLeft(LAMBDA o, n : IF n \in ToSet(o) THEN o ELSE Append(o, n), order, nodes)

(* The stage is simulated and added to the schedule.                        *)
Stage ==
    /\ phase = "stage" /\ group # {} /\ VerticalPairs = {}
    /\ \E more \in StageEnds :
          /\ fin' = fin \cup more
          /\ phase' = IF StatesAccurate(fin \cup more) THEN "round" ELSE "aborted"
          /\ \E new \in SUBSET NewlySpent(fin \cup more) : spent' = spent \cup new
    /\ sched' = Append(sched, group)
    /\ checked' = GiveOrder(checked, tot)
    /\ UNCHANGED <<graphVars, pickVars>>

(* A stage without a plan has no latency: min() of an empty list raises.    *)
NoStage ==
    /\ phase = "stage" /\ group = {}
    /\ phase' = "aborted"
    /\ UNCHANGED <<graphVars, stageVars, pickVars>>

----------------------------------------------------------------------------
Init ==
    /\ \E search \in Searches : work = search[1] /\ method = search[2]
    /\ phase = "fuse" /\ home = <<>>
    /\ fin = {} /\ sched = <<>> /\ spent = {} /\ checked = <<>>
    /\ visited = {} /\ levels = <<>> /\ level = 0 /\ cand = <<>> /\ tot = <<>> /\ group = {}

Next == Fuse \/ Round \/ Pass \/ Visit \/ Pick \/ Stage \/ NoStage

Spec == Init /\ [][Next]_vars

(* The search is one process that goes on until it returns.                 *)
FairSpec == Spec /\ WF_vars(Next)
=============================================================================
